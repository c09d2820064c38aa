---------------------------- MODULE MCFetchObject ----------------------------
(***************************************************************************)
(* An instance of FetchObject for TLC: two fetches under one signal, with  *)
(* a transport of their own or a shared one, to a buffer or a stream, with *)
(* and without a timeout of one unit and waiting for connections.          *)
(***************************************************************************)
EXTENDS FetchObject

CONSTANTS f1, f2

MCFetches == {f1, f2}
MCBuffer == [as |-> "buffer", own |-> TRUE, signal |-> TRUE, timeout |-> 1,
             waitForConnections |-> TRUE]
MCOptions == {MCBuffer,
              [MCBuffer EXCEPT !.own = FALSE, !.timeout = None],
              [MCBuffer EXCEPT !.signal = FALSE, !.waitForConnections = FALSE],
              [MCBuffer EXCEPT !.as = "stream"],
              [MCBuffer EXCEPT !.as = "stream", !.own = FALSE, !.timeout = None]}
==============================================================================
