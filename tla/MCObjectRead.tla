---------------------------- MODULE MCObjectRead ----------------------------
(***************************************************************************)
(* An instance of ObjectRead, and of what is said of the object read, for  *)
(* TLC: an intact object of two payload blocks without an integrityHint    *)
(* and with one of each algorithm, an empty one, and foreign cores with a  *)
(* wrong hint, one of an algorithm nobody knows, a wrong size and no       *)
(* descriptor at all.  They are read from local storage or from a core     *)
(* that is provided, waiting for missing blocks or not, under every choice *)
(* of who closes the core.                                                 *)
(***************************************************************************)
EXTENDS ReadbackProof

CONSTANTS a, b

MCPayload == <<PayloadBlock(<<a>>), PayloadBlock(<<b>>)>>
MCDescriptor(algorithm) == Descriptor(2, HintOf(algorithm, <<a, b>>))
MCDescriptors == {MCDescriptor(algorithm) : algorithm \in Algorithms}
    \cup {Descriptor(2, NoHint), Descriptor(2, HintOf("sha256", <<b, a>>)),
          Descriptor(2, Hint("rot13", Digest("sha256", <<a, b>>))), Descriptor(3, NoHint)}
MCContents == {<<d>> \o MCPayload : d \in MCDescriptors \cup {PayloadBlock(<<a>>)}}
              \cup {<<Descriptor(0, NoHint)>>}
MCHashes == {None, MCDescriptor("sha256")}
MCOptions == {[as |-> as, provided |-> p, wait |-> w, closeCore |-> c,
               signal |-> sig, timed |-> t] :
                  as \in {"buffer", "stream"}, p, w, c, sig, t \in BOOLEAN}
=============================================================================
