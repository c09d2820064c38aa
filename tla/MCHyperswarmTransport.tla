------------------------ MODULE MCHyperswarmTransport ------------------------
(***************************************************************************)
(* An instance of HyperswarmTransport for TLC: three overlapping calls on  *)
(* two cores, as server or as client, with one peer and a close().         *)
(***************************************************************************)
EXTENDS HyperswarmTransport

CONSTANTS k1, k2, k3, x, y, p

MCCalls == {k1, k2, k3}
MCCores == {x, y}
MCPeers == {p}
MCRoles == {[server |-> TRUE, client |-> FALSE], [server |-> FALSE, client |-> TRUE]}
==============================================================================
