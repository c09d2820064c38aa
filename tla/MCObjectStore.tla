---------------------------- MODULE MCObjectStore ----------------------------
(***************************************************************************)
(* An instance of ObjectStore for TLC: three publications into two storage *)
(* targets, of an empty payload, one that exactly fills its last chunk and *)
(* one that does not, with right and wrong sizes and hints and a chunkSize *)
(* of 0.                                                                   *)
(***************************************************************************)
EXTENDS ObjectStore, TLC

CONSTANTS p1, p2, p3, s1, s2, a, b

MCPublishers == {p1, p2, p3}
MCStorages == {s1, s2}
MCPayloads == {<<>>, <<a, b>>, <<a, a, b>>}
MCSizes == {0, 2, 3}
MCHints == {NoHint, HintOf("sha256", <<a, a, b>>)}
MCChunkSizes == {0, 2}
MCSymmetry == Permutations(MCPublishers) \cup Permutations(MCStorages)
==============================================================================
