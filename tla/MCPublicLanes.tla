---------------------------- MODULE MCPublicLanes ----------------------------
(***************************************************************************)
(* An instance of PublicLanes for TLC: two runs and a down command, and    *)
(* two pids, of which the second run may be given the first one's.  The    *)
(* first run is the seeder of a bundle; the second is a pathway that       *)
(* publishes to, or fetches into, its storage, a seeder with a storage of  *)
(* its own but the same files, or a seeder command without its             *)
(* --public-hyperdht flag.                                                 *)
(***************************************************************************)
EXTENDS PublicLanes, TLC

CONSTANTS p1, p2, d1, o1, o2, s1, s2, s3

MCProcs == {p1, p2}
MCDowns == {d1}
MCPids == (p1 :> {1}) @@ (p2 :> {1, 2})
MCStorages == {s1, s2, s3}
MCInput == [object |-> o1, publisher |-> s1, consumer |-> s2, fails |-> {}, layer |-> TRUE, ref |-> TRUE]
MCBundle == [lane |-> "bundle", in |-> [MCInput EXCEPT !.object = o2, !.ref = FALSE]]
MCPathways == {[lane |-> "pathway", in |-> in] :
                  in \in {MCInput, [MCInput EXCEPT !.publisher = s3, !.consumer = s1]}}
MCSeeder == [lane |-> "seeder", in |-> [MCInput EXCEPT !.publisher = s3]]
MCBlocked == [lane |-> "bundle", in |-> [MCInput EXCEPT !.fails = {"public_hyperdht_flag_required"}]]
MCCommands == (p1 :> {MCBundle}) @@ (p2 :> {MCSeeder, MCBlocked} \cup MCPathways)
==============================================================================
