------------------------------ MODULE WriteOnce ------------------------------
(***************************************************************************)
(* What readers of storage are promised, whoever publishes into it and     *)
(* whatever fails or crashes: each storage is a register that is written   *)
(* at most once, in one step, with a valid object.                         *)
(*                                                                         *)
(* ObjectStore is shown to implement this module.                          *)
(***************************************************************************)
CONSTANTS Storages,
          Objects,   \* the descriptors with bytes that are valid for them
          None       \* nothing was published

VARIABLE object      \* the object in each storage, as it reads back

Init == object = [s \in Storages |-> None]

Put(s, o) == /\ object[s] = None
             /\ object' = [object EXCEPT ![s] = o]

Next == \E s \in Storages, o \in Objects : Put(s, o)

Spec == Init /\ [][Next]_object
=============================================================================
