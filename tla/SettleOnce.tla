----------------------------- MODULE SettleOnce -----------------------------
(***************************************************************************)
(* What callers of an operation scope are promised: every awaited call     *)
(* ends at most once and in one way, an abort ends every call listening    *)
(* to the signal in the same instant and none can succeed afterwards, and  *)
(* only a call that was interrupted has its byte source destroyed.         *)
(*                                                                         *)
(* OperationScope is shown to implement this module.                       *)
(***************************************************************************)
CONSTANTS Calls,    \* the calls to waitFor
          Unbound   \* the calls of scopes that were given no abort signal

VARIABLES outcome,    \* how each call stands
          aborted,    \* the shared AbortSignal has fired
          destroyed   \* the calls whose interrupt callback has run

vars == <<outcome, aborted, destroyed>>

Answers == {"resolved", "failed"}
Interrupts == {"aborted", "timedout"}

Pending(c) == outcome[c] = "waiting"

Init == /\ outcome = [c \in Calls |-> "idle"]
        /\ aborted = FALSE
        /\ destroyed = {}

\* A call is admitted; once the signal has fired only unbound calls are.
Admit(c) == /\ outcome[c] = "idle"
            /\ aborted => c \in Unbound
            /\ outcome' = [outcome EXCEPT ![c] = "waiting"]
            /\ UNCHANGED <<aborted, destroyed>>

\* A call is turned away at the door; its work is never watched.
Refuse(c) == /\ outcome[c] = "idle"
             /\ outcome' = [outcome EXCEPT ![c] = "refused"]
             /\ UNCHANGED <<aborted, destroyed>>

Answer(c) == /\ Pending(c)
             /\ \E o \in Answers : outcome' = [outcome EXCEPT ![c] = o]
             /\ UNCHANGED <<aborted, destroyed>>

TimeOut(c) == /\ Pending(c)
              /\ outcome' = [outcome EXCEPT ![c] = "timedout"]
              /\ destroyed' = destroyed \cup {c}
              /\ UNCHANGED aborted

\* Every pending call that listens to the signal ends in this one step.
Abort == LET hit == {c \in Calls \ Unbound : Pending(c)} IN
         /\ ~aborted
         /\ aborted' = TRUE
         /\ outcome' = [c \in Calls |-> IF c \in hit THEN "aborted" ELSE outcome[c]]
         /\ destroyed' = destroyed \cup hit

Next == \/ Abort
        \/ \E c \in Calls : Admit(c) \/ Refuse(c) \/ Answer(c) \/ TimeOut(c)

Spec == Init /\ [][Next]_vars
=============================================================================
