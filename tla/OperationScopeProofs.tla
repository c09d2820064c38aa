------------------------ MODULE OperationScopeProofs ------------------------
(***************************************************************************)
(* Theorems about OperationScope, for any number of scopes and calls and   *)
(* any timeouts.  The inductive invariant IInv adds one fact to what the   *)
(* runs check: a call is only ever made on a scope that exists, so the     *)
(* deadline its timer was set from cannot change under it.                 *)
(***************************************************************************)
EXTENDS OperationScope, TLAPS

CallsHaveScopes == \A c \in Calls : call[c] # "idle" => ScopeOf[c] \in created

IInv == /\ TypeOK
        /\ CallsHaveScopes
        /\ ArmedWhileWaiting
        /\ DestroyedOnlyWhenInterrupted
        /\ NoneWaitsAfterAbort
        /\ DeadlineKept

LEMMA InitEstablishesIInv == Init => IInv
  <1> SUFFICES ASSUME Init PROVE IInv
    OBVIOUS
  <1> USE ScopeAssumption, TimeAssumption DEF Init
  <1>1. TypeOK
    <2>0. aborted \in BOOLEAN
      BY Zenon
    <2>1. now \in 0..MaxTime
      OBVIOUS
    <2>2. /\ call \in [Calls -> {"idle", "waiting"} \cup Outcome]
          /\ work \in [Calls -> {"none", "running", "fulfilled", "rejected"}]
      OBVIOUS
    <2>3. /\ deadline \in [Scopes -> Nat \cup {None}]
          /\ timer \in [Calls -> Nat \cup {None}]
      OBVIOUS
    <2>4. created \subseteq Scopes /\ listening \subseteq Calls /\ destroyed \subseteq Calls
      OBVIOUS
    <2> QED BY <2>0, <2>1, <2>2, <2>3, <2>4 DEF TypeOK
  <1>2. CallsHaveScopes /\ ArmedWhileWaiting
    BY DEF CallsHaveScopes, ArmedWhileWaiting
  <1>3. DestroyedOnlyWhenInterrupted /\ NoneWaitsAfterAbort /\ DeadlineKept
    BY DEF DestroyedOnlyWhenInterrupted, NoneWaitsAfterAbort, DeadlineKept
  <1> QED BY <1>1, <1>2, <1>3 DEF IInv

\* Type correctness of every step; it needs no other part of IInv.
LEMMA NextKeepsTypes == TypeOK /\ [Next]_vars => TypeOK'
  <1> SUFFICES ASSUME TypeOK, [Next]_vars PROVE TypeOK'
    OBVIOUS
  <1> USE ScopeAssumption, TimeAssumption DEF TypeOK
  <1>1. CASE Tick
    <2>1. now' \in 0..MaxTime
      BY <1>1 DEF Tick
    <2> QED BY <1>1, <2>1 DEF Tick
  <1>2. CASE Abort
    BY <1>2 DEF Abort, Cleanup, Outcome
  <1>3. ASSUME NEW s \in Scopes, CreateScope(s) PROVE TypeOK'
    <2>1. PICK t \in Timeouts :
             deadline' = [deadline EXCEPT ![s] = IF t = None THEN None ELSE now + t]
      BY <1>3 DEF CreateScope
    <2>2. deadline' \in [Scopes -> Nat \cup {None}]
      BY <2>1
    <2> QED BY <1>3, <2>2 DEF CreateScope
  <1>4. ASSUME NEW c \in Calls, WaitFor(c) PROVE TypeOK'
    BY <1>4 DEF WaitFor
  <1>5. ASSUME NEW c \in Calls, RefuseCall(c) PROVE TypeOK'
    BY <1>5 DEF RefuseCall, Outcome
  <1>6. ASSUME NEW c \in Calls, FinishWork(c) PROVE TypeOK'
    BY <1>6 DEF FinishWork
  <1>7. ASSUME NEW c \in Calls, SettleFromWork(c) PROVE TypeOK'
    BY <1>7 DEF SettleFromWork, Cleanup, Outcome
  <1>8. ASSUME NEW c \in Calls, FireTimer(c) PROVE TypeOK'
    BY <1>8 DEF FireTimer, Cleanup, Outcome
  <1>9. CASE UNCHANGED vars
    BY <1>9 DEF vars
  <1> QED BY <1>1, <1>2, <1>3, <1>4, <1>5, <1>6, <1>7, <1>8, <1>9 DEF Next

-----------------------------------------------------------------------------
(* One lemma per kind of step that arms, disarms or interrupts.            *)

LEMMA TickKeepsIInv == ASSUME IInv, TypeOK', Tick PROVE IInv'
  <1> USE DEF IInv, TypeOK, Tick
  <1>1. CallsHaveScopes' /\ ArmedWhileWaiting'
    BY DEF CallsHaveScopes, ArmedWhileWaiting, HasSignal
  <1>2. DestroyedOnlyWhenInterrupted' /\ NoneWaitsAfterAbort'
    BY DEF DestroyedOnlyWhenInterrupted, NoneWaitsAfterAbort, HasSignal
  <1>3. DeadlineKept'
    BY ScopeAssumption, TimeAssumption DEF DeadlineKept, ArmedWhileWaiting
  <1> QED BY <1>1, <1>2, <1>3

LEMMA AbortKeepsIInv == ASSUME IInv, TypeOK', Abort PROVE IInv'
  <1> USE DEF IInv, TypeOK, Abort, Cleanup
  <1>1. CallsHaveScopes'
    BY DEF CallsHaveScopes
  <1>2. ArmedWhileWaiting'
    BY DEF ArmedWhileWaiting, HasSignal
  <1>3. DestroyedOnlyWhenInterrupted'
    BY DEF DestroyedOnlyWhenInterrupted, ArmedWhileWaiting
  <1>4. NoneWaitsAfterAbort'
    BY DEF NoneWaitsAfterAbort, ArmedWhileWaiting, HasSignal
  <1>5. DeadlineKept'
    BY DEF DeadlineKept
  <1> QED BY <1>1, <1>2, <1>3, <1>4, <1>5

LEMMA CreateScopeKeepsIInv ==
  ASSUME IInv, TypeOK', NEW s \in Scopes, CreateScope(s) PROVE IInv'
  <1>1. /\ \A r \in Scopes : r # s => deadline'[r] = deadline[r]
        /\ created' = created \cup {s} /\ s \notin created
        /\ UNCHANGED <<now, aborted, call, work, timer, listening, destroyed>>
    BY DEF CreateScope, IInv, TypeOK
  <1>2. \A c \in Calls : call[c] = "waiting" => deadline'[ScopeOf[c]] = deadline[ScopeOf[c]]
    BY <1>1, ScopeAssumption DEF IInv, CallsHaveScopes
  <1>3. CallsHaveScopes'
    BY <1>1 DEF IInv, CallsHaveScopes
  <1>4. ArmedWhileWaiting'
    BY <1>1, <1>2 DEF IInv, ArmedWhileWaiting, HasSignal
  <1>5. DestroyedOnlyWhenInterrupted' /\ NoneWaitsAfterAbort'
    BY <1>1 DEF IInv, DestroyedOnlyWhenInterrupted, NoneWaitsAfterAbort, HasSignal
  <1>6. DeadlineKept'
    BY <1>1, <1>2 DEF IInv, DeadlineKept
  <1> QED BY <1>3, <1>4, <1>5, <1>6 DEF IInv

LEMMA WaitForKeepsIInv ==
  ASSUME IInv, TypeOK', NEW d \in Calls, WaitFor(d) PROVE IInv'
  <1> USE ScopeAssumption, TimeAssumption DEF IInv, TypeOK, WaitFor
  <1>1. CallsHaveScopes'
    BY DEF CallsHaveScopes
  <1>2. ArmedWhileWaiting'
    BY DEF ArmedWhileWaiting, HasSignal
  <1>3. DestroyedOnlyWhenInterrupted'
    BY DEF DestroyedOnlyWhenInterrupted
  <1>4. NoneWaitsAfterAbort'
    BY DEF NoneWaitsAfterAbort, TurnedAway, HasSignal
  <1>5. DeadlineKept'
    BY DEF DeadlineKept, TurnedAway, Expired
  <1> QED BY <1>1, <1>2, <1>3, <1>4, <1>5

LEMMA RefuseCallKeepsIInv ==
  ASSUME IInv, TypeOK', NEW d \in Calls, RefuseCall(d) PROVE IInv'
  <1> USE DEF IInv, TypeOK, RefuseCall
  <1>1. CallsHaveScopes' /\ ArmedWhileWaiting'
    BY DEF CallsHaveScopes, ArmedWhileWaiting, HasSignal
  <1>2. DestroyedOnlyWhenInterrupted' /\ NoneWaitsAfterAbort' /\ DeadlineKept'
    BY DEF DestroyedOnlyWhenInterrupted, NoneWaitsAfterAbort, DeadlineKept, HasSignal
  <1> QED BY <1>1, <1>2

LEMMA SettleFromWorkKeepsIInv ==
  ASSUME IInv, TypeOK', NEW d \in Calls, SettleFromWork(d) PROVE IInv'
  <1> USE DEF IInv, TypeOK, SettleFromWork, Cleanup
  <1>1. CallsHaveScopes'
    BY DEF CallsHaveScopes
  <1>2. ArmedWhileWaiting'
    BY DEF ArmedWhileWaiting, HasSignal
  <1>3. DestroyedOnlyWhenInterrupted' /\ NoneWaitsAfterAbort' /\ DeadlineKept'
    BY DEF DestroyedOnlyWhenInterrupted, NoneWaitsAfterAbort, DeadlineKept, HasSignal
  <1> QED BY <1>1, <1>2, <1>3

LEMMA FireTimerKeepsIInv ==
  ASSUME IInv, TypeOK', NEW d \in Calls, FireTimer(d) PROVE IInv'
  <1>1. call[d] = "waiting"
    BY DEF IInv, ArmedWhileWaiting, FireTimer
  <1> USE <1>1 DEF IInv, TypeOK, FireTimer, Cleanup
  <1>2. CallsHaveScopes'
    BY DEF CallsHaveScopes
  <1>3. ArmedWhileWaiting'
    BY DEF ArmedWhileWaiting, HasSignal
  <1>4. DestroyedOnlyWhenInterrupted' /\ NoneWaitsAfterAbort' /\ DeadlineKept'
    BY DEF DestroyedOnlyWhenInterrupted, NoneWaitsAfterAbort, DeadlineKept, HasSignal
  <1> QED BY <1>2, <1>3, <1>4

LEMMA QuietStepKeepsIInv ==
  ASSUME IInv, UNCHANGED <<now, aborted, created, deadline, call, timer, listening, destroyed>>,
         TypeOK'
  PROVE  IInv'
  BY DEF IInv, CallsHaveScopes, ArmedWhileWaiting, DestroyedOnlyWhenInterrupted,
         NoneWaitsAfterAbort, DeadlineKept, HasSignal

LEMMA NextKeepsIInv == IInv /\ [Next]_vars => IInv'
  <1> SUFFICES ASSUME IInv, [Next]_vars PROVE IInv'
    OBVIOUS
  <1>0. TypeOK'
    BY NextKeepsTypes DEF IInv
  <1>1. CASE Tick
    BY <1>0, <1>1, TickKeepsIInv
  <1>2. CASE Abort
    BY <1>0, <1>2, AbortKeepsIInv
  <1>3. CASE \E s \in Scopes : CreateScope(s)
    BY <1>0, <1>3, CreateScopeKeepsIInv
  <1>4. CASE \E c \in Calls : WaitFor(c)
    BY <1>0, <1>4, WaitForKeepsIInv
  <1>5. CASE \E c \in Calls : RefuseCall(c)
    BY <1>0, <1>5, RefuseCallKeepsIInv
  <1>6. CASE \E c \in Calls : FinishWork(c)
    BY <1>0, <1>6, QuietStepKeepsIInv DEF FinishWork
  <1>7. CASE \E c \in Calls : SettleFromWork(c)
    BY <1>0, <1>7, SettleFromWorkKeepsIInv
  <1>8. CASE \E c \in Calls : FireTimer(c)
    BY <1>0, <1>8, FireTimerKeepsIInv
  <1>9. CASE UNCHANGED vars
    BY <1>0, <1>9, QuietStepKeepsIInv DEF vars
  <1> QED BY <1>1, <1>2, <1>3, <1>4, <1>5, <1>6, <1>7, <1>8, <1>9 DEF Next

-----------------------------------------------------------------------------
\* Every variable of a scope keeps its type (waitFor, src/operation.js).
THEOREM TypeCorrect == Spec => []TypeOK
  <1>1. Init => TypeOK
    BY InitEstablishesIInv DEF IInv
  <1> QED BY <1>1, NextKeepsTypes, PTL DEF Spec

THEOREM IInvHolds == Spec => []IInv
  BY InitEstablishesIInv, NextKeepsIInv, PTL DEF Spec

\* No timer and no abort listener outlives the call it was armed for, however
\* the call ended (cleanup in waitFor).
THEOREM NothingLeaks == Spec => []ArmedWhileWaiting
  <1>1. IInv => ArmedWhileWaiting
    BY DEF IInv
  <1> QED BY <1>1, IInvHolds, PTL

\* The onAbort and onTimeout callbacks destroy a source only for a call that
\* ended by that interrupt, although they run before the settled check.
THEOREM OnlyInterruptsDestroy == Spec => []DestroyedOnlyWhenInterrupted
  <1>1. IInv => DestroyedOnlyWhenInterrupted
    BY DEF IInv
  <1> QED BY <1>1, IInvHolds, PTL

\* With timers served on time no call waits beyond its scope's deadline,
\* however many calls the scope has made before (getRemainingMs).
THEOREM DeadlinesAreKept == Spec => []DeadlineKept
  <1>1. IInv => DeadlineKept
    BY DEF IInv
  <1> QED BY <1>1, IInvHolds, PTL

\* Operation scopes implement SettleOnce: calls settle once, an abort ends all
\* its listeners in one step, nothing bound to the signal succeeds after it.
THEOREM Implementation == Spec => ImplementsSettleOnce
  <1> DEFINE Unbnd == {c \in Calls : ScopeOf[c] \notin Signalled}
  <1>1. Init => Promise!Init
    BY DEF Init, Promise!Init
  <1>2. IInv /\ [Next]_vars => [Promise!Next]_(Promise!vars)
    <2> SUFFICES ASSUME IInv, [Next]_vars
                 PROVE  Promise!Next \/ UNCHANGED Promise!vars
      OBVIOUS
    <2> USE DEF IInv, TypeOK
    <2>1. CASE Abort
      <3>1. listening = {c \in Calls \ Unbnd : call[c] = "waiting"}
        BY DEF ArmedWhileWaiting, HasSignal
      <3>2. Promise!Abort
        BY <2>1, <3>1 DEF Abort, Promise!Abort, Promise!Pending
      <3> QED BY <3>2 DEF Promise!Next
    <2>2. ASSUME NEW c \in Calls, WaitFor(c) PROVE Promise!Admit(c)
      BY <2>2 DEF WaitFor, TurnedAway, HasSignal, Promise!Admit
    <2>3. ASSUME NEW c \in Calls, RefuseCall(c) PROVE Promise!Refuse(c)
      BY <2>3 DEF RefuseCall, Promise!Refuse
    <2>4. ASSUME NEW c \in Calls, SettleFromWork(c) PROVE Promise!Answer(c)
      BY <2>4 DEF SettleFromWork, Promise!Answer, Promise!Answers, Promise!Pending
    <2>5. ASSUME NEW c \in Calls, FireTimer(c) PROVE Promise!TimeOut(c)
      <3>1. call[c] = "waiting"
        BY <2>5 DEF FireTimer, ArmedWhileWaiting
      <3> QED BY <2>5, <3>1 DEF FireTimer, Promise!TimeOut, Promise!Pending
    <2>6. CASE Tick \/ (\E s \in Scopes : CreateScope(s))
               \/ (\E c \in Calls : FinishWork(c)) \/ UNCHANGED vars
      BY <2>6 DEF Tick, CreateScope, FinishWork, vars, Promise!vars
    <2> QED BY <2>1, <2>2, <2>3, <2>4, <2>5, <2>6 DEF Next, Promise!Next
  <1> QED BY <1>1, <1>2, IInvHolds, PTL DEF Spec, ImplementsSettleOnce, Promise!Spec
=============================================================================
