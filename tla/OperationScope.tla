--------------------------- MODULE OperationScope ---------------------------
(***************************************************************************)
(* Operation scopes (src/operation.js): the timeout and abort control that *)
(* every read, fetch and materialization wraps around each thing it awaits.*)
(*                                                                         *)
(* A scope fixes its deadline when it is created.  waitFor races a piece   *)
(* of work that is ALREADY RUNNING (JavaScript evaluates the argument      *)
(* first) against a timer set to what is left of the deadline and a        *)
(* listener on the AbortSignal.  Nested operations - a materialization     *)
(* that fetches, a fetch that reads - create scopes of their own over the  *)
(* same signal, so several scopes are live at once.                        *)
(***************************************************************************)
EXTENDS Integers

CONSTANTS Scopes,     \* the operation scopes
          Calls,      \* the calls to waitFor
          ScopeOf,    \* the scope each call is made on
          Signalled,  \* the scopes whose options carry the signal
          Timeouts,   \* the values of options.timeoutMs to choose from
          None,       \* undefined: no timeoutMs, no timer
          MaxTime     \* bound on the clock

ASSUME ScopeAssumption == /\ ScopeOf \in [Calls -> Scopes]
                          /\ Signalled \subseteq Scopes
ASSUME TimeAssumption == /\ Timeouts \subseteq (Nat \ {0}) \cup {None}
                         /\ None \notin Int
                         /\ MaxTime \in Nat

VARIABLES now,        \* Date.now()
          aborted,    \* signal.aborted
          created,    \* the scopes that exist
          deadline,   \* deadline of each scope, None without a timeoutMs
          call,       \* how each waitFor stands
          work,       \* the promise handed to each waitFor
          timer,      \* when each armed timer is due, None if not armed
          listening,  \* the calls with a listener on the signal
          destroyed   \* the calls whose onAbort or onTimeout callback has run

vars == <<now, aborted, created, deadline, call, work, timer, listening, destroyed>>

Outcome == {"resolved", "failed", "aborted", "timedout", "refused"}

\* Mutant: cleanup() forgets clearTimeout.
CleanupKeepsTimer(S) == timer' = timer /\ listening' = listening \ S

\* cleanup() of a set of calls: their timers and their listeners are gone.
Cleanup(S) == /\ timer' = [c \in Calls |-> IF c \in S THEN None ELSE timer[c]]
              /\ listening' = listening \ S

Init == /\ now = 0
        /\ aborted = FALSE
        /\ created = {}
        /\ deadline = [s \in Scopes |-> None]
        /\ call = [c \in Calls |-> "idle"]
        /\ work = [c \in Calls |-> "none"]
        /\ timer = [c \in Calls |-> None]
        /\ listening = {}
        /\ destroyed = {}

\* Mutant: the timeout is taken from the clock instead of added to it.
CreateScopeInThePast(s) ==
    /\ s \notin created
    /\ \E t \in Timeouts :
          deadline' = [deadline EXCEPT ![s] = IF t = None THEN None ELSE now - t]
    /\ created' = created \cup {s}
    /\ UNCHANGED <<now, aborted, call, work, timer, listening, destroyed>>

CreateScope(s) ==
    /\ s \notin created
    /\ \E t \in Timeouts :
          /\ t # None => now + t <= MaxTime
          /\ deadline' = [deadline EXCEPT ![s] = IF t = None THEN None ELSE now + t]
    /\ created' = created \cup {s}
    /\ UNCHANGED <<now, aborted, call, work, timer, listening, destroyed>>

HasSignal(c) == ScopeOf[c] \in Signalled
Expired(c) == deadline[ScopeOf[c]] # None /\ now >= deadline[ScopeOf[c]]
\* Mutant: getRemainingMs no longer throws once the deadline has passed.
TurnedAwayOnlyByAbort(c) == HasSignal(c) /\ aborted

TurnedAway(c) == (HasSignal(c) /\ aborted) \/ Expired(c)

\* throwIfAborted or getRemainingMs throws: the work runs on, unwatched.
RefuseCall(c) ==
    /\ call[c] = "idle" /\ ScopeOf[c] \in created
    /\ TurnedAway(c)
    /\ call' = [call EXCEPT ![c] = "refused"]
    /\ work' = [work EXCEPT ![c] = "running"]
    /\ UNCHANGED <<now, aborted, created, deadline, timer, listening, destroyed>>

WaitFor(c) ==
    /\ call[c] = "idle" /\ ScopeOf[c] \in created
    /\ ~TurnedAway(c)
    /\ call' = [call EXCEPT ![c] = "waiting"]
    /\ work' = [work EXCEPT ![c] = "running"]
    /\ timer' = [timer EXCEPT ![c] = deadline[ScopeOf[c]]]
    /\ listening' = IF HasSignal(c) THEN listening \cup {c} ELSE listening
    /\ UNCHANGED <<now, aborted, created, deadline, destroyed>>

\* The awaited promise settles; its reactions run in a later microtask.
FinishWork(c) ==
    /\ work[c] = "running"
    /\ \E r \in {"fulfilled", "rejected"} : work' = [work EXCEPT ![c] = r]
    /\ UNCHANGED <<now, aborted, created, deadline, call, timer, listening, destroyed>>

\* Mutant: the `if (settled) return` guard is missing.
SettleAgain(c) ==
    /\ work[c] \in {"fulfilled", "rejected"}
    /\ call[c] \in {"waiting", "timedout", "aborted"}
    /\ call' = [call EXCEPT ![c] = IF work[c] = "fulfilled" THEN "resolved" ELSE "failed"]
    /\ Cleanup({c})
    /\ UNCHANGED <<now, aborted, created, deadline, work, destroyed>>

\* settleResolve / settleReject; when already settled they return at once.
SettleFromWork(c) ==
    /\ work[c] \in {"fulfilled", "rejected"}
    /\ call[c] = "waiting"
    /\ call' = [call EXCEPT ![c] = IF work[c] = "fulfilled" THEN "resolved" ELSE "failed"]
    /\ Cleanup({c})
    /\ UNCHANGED <<now, aborted, created, deadline, work, destroyed>>

\* Mutant: the timer destroys the source and relies on that to end the call.
FireTimerWithoutReject(c) ==
    /\ timer[c] # None /\ now >= timer[c]
    /\ destroyed' = destroyed \cup {c}
    /\ Cleanup({c})
    /\ UNCHANGED <<now, aborted, created, deadline, call, work>>

\* The timer callback runs onTimeout first and only then tries to settle.
FireTimer(c) ==
    /\ timer[c] # None /\ now >= timer[c]
    /\ destroyed' = destroyed \cup {c}
    /\ call' = [call EXCEPT ![c] = IF @ = "waiting" THEN "timedout" ELSE @]
    /\ Cleanup({c})
    /\ UNCHANGED <<now, aborted, created, deadline, work>>

\* controller.abort(): every listener runs synchronously, onAbort first.
Abort ==
    /\ ~aborted
    /\ aborted' = TRUE
    /\ destroyed' = destroyed \cup listening
    /\ call' = [c \in Calls |-> IF c \in listening /\ call[c] = "waiting"
                                THEN "aborted" ELSE call[c]]
    /\ Cleanup(listening)
    /\ UNCHANGED <<now, created, deadline, work>>

\* Time passes, but not past a timer that is due: the event loop is idle.
Tick == /\ now < MaxTime
        /\ \A c \in Calls : timer[c] # None => timer[c] > now
        /\ now' = now + 1
        /\ UNCHANGED <<aborted, created, deadline, call, work, timer, listening, destroyed>>

Next == \/ Tick \/ Abort
        \/ \E s \in Scopes : CreateScope(s)
        \/ \E c \in Calls : \/ WaitFor(c) \/ RefuseCall(c) \/ FinishWork(c)
                            \/ SettleFromWork(c) \/ FireTimer(c)

Spec == Init /\ [][Next]_vars

(***************************************************************************)
(* The event loop runs: time passes, due timers fire and the reactions of  *)
(* a settled promise are delivered.  Nothing makes the awaited work finish *)
(* and nothing makes a caller create a scope, make a call or abort.        *)
(***************************************************************************)
EventLoop == /\ WF_vars(Tick)
             /\ \A c \in Calls : WF_vars(SettleFromWork(c)) /\ WF_vars(FireTimer(c))

FairSpec == Spec /\ EventLoop
-----------------------------------------------------------------------------
TypeOK == /\ now \in 0..MaxTime
          /\ aborted \in BOOLEAN
          /\ created \subseteq Scopes
          /\ deadline \in [Scopes -> Nat \cup {None}]
          /\ call \in [Calls -> {"idle", "waiting"} \cup Outcome]
          /\ work \in [Calls -> {"none", "running", "fulfilled", "rejected"}]
          /\ timer \in [Calls -> Nat \cup {None}]
          /\ listening \subseteq Calls
          /\ destroyed \subseteq Calls

\* Timers and signal listeners exist exactly for the calls still waiting, so
\* neither leaks once a call has settled, in whatever way it settled.
ArmedWhileWaiting ==
    \A c \in Calls :
        /\ timer[c] = IF call[c] = "waiting" THEN deadline[ScopeOf[c]] ELSE None
        /\ (c \in listening) = (call[c] = "waiting" /\ HasSignal(c))

\* The source behind a call is destroyed exactly when that call was
\* interrupted: a late timer or abort never kills what a caller still uses.
DestroyedOnlyWhenInterrupted ==
    \A c \in Calls : (c \in destroyed) = (call[c] \in {"aborted", "timedout"})

\* Once the signal has fired nothing that listens to it is still pending.
NoneWaitsAfterAbort ==
    aborted => \A c \in Calls : HasSignal(c) => call[c] # "waiting"

\* No call waits past the deadline of its scope, however late it was made.
DeadlineKept ==
    \A c \in Calls : call[c] = "waiting" /\ deadline[ScopeOf[c]] # None
                        => now <= deadline[ScopeOf[c]]

\* A call with a deadline ends by then, whatever its work does; without one
\* it ends if its work settles.
EveryBoundedCallEnds ==
    \A c \in Calls :
        /\ (call[c] = "waiting" /\ deadline[ScopeOf[c]] # None) ~> (call[c] \in Outcome)
        /\ (call[c] = "waiting" /\ work[c] # "running") ~> (call[c] \in Outcome)

\* Every call settles once, an abort settles all its listeners in one step
\* and nothing listening succeeds after it: the promise of SettleOnce.
Promise == INSTANCE SettleOnce
             WITH outcome <- call,
                  Unbound <- {c \in Calls : ScopeOf[c] \notin Signalled}

ImplementsSettleOnce == Promise!Spec
=============================================================================
