----------------------------- MODULE FetchObject -----------------------------
(***************************************************************************)
(* fetchImmutableObject (src/transport/hyperswarm/index.js): opening a     *)
(* core, attaching it to a transport of its own or to a shared one,        *)
(* finding peers, updating, and reading the object; what it holds on the   *)
(* way and what it releases when a step fails or is interrupted.           *)
(*                                                                         *)
(* Every await up to the read is OperationScope's waitFor over one scope;  *)
(* the work behind it (opening the core, attachCore) runs on when the call *)
(* is interrupted.  The read is ObjectRead under a scope it makes anew:    *)
(* its descriptor and its payload are awaited through that scope, its two  *)
(* assessments and closing the core are not.                               *)
(***************************************************************************)
EXTENDS Integers

CONSTANTS Fetches,   \* the calls to fetchImmutableObject
          Options,   \* the option records they may be made with
          None,      \* undefined, no deadline, no error
          MaxTime    \* bound on the clock

ASSUME FetchTimeAssumption == MaxTime \in Nat /\ None \notin Int

ASSUME FetchOptionsAssumption ==
    Options \subseteq [as : {"buffer", "stream"}, own : BOOLEAN, signal : BOOLEAN,
                       timeout : Nat \cup {None}, waitForConnections : BOOLEAN]

VARIABLES now,        \* Date.now()
          aborted,    \* the signal, shared by the calls, has fired
          pc,         \* where each call stands
          opts,       \* its options
          started,    \* when it was made
          deadline,   \* the deadline of the scope it waits on now
          error,      \* what it rejected with
          core,       \* its core, as opened in the background
          attach,     \* its attachCore, likewise
          finding,    \* the core's findingPeers is not done
          transport   \* its transport

held == <<core, attach, finding, transport>>
fvars == <<now, aborted, pc, opts, started, deadline, error, held>>

Searching == {"attaching", "flushing"}         \* the first try
Scoped == {"reading", "collecting"}            \* the read, through its scope
Unscoped == {"assessing", "finishing"}         \* and past it
Guarded == {"updating", "closing"} \cup Scoped \cup Unscoped  \* the second try
Waits == {"opening", "updating"} \cup Searching \cup Scoped
Returned == {"done", "failed"}

FInit == /\ now = 0 /\ aborted = FALSE
         /\ pc = [f \in Fetches |-> "idle"]
         /\ opts = [f \in Fetches |-> None]
         /\ started = [f \in Fetches |-> None]
         /\ deadline = [f \in Fetches |-> None]
         /\ error = [f \in Fetches |-> None]
         /\ core = [f \in Fetches |-> "none"]
         /\ attach = [f \in Fetches |-> "none"]
         /\ finding = [f \in Fetches |-> FALSE]
         /\ transport = [f \in Fetches |-> "none"]

Goto(f, label) == pc' = [pc EXCEPT ![f] = label] /\ UNCHANGED error

\* An await rejects.  The second try has a catch that cleans up; before it
\* the call just rejects, after the finally of the search.
Fail(f, code) ==
    /\ error' = [error EXCEPT ![f] = code]
    /\ pc' = [pc EXCEPT ![f] = IF @ \in Guarded THEN "cleaning" ELSE "failed"]
    /\ finding' = [finding EXCEPT ![f] = FALSE]

\* Mutant: the timeout is taken from the clock instead of added to it.
DeadlineBefore(t) == IF t = None THEN None ELSE now - t

DeadlineIn(t) == IF t = None THEN None ELSE now + t

Signalled(f) == aborted /\ opts[f].signal
Due(f) == pc[f] \in Waits /\ deadline[f] # None /\ now >= deadline[f]
TurnedAway(f) == Signalled(f) \/ (deadline[f] # None /\ now >= deadline[f])
Code(f) == IF Signalled(f) THEN "aborted" ELSE "timedout"

\* The transport and the core are created, core.ready() is called.
Fetch(f) ==
    /\ pc[f] = "idle"
    /\ \E o \in Options :
          /\ o.timeout # None => now + 2 * o.timeout <= MaxTime
          /\ opts' = [opts EXCEPT ![f] = o]
          /\ deadline' = [deadline EXCEPT ![f] = DeadlineIn(o.timeout)]
          /\ transport' = [transport EXCEPT ![f] = IF o.own THEN "open" ELSE "shared"]
          /\ IF o.signal /\ aborted
             THEN /\ pc' = [pc EXCEPT ![f] = "failed"]
                  /\ error' = [error EXCEPT ![f] = "aborted"]
             ELSE Goto(f, "opening")
    /\ started' = [started EXCEPT ![f] = now]
    /\ core' = [core EXCEPT ![f] = "opening"]
    /\ UNCHANGED <<now, aborted, attach, finding>>

\* core.ready() and attachCore settle, the call waiting or not.
CoreSettles(f) == /\ core[f] = "opening"
                  /\ \E s \in {"open", "broken"} : core' = [core EXCEPT ![f] = s]
                  /\ UNCHANGED <<now, aborted, pc, opts, started, deadline, error,
                                 attach, finding, transport>>

AttachSettles(f) == /\ attach[f] = "attaching"
                    /\ \E s \in {"attached", "broken"} : attach' = [attach EXCEPT ![f] = s]
                    /\ UNCHANGED <<now, aborted, pc, opts, started, deadline, error,
                                   core, finding, transport>>

\* The core is open: it is finding peers, and is attached to the transport.
Opened(f) ==
    /\ pc[f] = "opening" /\ core[f] \in {"open", "broken"}
    /\ IF core[f] = "broken" THEN Fail(f, "other") /\ UNCHANGED attach
       ELSE /\ attach' = [attach EXCEPT ![f] = "attaching"]
            /\ IF TurnedAway(f) THEN Fail(f, Code(f))
               ELSE Goto(f, "attaching") /\ finding' = [finding EXCEPT ![f] = TRUE]
    /\ UNCHANGED <<now, aborted, opts, started, deadline, core, transport>>

\* The search is over: doneFindingPeers(), then the update is awaited, where
\* being turned away is caught by the second try.
Update(f) ==
    /\ finding' = [finding EXCEPT ![f] = FALSE]
    /\ IF TurnedAway(f) THEN /\ pc' = [pc EXCEPT ![f] = "cleaning"]
                             /\ error' = [error EXCEPT ![f] = Code(f)]
       ELSE Goto(f, "updating")

Attached(f) ==
    /\ pc[f] = "attaching" /\ attach[f] \in {"attached", "broken"}
    /\ IF attach[f] = "broken" THEN Fail(f, "other")
       ELSE IF ~opts[f].waitForConnections THEN Update(f)
       ELSE IF TurnedAway(f) THEN Fail(f, Code(f))
       ELSE Goto(f, "flushing") /\ UNCHANGED finding
    /\ UNCHANGED <<now, aborted, opts, started, deadline, core, attach, transport>>

Flushed(f) == /\ pc[f] = "flushing"
              /\ Update(f) \/ Fail(f, "other")
              /\ UNCHANGED <<now, aborted, opts, started, deadline, core, attach, transport>>

\* Mutant: the read is not given the timeout.
UpdatedUntimed(f) ==
    /\ pc[f] = "updating"
    /\ Goto(f, "reading")
    /\ deadline' = [deadline EXCEPT ![f] = None]
    /\ UNCHANGED <<now, aborted, opts, started, finding, core, attach, transport>>

\* The update resolves and the read begins, with options.timeoutMs anew.
Updated(f) ==
    /\ pc[f] = "updating"
    /\ \/ /\ Goto(f, "reading")
          /\ deadline' = [deadline EXCEPT ![f] = DeadlineIn(opts[f].timeout)]
          /\ UNCHANGED finding
       \/ Fail(f, "other") /\ UNCHANGED deadline
    /\ UNCHANGED <<now, aborted, opts, started, core, attach, transport>>

\* An await of the second try resolves, or it rejects.
Passes(f, label) == \/ Goto(f, label) /\ UNCHANGED finding
                    \/ Fail(f, "other")

\* The descriptor is read, which a peer may have to deliver.
DescriptorRead(f) ==
    /\ pc[f] = "reading"
    /\ Passes(f, "assessing")
    /\ UNCHANGED <<now, aborted, opts, started, deadline, core, attach, transport>>

\* What is fetched is assessed, however long it takes.  Only then the scope is
\* asked again: a stream is bound to it and handed out, a buffer is collected.
Assessed(f) ==
    /\ pc[f] = "assessing"
    /\ IF TurnedAway(f) THEN Fail(f, Code(f)) \/ Fail(f, "other")
       ELSE Passes(f, IF opts[f].as = "stream" THEN "done" ELSE "collecting")
    /\ UNCHANGED <<now, aborted, opts, started, deadline, core, attach, transport>>

Collected(f) ==
    /\ pc[f] = "collecting"
    /\ Passes(f, "finishing")
    /\ UNCHANGED <<now, aborted, opts, started, deadline, core, attach, transport>>

\* The second assessment and closing the core, whatever the scope would say;
\* the core is closed also when the read rejects.
ReadEnds(f) ==
    /\ pc[f] = "finishing"
    /\ Passes(f, IF opts[f].own THEN "closing" ELSE "done")
    /\ core' = [core EXCEPT ![f] = "closed"]
    /\ UNCHANGED <<now, aborted, opts, started, deadline, attach, transport>>

\* close() of the call's own transport detaches the core.
CloseTransport(f) ==
    /\ transport' = [transport EXCEPT ![f] = IF @ = "open" THEN "closed" ELSE @]
    /\ attach' = [attach EXCEPT ![f] = IF opts[f].own THEN "detached" ELSE @]

TransportCloses(f) ==
    /\ pc[f] = "closing"
    /\ \/ CloseTransport(f) /\ Goto(f, "done") /\ UNCHANGED finding
       \/ Fail(f, "other") /\ UNCHANGED <<transport, attach>>
    /\ UNCHANGED <<now, aborted, opts, started, deadline, core>>

\* Mutant: the catch block leaves the transport to the consumer.
CleanCoreOnly(f) ==
    /\ pc[f] = "cleaning"
    /\ core' = [core EXCEPT ![f] = "closed"]
    /\ Goto(f, "failed")
    /\ UNCHANGED <<now, aborted, opts, started, deadline, attach, finding, transport>>

\* The catch block: both closes are attempted, then the error is rethrown.
Clean(f) ==
    /\ pc[f] = "cleaning"
    /\ core' = [core EXCEPT ![f] = "closed"]
    /\ CloseTransport(f)
    /\ Goto(f, "failed")
    /\ UNCHANGED <<now, aborted, opts, started, deadline, finding>>

\* A fetched stream ends or is destroyed; its handlers close the transport.
StreamCloses(f) ==
    /\ pc[f] = "done" /\ opts[f].as = "stream" /\ transport[f] = "open"
    /\ CloseTransport(f)
    /\ UNCHANGED <<now, aborted, pc, opts, started, deadline, error, core, finding>>

\* The timer of the await in progress.
Expire(f) ==
    /\ Due(f)
    /\ Fail(f, "timedout")
    /\ UNCHANGED <<now, aborted, opts, started, deadline, core, attach, transport>>

Hit(f) == pc[f] \in Waits /\ opts[f].signal

\* The signal ends the await of every call that listens.
Abort ==
    /\ ~aborted
    /\ aborted' = TRUE
    /\ error' = [f \in Fetches |-> IF Hit(f) THEN "aborted" ELSE error[f]]
    /\ pc' = [f \in Fetches |-> IF ~Hit(f) THEN pc[f]
                                ELSE IF pc[f] \in Guarded THEN "cleaning" ELSE "failed"]
    /\ finding' = [f \in Fetches |-> finding[f] /\ ~Hit(f)]
    /\ UNCHANGED <<now, opts, started, deadline, core, attach, transport>>

\* The clock stands while a timer is due or closing what is held goes on.
Tick == /\ now < MaxTime
        /\ \A f \in Fetches : ~Due(f) /\ pc[f] \notin {"closing", "cleaning"}
        /\ now' = now + 1
        /\ UNCHANGED <<aborted, pc, opts, started, deadline, error, held>>

Step(f) == Opened(f) \/ Attached(f) \/ Flushed(f) \/ Updated(f) \/ DescriptorRead(f)
           \/ Collected(f)
Local(f) == Assessed(f) \/ ReadEnds(f)
CleanUp(f) == TransportCloses(f) \/ Clean(f)

FNext == \/ Tick \/ Abort
         \/ \E f \in Fetches : \/ Fetch(f) \/ CoreSettles(f) \/ AttachSettles(f) \/ Step(f)
                               \/ Local(f) \/ Expire(f) \/ CleanUp(f) \/ StreamCloses(f)

FSpec == FInit /\ [][FNext]_fvars

\* Time passes, timers fire, and what no timer ends settles: the assessments
\* and the closes, all local.  No peer has to answer, and no await of a scope.
FFairSpec == /\ FSpec /\ WF_fvars(Tick)
             /\ \A f \in Fetches : /\ WF_fvars(Expire(f)) /\ WF_fvars(Local(f))
                                   /\ WF_fvars(CleanUp(f))
-----------------------------------------------------------------------------
FTypeOK ==
    /\ now \in 0..MaxTime /\ aborted \in BOOLEAN
    /\ pc \in [Fetches -> {"idle", "closing", "cleaning"} \cup Waits \cup Unscoped \cup Returned]
    /\ opts \in [Fetches -> Options \cup {None}]
    /\ started \in [Fetches -> Nat \cup {None}]
    /\ deadline \in [Fetches -> Nat \cup {None}]
    /\ core \in [Fetches -> {"none", "opening", "open", "broken", "closed"}]
    /\ attach \in [Fetches -> {"none", "attaching", "attached", "broken", "detached"}]
    /\ finding \in [Fetches -> BOOLEAN]
    /\ transport \in [Fetches -> {"none", "shared", "open", "closed"}]

\* A fetch that got as far as the update, and did not hand out a stream,
\* leaves nothing behind when it returns or rejects: its core is closed, a
\* transport of its own is closed, and no attachCore of it is under way; and
\* however a search ended, no reader of the core waits for its peers any more.
ReleasedAfterUpdate ==
    [][\A f \in Fetches :
        /\ pc[f] # "idle" /\ pc'[f] \in Returned => ~finding'[f]
        /\ pc[f] \in Guarded \cup {"cleaning"} /\ pc'[f] \in Returned =>
             \/ pc'[f] = "done" /\ opts[f].as = "stream"
             \/ /\ core'[f] = "closed"
                /\ opts[f].own => transport'[f] = "closed" /\ attach'[f] = "detached"]_fvars

\* docs/contracts.md: a fetch honors its timeout across discovery, update and
\* read.  So it awaits nothing through a scope once its timeout is over.
OneTimeout ==
    \A f \in Fetches :
        pc[f] \in Waits /\ opts[f].timeout # None => now <= started[f] + opts[f].timeout

\* What the code keeps of that: discovery and update share the one timeout, of
\* which each await has what is left; the read starts another, which its awaits
\* share in turn, however long the assessment between them took.
TimeoutsAreShared ==
    \A f \in Fetches :
        pc[f] \in Waits /\ opts[f].timeout # None =>
            now <= started[f] + (IF pc[f] \in Scoped THEN 2 ELSE 1) * opts[f].timeout

\* A fetch with a timeout returns though no peer answers and no await of its
\* scopes ever settles; its assessments and closes have to.
TimedFetchEnds ==
    \A f \in Fetches :
        pc[f] # "idle" /\ opts[f].timeout # None ~> pc[f] \in Returned

=============================================================================
