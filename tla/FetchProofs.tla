----------------------------- MODULE FetchProofs -----------------------------
(***************************************************************************)
(* Theorems about FetchObject, for any number of fetches and any options.  *)
(* The inductive invariant FInv says of one fetch what the runs cannot see *)
(* from its result: until the read its deadline is the one it was made     *)
(* with, a read's is at most a timeout later, of which collecting has what *)
(* the assessment left, its core is finding peers only during the search,  *)
(* and it closes its own transport after its core.                         *)
(***************************************************************************)
EXTENDS FetchObject, TLAPS

Began(f) == pc[f] # "idle" => opts[f] \in Options /\ started[f] \in Nat

InTime(f) ==
    pc[f] \in Waits \cup {"assessing"} /\ opts[f].timeout # None =>
        /\ deadline[f] \in Nat
        /\ pc[f] # "assessing" => now <= deadline[f]
        /\ deadline[f] <= started[f] + 2 * opts[f].timeout
        /\ pc[f] \notin {"reading", "assessing", "collecting"} =>
              deadline[f] = started[f] + opts[f].timeout

FindsWhileSearching(f) == finding[f] => pc[f] \in Searching

OwnTransport(f) == pc[f] # "idle" /\ opts[f].own => transport[f] \in {"open", "closed"}

CoreFirst(f) == pc[f] = "closing" => core[f] = "closed" /\ opts[f].own

FetchOK(f) == Began(f) /\ InTime(f) /\ FindsWhileSearching(f) /\ OwnTransport(f) /\ CoreFirst(f)

FInv == FTypeOK /\ \A f \in Fetches : FetchOK(f)

\* The steps of one fetch.
Acts(f) == \/ Fetch(f) \/ CoreSettles(f) \/ AttachSettles(f) \/ Step(f)
           \/ Local(f) \/ Expire(f) \/ CleanUp(f) \/ StreamCloses(f)

Labels == {"idle", "closing", "cleaning"} \cup Waits \cup Unscoped \cup Returned

LEMMA LabelsAre ==
  /\ Labels = {"idle", "opening", "attaching", "flushing", "updating", "reading", "assessing",
               "collecting", "finishing", "closing", "cleaning", "done", "failed"}
  /\ Waits = {"opening", "attaching", "flushing", "updating", "reading", "collecting"}
  /\ Guarded = {"updating", "reading", "assessing", "collecting", "finishing", "closing"}
  BY DEF Labels, Waits, Searching, Scoped, Unscoped, Guarded, Returned

LEMMA InitEstablishesFInv == FInit => FInv
  <1> SUFFICES ASSUME FInit PROVE FInv
    OBVIOUS
  <1>0. aborted \in BOOLEAN
    BY Zenon DEF FInit
  <1>1. FTypeOK
    BY <1>0, FetchTimeAssumption DEF FInit, FTypeOK
  <1>2. \A f \in Fetches : FetchOK(f)
    BY DEF FInit, FetchOK, Began, InTime, FindsWhileSearching, OwnTransport, CoreFirst,
           Waits, Searching, Scoped
  <1> QED BY <1>1, <1>2 DEF FInv

-----------------------------------------------------------------------------
(* Type correctness, one step per action.                                  *)

LEMMA NextKeepsTypes == FInv /\ [FNext]_fvars => FTypeOK'
  <1> SUFFICES ASSUME FInv, [FNext]_fvars PROVE FTypeOK'
    OBVIOUS
  <1>0. FTypeOK /\ \A f \in Fetches : Began(f)
    BY DEF FInv, FetchOK
  <1> USE <1>0, FetchTimeAssumption, LabelsAre DEF FTypeOK, Labels, Returned, Goto, Fail
  <1>1. CASE Tick
    <2>1. now' \in 0..MaxTime
      BY <1>1 DEF Tick
    <2> QED BY <1>1, <2>1 DEF Tick, held
  <1>2. CASE Abort
    <2>1. /\ pc' \in [Fetches -> Labels] /\ finding' \in [Fetches -> BOOLEAN]
          /\ aborted' \in BOOLEAN
      BY <1>2 DEF Abort
    <2> QED BY <1>2, <2>1 DEF Abort
  <1>3. ASSUME NEW f \in Fetches, Fetch(f) PROVE FTypeOK'
    <2>1. PICK o \in Options :
             /\ o.timeout # None => now + 2 * o.timeout <= MaxTime
             /\ opts' = [opts EXCEPT ![f] = o]
             /\ deadline' = [deadline EXCEPT ![f] = DeadlineIn(o.timeout)]
             /\ transport' = [transport EXCEPT ![f] = IF o.own THEN "open" ELSE "shared"]
             /\ pc' \in {[pc EXCEPT ![f] = "failed"], [pc EXCEPT ![f] = "opening"]}
      BY <1>3 DEF Fetch
    <2>2. DeadlineIn(o.timeout) \in Nat \cup {None} /\ now \in Nat
      BY FetchOptionsAssumption DEF DeadlineIn
    <2>3. /\ opts' \in [Fetches -> Options \cup {None}]
          /\ deadline' \in [Fetches -> Nat \cup {None}]
          /\ transport' \in [Fetches -> {"none", "shared", "open", "closed"}]
          /\ pc' \in [Fetches -> Labels]
      BY <2>1, <2>2
    <2>4. /\ started' \in [Fetches -> Nat \cup {None}]
          /\ core' \in [Fetches -> {"none", "opening", "open", "broken", "closed"}]
          /\ UNCHANGED <<now, aborted, attach, finding>>
      BY <1>3, <2>2 DEF Fetch
    <2> QED BY <2>3, <2>4
  <1>4. ASSUME NEW f \in Fetches, CoreSettles(f) \/ AttachSettles(f) PROVE FTypeOK'
    BY <1>4 DEF CoreSettles, AttachSettles
  <1>5. ASSUME NEW f \in Fetches, Opened(f) PROVE FTypeOK'
    BY <1>5 DEF Opened
  <1>6. ASSUME NEW f \in Fetches, Attached(f) PROVE FTypeOK'
    BY <1>6 DEF Attached, Update
  <1>7. ASSUME NEW f \in Fetches, Flushed(f) PROVE FTypeOK'
    BY <1>7 DEF Flushed, Update
  <1>8. ASSUME NEW f \in Fetches, Updated(f) PROVE FTypeOK'
    <2>1. opts[f] \in Options
      BY <1>8 DEF Updated, Began
    <2>2. DeadlineIn(opts[f].timeout) \in Nat \cup {None}
      BY <2>1, FetchOptionsAssumption DEF DeadlineIn
    <2>3. deadline' \in [Fetches -> Nat \cup {None}]
      BY <1>8, <2>2 DEF Updated
    <2>4. pc' \in [Fetches -> Labels] /\ finding' \in [Fetches -> BOOLEAN]
      BY <1>8 DEF Updated
    <2> QED BY <1>8, <2>3, <2>4 DEF Updated
  <1>9. ASSUME NEW f \in Fetches, DescriptorRead(f) \/ Assessed(f) \/ Collected(f) \/ ReadEnds(f)
        PROVE  FTypeOK'
    BY <1>9 DEF DescriptorRead, Assessed, Collected, ReadEnds, Passes
  <1>10. ASSUME NEW f \in Fetches, TransportCloses(f) \/ Clean(f) PROVE FTypeOK'
    BY <1>10 DEF TransportCloses, Clean, CloseTransport
  <1>11. ASSUME NEW f \in Fetches, StreamCloses(f) PROVE FTypeOK'
    BY <1>11 DEF StreamCloses, CloseTransport
  <1>12. ASSUME NEW f \in Fetches, Expire(f) PROVE FTypeOK'
    BY <1>12 DEF Expire
  <1>13. CASE UNCHANGED fvars
    BY <1>13 DEF fvars, held
  <1> QED BY <1>1, <1>2, <1>3, <1>4, <1>5, <1>6, <1>7, <1>8, <1>9, <1>10, <1>11, <1>12, <1>13
          DEF FNext, Step, Local, CleanUp

-----------------------------------------------------------------------------
(* A step of one fetch leaves the others as they are.                      *)

LEMMA ActsFrame ==
  ASSUME FTypeOK, NEW g \in Fetches, Acts(g), NEW f \in Fetches, f # g
  PROVE  /\ now' = now
         /\ pc'[f] = pc[f] /\ opts'[f] = opts[f] /\ started'[f] = started[f]
         /\ deadline'[f] = deadline[f] /\ core'[f] = core[f]
         /\ finding'[f] = finding[f] /\ transport'[f] = transport[f]
  <1> USE DEF FTypeOK, Goto, Fail
  <1>1. CASE Fetch(g)
    <2>1. PICK o \in Options :
             /\ opts' = [opts EXCEPT ![g] = o]
             /\ deadline' = [deadline EXCEPT ![g] = DeadlineIn(o.timeout)]
             /\ transport' = [transport EXCEPT ![g] = IF o.own THEN "open" ELSE "shared"]
             /\ pc' \in {[pc EXCEPT ![g] = "failed"], [pc EXCEPT ![g] = "opening"]}
      BY <1>1 DEF Fetch
    <2> QED BY <1>1, <2>1 DEF Fetch
  <1>2. CASE CoreSettles(g) \/ AttachSettles(g)
    BY <1>2 DEF CoreSettles, AttachSettles
  <1>3. CASE Opened(g) \/ Attached(g) \/ Flushed(g)
    BY <1>3 DEF Opened, Attached, Flushed, Update
  <1>4. CASE Updated(g) \/ ReadEnds(g) \/ Expire(g)
    BY <1>4 DEF Updated, ReadEnds, Passes, Expire
  <1>6. CASE DescriptorRead(g) \/ Assessed(g) \/ Collected(g)
    BY <1>6 DEF DescriptorRead, Assessed, Collected, Passes
  <1>5. CASE TransportCloses(g) \/ Clean(g) \/ StreamCloses(g)
    BY <1>5 DEF TransportCloses, Clean, StreamCloses, CloseTransport
  <1> QED BY <1>1, <1>2, <1>3, <1>4, <1>5, <1>6 DEF Acts, Step, Local, CleanUp

\* What a step that rejects its await does to the fetch.
LEMMA FailOutcome ==
  ASSUME FTypeOK, NEW f \in Fetches, NEW code, Fail(f, code)
  PROVE  /\ ~finding'[f]
         /\ pc[f] \in Guarded => pc'[f] = "cleaning"
         /\ pc[f] \notin Guarded => pc'[f] = "failed"
         /\ pc'[f] \notin Waits \cup {"assessing", "closing", "idle"}
  BY LabelsAre DEF Fail, FTypeOK

LEMMA OptionsAre ==
  ASSUME NEW o \in Options
  PROVE  /\ o.own \in BOOLEAN /\ o.signal \in BOOLEAN
         /\ o.as \in {"buffer", "stream"} /\ o.timeout \in Nat \cup {None}
  BY FetchOptionsAssumption

\* A fetch that ends or rejects its await keeps what FetchOK says of it, when
\* nothing but its outcome, its core and its search changes.
LEMMA LeavesWaits ==
  ASSUME NEW f \in Fetches, FInv, FTypeOK',
         pc'[f] \notin Waits \cup {"assessing", "closing", "idle"}, ~finding'[f],
         pc[f] # "idle",
         opts'[f] = opts[f], started'[f] = started[f],
         transport'[f] = transport[f] \/ transport'[f] = "closed"
  PROVE  FetchOK(f)'
  BY LabelsAre DEF FInv, FetchOK, Began, InTime, FindsWhileSearching, OwnTransport, CoreFirst

\* A fetch that waits on, or on the next await, with the deadline it had.
LEMMA WaitsOn ==
  ASSUME NEW f \in Fetches, FInv, FTypeOK', now' = now,
         pc[f] \in Waits \ {"reading", "collecting"},
         pc'[f] \in Waits \ {"reading", "collecting"},
         finding'[f] => pc'[f] \in Searching,
         opts'[f] = opts[f], started'[f] = started[f], deadline'[f] = deadline[f],
         transport'[f] = transport[f]
  PROVE  FetchOK(f)'
  BY LabelsAre DEF FInv, FetchOK, Began, InTime, FindsWhileSearching, OwnTransport, CoreFirst

LEMMA FetchKeeps == ASSUME FInv, FTypeOK', NEW f \in Fetches, Fetch(f) PROVE FetchOK(f)'
  <1> USE LabelsAre DEF FInv, FTypeOK, Goto
  <1>1. PICK o \in Options :
           /\ o.timeout # None => now + 2 * o.timeout <= MaxTime
           /\ opts' = [opts EXCEPT ![f] = o]
           /\ deadline' = [deadline EXCEPT ![f] = DeadlineIn(o.timeout)]
           /\ transport' = [transport EXCEPT ![f] = IF o.own THEN "open" ELSE "shared"]
           /\ pc' \in {[pc EXCEPT ![f] = "failed"], [pc EXCEPT ![f] = "opening"]}
    BY DEF Fetch
  <1>2. /\ pc[f] = "idle" /\ ~finding'[f] /\ now' = now /\ now \in Nat
        /\ started'[f] = now
    BY FetchTimeAssumption DEF Fetch, FetchOK, FindsWhileSearching, Searching
  <1>3. Began(f)'
    BY <1>1, <1>2 DEF Began
  <1>4. InTime(f)'
    <2>1. o.timeout # None => deadline'[f] = now + o.timeout /\ o.timeout \in Nat
      BY <1>1, OptionsAre DEF DeadlineIn
    <2> QED BY <1>1, <1>2, <2>1 DEF InTime
  <1>5. FindsWhileSearching(f)' /\ OwnTransport(f)' /\ CoreFirst(f)'
    BY <1>1, <1>2 DEF FindsWhileSearching, OwnTransport, CoreFirst
  <1> QED BY <1>3, <1>4, <1>5 DEF FetchOK

LEMMA SettlesKeep ==
  ASSUME FInv, FTypeOK', NEW f \in Fetches, CoreSettles(f) \/ AttachSettles(f)
  PROVE  FetchOK(f)'
  BY DEF FInv, FTypeOK, FetchOK, Began, InTime, FindsWhileSearching, OwnTransport, CoreFirst,
         CoreSettles, AttachSettles

LEMMA SearchKeeps ==
  ASSUME FInv, FTypeOK', NEW f \in Fetches, Opened(f) \/ Attached(f) \/ Flushed(f)
  PROVE  FetchOK(f)'
  <1> USE LabelsAre
  <1>1. FTypeOK
    BY DEF FInv
  <1>2. /\ UNCHANGED <<now, opts, started, deadline, transport>>
        /\ pc[f] \in {"opening", "attaching", "flushing"}
    BY DEF Opened, Attached, Flushed
  <1>3. ASSUME NEW code, Fail(f, code) PROVE FetchOK(f)'
    BY <1>1, <1>2, <1>3, FailOutcome, LeavesWaits
  <1>4. CASE Update(f)
    <2>1. ~finding'[f] /\ pc'[f] \in {"cleaning", "updating"}
      BY <1>1, <1>4 DEF Update, Goto, FTypeOK
    <2> QED BY <1>2, <2>1, LeavesWaits, WaitsOn
  <1>5. CASE Goto(f, "attaching") \/ Goto(f, "flushing")
    <2>1. pc'[f] \in Searching
      BY <1>1, <1>5 DEF Goto, FTypeOK, Searching
    <2> QED BY <1>2, <2>1, WaitsOn DEF Searching
  <1> QED BY <1>3, <1>4, <1>5 DEF Opened, Attached, Flushed

LEMMA UpdatedKeeps == ASSUME FInv, FTypeOK', NEW f \in Fetches, Updated(f) PROVE FetchOK(f)'
  <1> USE LabelsAre
  <1>1. FTypeOK /\ FetchOK(f)
    BY DEF FInv
  <1>2. /\ UNCHANGED <<now, opts, started, transport>> /\ pc[f] = "updating"
    BY DEF Updated
  <1>3. ASSUME NEW code, Fail(f, code) PROVE FetchOK(f)'
    BY <1>1, <1>2, <1>3, FailOutcome, LeavesWaits
  <1>4. ASSUME Goto(f, "reading"), UNCHANGED finding,
               deadline' = [deadline EXCEPT ![f] = DeadlineIn(opts[f].timeout)]
        PROVE FetchOK(f)'
    <2>1. pc'[f] = "reading" /\ ~finding'[f] /\ deadline'[f] = DeadlineIn(opts[f].timeout)
      BY <1>1, <1>2, <1>4 DEF Goto, FTypeOK, FetchOK, FindsWhileSearching, Searching
    <2>2. /\ opts[f] \in Options /\ opts[f].timeout \in Nat \cup {None}
          /\ started[f] \in Nat /\ now \in Nat
      BY <1>1, <1>2, OptionsAre, FetchTimeAssumption DEF FetchOK, Began, FTypeOK
    <2>3. opts[f].timeout # None => now <= started[f] + opts[f].timeout
      BY <1>1, <1>2, <2>2 DEF FetchOK, InTime
    <2>4. InTime(f)'
      BY <1>2, <2>1, <2>2, <2>3 DEF InTime, DeadlineIn
    <2> QED BY <1>1, <1>2, <2>1, <2>4
            DEF FetchOK, Began, FindsWhileSearching, OwnTransport, CoreFirst
  <1> QED BY <1>3, <1>4 DEF Updated

LEMMA ReadKeeps ==
  ASSUME FInv, FTypeOK', NEW f \in Fetches, DescriptorRead(f) \/ Assessed(f) \/ Collected(f)
  PROVE  FetchOK(f)'
  <1> USE LabelsAre
  <1>1. FTypeOK /\ FetchOK(f)
    BY DEF FInv
  <1>2. /\ UNCHANGED <<now, opts, started, deadline, core, transport>>
        /\ pc[f] \in {"reading", "assessing", "collecting"} /\ ~finding[f]
    BY <1>1 DEF DescriptorRead, Assessed, Collected, FetchOK, FindsWhileSearching, Searching
  <1>3. ASSUME NEW code, Fail(f, code) PROVE FetchOK(f)'
    BY <1>1, <1>2, <1>3, FailOutcome, LeavesWaits
  <1>4. ASSUME NEW label \in {"done", "finishing"}, Goto(f, label), UNCHANGED finding
        PROVE  FetchOK(f)'
    <2>1. pc'[f] = label
      BY <1>1, <1>4 DEF Goto, FTypeOK
    <2> QED BY <1>2, <1>4, <2>1, LeavesWaits
  <1>5. ASSUME NEW label \in {"assessing", "collecting"}, Goto(f, label), UNCHANGED finding,
               pc[f] \in {"reading", "assessing"},
               label = "collecting" => ~TurnedAway(f)
        PROVE  FetchOK(f)'
    <2>1. pc'[f] = label
      BY <1>1, <1>5 DEF Goto, FTypeOK
    <2>2. /\ opts[f] \in Options /\ opts[f].timeout \in Nat \cup {None} /\ now \in Nat
      BY <1>1, <1>2, OptionsAre, FetchTimeAssumption DEF FetchOK, Began, FTypeOK
    <2>3. label = "collecting" /\ deadline[f] \in Nat => now <= deadline[f]
      BY <1>5, <2>2, FetchTimeAssumption DEF TurnedAway
    <2>4. InTime(f)'
      BY <1>1, <1>2, <1>5, <2>1, <2>2, <2>3 DEF FetchOK, InTime
    <2> QED BY <1>1, <1>2, <1>5, <2>1, <2>4
            DEF FetchOK, Began, FindsWhileSearching, OwnTransport, CoreFirst
  <1>6. CASE DescriptorRead(f)
    BY <1>3, <1>5, <1>6 DEF DescriptorRead, Passes
  <1>7. CASE Assessed(f)
    <2>1. \/ \E code : Fail(f, code)
          \/ ~TurnedAway(f) /\ UNCHANGED finding /\ (Goto(f, "done") \/ Goto(f, "collecting"))
      BY <1>7 DEF Assessed, Passes
    <2>2. pc[f] = "assessing"
      BY <1>7 DEF Assessed
    <2> QED BY <1>3, <1>4, <1>5, <2>1, <2>2
  <1>8. CASE Collected(f)
    BY <1>3, <1>4, <1>8 DEF Collected, Passes
  <1> QED BY <1>6, <1>7, <1>8

LEMMA EndsKeep ==
  ASSUME FInv, FTypeOK', NEW f \in Fetches,
         ReadEnds(f) \/ Expire(f) \/ TransportCloses(f) \/ Clean(f) \/ StreamCloses(f)
  PROVE  FetchOK(f)'
  <1> USE LabelsAre
  <1>1. FTypeOK /\ FetchOK(f)
    BY DEF FInv
  <1>2. /\ UNCHANGED <<now, opts, started, deadline>> /\ pc[f] # "idle"
        /\ transport'[f] = transport[f] \/ transport'[f] = "closed"
    BY <1>1 DEF ReadEnds, Expire, TransportCloses, Clean, StreamCloses, CloseTransport, Due,
                FTypeOK
  <1>3. ASSUME NEW code, Fail(f, code) PROVE FetchOK(f)'
    BY <1>1, <1>2, <1>3, FailOutcome, LeavesWaits
  <1>4. CASE pc[f] = "finishing" /\ Goto(f, "closing") /\ UNCHANGED finding
             /\ core'[f] = "closed" /\ opts[f].own /\ transport'[f] = transport[f]
    <2>1. pc'[f] = "closing" /\ ~finding'[f]
      BY <1>1, <1>4 DEF Goto, FTypeOK, FetchOK, FindsWhileSearching, Searching
    <2> QED BY <1>1, <1>2, <1>4, <2>1
            DEF FetchOK, Began, InTime, FindsWhileSearching, OwnTransport, CoreFirst
  <1>5. CASE (Goto(f, "done") \/ Goto(f, "failed")) /\ UNCHANGED finding /\ pc[f] \notin Searching
    <2>1. pc'[f] \in {"done", "failed"} /\ ~finding'[f]
      BY <1>1, <1>5 DEF Goto, FTypeOK, FetchOK, FindsWhileSearching
    <2> QED BY <1>2, <2>1, LeavesWaits
  <1>6. CASE StreamCloses(f)
    <2>1. UNCHANGED <<pc, finding>> /\ pc[f] = "done"
      BY <1>6 DEF StreamCloses
    <2>2. ~finding'[f]
      BY <1>1, <2>1 DEF FetchOK, FindsWhileSearching, Searching
    <2> QED BY <1>2, <2>1, <2>2, LeavesWaits
  <1>7. CASE ReadEnds(f)
    <2>1. pc[f] = "finishing" /\ UNCHANGED transport /\ core'[f] = "closed"
      BY <1>1, <1>7 DEF ReadEnds, FTypeOK
    <2>2. \/ Goto(f, "closing") /\ opts[f].own /\ UNCHANGED finding
          \/ Goto(f, "done") /\ UNCHANGED finding
          \/ \E code : Fail(f, code)
      BY <1>7 DEF ReadEnds, Passes
    <2> QED BY <1>3, <1>4, <1>5, <2>1, <2>2 DEF Searching
  <1>8. CASE TransportCloses(f)
    BY <1>3, <1>5, <1>8 DEF TransportCloses, Searching
  <1>9. CASE Clean(f)
    BY <1>5, <1>9 DEF Clean, Searching
  <1>10. CASE Expire(f)
    BY <1>3, <1>10 DEF Expire
  <1> QED BY <1>6, <1>7, <1>8, <1>9, <1>10

LEMMA AbortKeeps == ASSUME FInv, FTypeOK', Abort, NEW f \in Fetches PROVE FetchOK(f)'
  <1> USE LabelsAre
  <1>1. FTypeOK /\ FetchOK(f)
    BY DEF FInv
  <1>2. UNCHANGED <<now, opts, started, deadline, core, transport>>
    BY DEF Abort
  <1>3. CASE Hit(f)
    <2>1. pc'[f] \in {"cleaning", "failed"} /\ ~finding'[f] /\ pc[f] \in Waits
      BY <1>3 DEF Abort, Hit
    <2> QED BY <1>2, <2>1, LeavesWaits
  <1>4. CASE ~Hit(f)
    <2>1. pc'[f] = pc[f] /\ finding'[f] = finding[f]
      BY <1>1, <1>4 DEF Abort, FTypeOK
    <2> QED BY <1>1, <1>2, <2>1
            DEF FetchOK, Began, InTime, FindsWhileSearching, OwnTransport, CoreFirst
  <1> QED BY <1>3, <1>4

LEMMA TickKeeps == ASSUME FInv, FTypeOK', Tick, NEW f \in Fetches PROVE FetchOK(f)'
  <1>1. FTypeOK /\ FetchOK(f)
    BY DEF FInv
  <1>2. now' = now + 1 /\ ~Due(f) /\ UNCHANGED <<pc, opts, started, deadline, core, finding, transport>>
    BY DEF Tick, held
  <1>3. InTime(f)'
    BY <1>1, <1>2, FetchTimeAssumption DEF FetchOK, InTime, Due, FTypeOK
  <1> QED BY <1>1, <1>2, <1>3 DEF FetchOK, Began, FindsWhileSearching, OwnTransport, CoreFirst

LEMMA NextKeepsFInv == FInv /\ [FNext]_fvars => FInv'
  <1> SUFFICES ASSUME FInv, [FNext]_fvars PROVE FInv'
    OBVIOUS
  <1>1. FTypeOK'
    BY NextKeepsTypes
  <1>2. CASE Tick \/ Abort
    BY <1>1, <1>2, TickKeeps, AbortKeeps DEF FInv
  <1>3. ASSUME NEW g \in Fetches, Acts(g), NEW f \in Fetches PROVE FetchOK(f)'
    <2>1. CASE f = g
      BY <1>1, <1>3, <2>1, FetchKeeps, SettlesKeep, SearchKeeps, UpdatedKeeps, ReadKeeps, EndsKeep
         DEF Acts, Step, Local, CleanUp
    <2>2. CASE f # g
      BY <1>3, <2>2, ActsFrame
         DEF FInv, FetchOK, Began, InTime, FindsWhileSearching, OwnTransport, CoreFirst
    <2> QED BY <2>1, <2>2
  <1>4. CASE \E g \in Fetches : Acts(g)
    BY <1>1, <1>3, <1>4 DEF FInv
  <1>5. CASE UNCHANGED fvars
    BY <1>1, <1>5
       DEF fvars, held, FInv, FetchOK, Began, InTime, FindsWhileSearching, OwnTransport, CoreFirst
  <1> QED BY <1>2, <1>4, <1>5 DEF FNext, Acts

LEMMA FInvAlways == FSpec => []FInv
  <1>1. FInit => FInv
    BY InitEstablishesFInv
  <1>2. FInv /\ [FNext]_fvars => FInv'
    BY NextKeepsFInv
  <1> QED BY <1>1, <1>2, PTL DEF FSpec

-----------------------------------------------------------------------------
\* Every reachable state of the fetches is well typed: their deadlines are
\* times whatever options the calls of fetchImmutableObject were given.
THEOREM TypeCorrect == FSpec => []FTypeOK
  <1>1. FInv => FTypeOK
    BY DEF FInv
  <1> QED BY <1>1, FInvAlways, PTL

\* Whatever does not answer, discovery and update are over by the timeout a
\* fetch was given, and the awaits of the scope the read makes anew by twice
\* that (fetchImmutableObject, readImmutableObject).
THEOREM AwaitsAreBounded == FSpec => []TimeoutsAreShared
  <1>1. FInv => TimeoutsAreShared
    <2> SUFFICES ASSUME FInv, NEW f \in Fetches, pc[f] \in Waits, opts[f].timeout # None
                 PROVE  now <= started[f] + (IF pc[f] \in Scoped THEN 2 ELSE 1) * opts[f].timeout
      BY DEF TimeoutsAreShared
    <2>1. FTypeOK /\ FetchOK(f)
      BY DEF FInv
    <2>2. /\ now \in Nat /\ opts[f].timeout \in Nat /\ started[f] \in Nat
      BY <2>1, LabelsAre, OptionsAre, FetchTimeAssumption DEF FTypeOK, FetchOK, Began
    <2>3. CASE pc[f] \in Scoped
      <3>1. now <= started[f] + 2 * opts[f].timeout
        BY <2>1, <2>2, <2>3, LabelsAre DEF FetchOK, InTime, Scoped
      <3> QED BY <2>3, <3>1
    <2>4. CASE pc[f] \notin Scoped
      <3>1. now <= started[f] + opts[f].timeout
        BY <2>1, <2>2, <2>4, LabelsAre DEF FetchOK, InTime, Scoped
      <3>2. 1 * opts[f].timeout = opts[f].timeout
        BY <2>2
      <3> QED BY <2>4, <3>1, <3>2
    <2> QED BY <2>3, <2>4
  <1> QED BY <1>1, FInvAlways, PTL

\* What a step of a fetch releases by the time the fetch returns.
Releases(f) ==
    /\ pc[f] # "idle" /\ pc'[f] \in Returned => ~finding'[f]
    /\ pc[f] \in Guarded \cup {"cleaning"} /\ pc'[f] \in Returned =>
         \/ pc'[f] = "done" /\ opts[f].as = "stream"
         \/ /\ core'[f] = "closed"
            /\ opts[f].own => transport'[f] = "closed" /\ attach'[f] = "detached"

LEMMA GuardedStepReleases ==
  ASSUME FInv, NEW f \in Fetches, Acts(f),
         pc[f] \in Guarded \cup {"cleaning"}, pc'[f] \in Returned
  PROVE  \/ pc'[f] = "done" /\ opts[f].as = "stream"
         \/ /\ core'[f] = "closed"
            /\ opts[f].own => transport'[f] = "closed" /\ attach'[f] = "detached"
  <1> USE LabelsAre DEF Returned
  <1>1. FTypeOK /\ FetchOK(f)
    BY DEF FInv
  <1>2. opts[f] \in Options
    BY <1>1 DEF FetchOK, Began
  <1>3. opts[f].as \in {"buffer", "stream"} /\ opts[f].own \in BOOLEAN
    BY <1>2, OptionsAre
  <1>4. pc[f] \in Guarded => \A code : ~Fail(f, code)
    BY <1>1, FailOutcome
  <1>5. CASE ReadEnds(f)
    <2>1. pc[f] = "finishing" /\ core'[f] = "closed"
      BY <1>1, <1>5 DEF ReadEnds, FTypeOK
    <2>2. Goto(f, IF opts[f].own THEN "closing" ELSE "done")
      BY <1>4, <1>5, <2>1 DEF ReadEnds, Passes
    <2> QED BY <1>1, <1>3, <2>1, <2>2 DEF Goto, FTypeOK
  <1>6. CASE TransportCloses(f)
    <2>1. CloseTransport(f) /\ UNCHANGED core /\ pc[f] = "closing"
      BY <1>4, <1>6 DEF TransportCloses
    <2>2. core[f] = "closed" /\ opts[f].own /\ transport[f] \in {"open", "closed"}
      BY <1>1, <2>1 DEF FetchOK, CoreFirst, OwnTransport
    <2> QED BY <1>1, <2>1, <2>2 DEF CloseTransport, FTypeOK
  <1>7. CASE Clean(f)
    <2>1. CloseTransport(f) /\ core'[f] = "closed"
      BY <1>1, <1>7 DEF Clean, FTypeOK
    <2>2. opts[f].own => transport[f] \in {"open", "closed"}
      BY <1>1 DEF FetchOK, OwnTransport
    <2> QED BY <1>1, <2>1, <2>2 DEF CloseTransport, FTypeOK
  <1>8. CASE Updated(f) \/ Expire(f)
    BY <1>1, <1>4, <1>8 DEF Updated, Expire, Due, Goto, FTypeOK
  <1>9. CASE DescriptorRead(f) \/ Collected(f)
    BY <1>1, <1>4, <1>9 DEF DescriptorRead, Collected, Passes, Goto, FTypeOK
  <1>10. CASE Assessed(f)
    <2>1. pc[f] = "assessing"
      BY <1>10 DEF Assessed
    <2>2. Goto(f, IF opts[f].as = "stream" THEN "done" ELSE "collecting")
      BY <1>4, <1>10, <2>1 DEF Assessed, Passes
    <2> QED BY <1>1, <2>1, <2>2 DEF Goto, FTypeOK
  <1>11. CASE CoreSettles(f) \/ AttachSettles(f) \/ StreamCloses(f)
    BY <1>11 DEF CoreSettles, AttachSettles, StreamCloses
  <1>12. ~(Fetch(f) \/ Opened(f) \/ Attached(f) \/ Flushed(f))
    BY DEF Fetch, Opened, Attached, Flushed
  <1> QED BY <1>5, <1>6, <1>7, <1>8, <1>9, <1>10, <1>11, <1>12
          DEF Acts, Step, Local, CleanUp

\* A fetch that got as far as the update and does not hand out a stream has
\* closed its core and, if it is its own, its transport by the time it
\* returns or rejects, whichever await failed or was interrupted.
THEOREM NothingIsLeftBehind == FSpec => ReleasedAfterUpdate
  <1>1. ASSUME FInv, FInv', [FNext]_fvars, NEW f \in Fetches PROVE UNCHANGED fvars \/ Releases(f)
    <2> USE LabelsAre
    <2>1. pc'[f] \in Returned => ~finding'[f]
      BY <1>1 DEF FInv, FetchOK, FindsWhileSearching, Searching, Returned
    <2>2. ASSUME pc'[f] = pc[f] PROVE Releases(f)
      BY <2>1, <2>2 DEF Releases, Returned
    <2>3. CASE Tick
      BY <2>2, <2>3 DEF Tick
    <2>4. CASE Abort
      <3>1. CASE pc[f] \in Guarded
        <4>1. pc'[f] \in {pc[f], "cleaning"}
          BY <1>1, <2>4, <3>1 DEF Abort
        <4> QED BY <2>1, <3>1, <4>1 DEF Releases, Returned
      <3>2. CASE pc[f] \notin Guarded
        <4>1. pc[f] = "cleaning" => pc'[f] = "cleaning"
          BY <2>4 DEF Abort, Hit
        <4> QED BY <2>1, <3>2, <4>1 DEF Releases, Returned
      <3> QED BY <3>1, <3>2
    <2>5. ASSUME NEW g \in Fetches, Acts(g) PROVE Releases(f)
      <3>1. CASE f = g
        BY <1>1, <2>1, <2>5, <3>1, GuardedStepReleases DEF Releases
      <3>2. CASE f # g
        <4>1. pc'[f] = pc[f]
          BY <1>1, <2>5, <3>2, ActsFrame DEF FInv
        <4> QED BY <2>2, <4>1
      <3> QED BY <3>1, <3>2
    <2> QED BY <1>1, <2>3, <2>4, <2>5 DEF FNext, Acts
  <1>2. FInv /\ FInv' /\ [FNext]_fvars => [\A f \in Fetches : Releases(f)]_fvars
    BY <1>1
  <1>3. [][\A f \in Fetches : Releases(f)]_fvars => ReleasedAfterUpdate
    BY PTL DEF ReleasedAfterUpdate, Releases
  <1> QED BY <1>2, <1>3, FInvAlways, PTL DEF FSpec
=============================================================================
