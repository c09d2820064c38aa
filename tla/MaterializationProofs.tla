------------------------ MODULE MaterializationProofs ------------------------
(***************************************************************************)
(* Theorems about Materialization, for any calls, files, objects and       *)
(* options.  The inductive invariant MInv says of each call where its      *)
(* fs.writeFile stands at each of its awaits and that what it returns is   *)
(* what its object and its request resolve to (CallOK), and of each file   *)
(* written by one call alone that it holds what that call has written of   *)
(* its object so far (PrefixWritten).                                      *)
(***************************************************************************)
EXTENDS Materialization, SequenceTheorems, TLAPS

Contents == Seq(Bytes \cup {Hole})
Labels == {"idle", "loading"} \cup Waits \cup Returned
WriterStates == [at : {"none", "opening", "open"} \cup WriterEnds, pos : Nat]

Types ==
    /\ pc \in [Calls -> Labels]
    /\ opts \in [Calls -> Optional(Options)]
    /\ expired \in [Calls -> BOOLEAN] /\ aborted \in BOOLEAN
    /\ error \in [Calls -> Optional(Codes)]
    /\ lifecycle \in [Calls -> Optional(Lifecycles)]
    /\ DOMAIN plan = Calls
    /\ writer \in [Calls -> WriterStates]
    /\ file \in [Files -> Optional(Contents)]

\* What the call was given: the plan of an object that is loaded resolves.
Given(m) ==
    /\ pc[m] # "idle" => opts[m] \in Options
    /\ pc[m] \notin {"idle", "failed"} \/ writer[m].at # "none" => Acceptable(opts[m])
    /\ pc[m] \in Waits \cup {"done"} => ValidHints(Hints(m))

\* Where its fs.writeFile stands.
WriterFollows(m) ==
    /\ pc[m] \in Waits \/ writer[m].at # "none" => InFile(m)
    /\ pc[m] \in {"idle", "loading", "preparing"} => writer[m].at = "none"
    /\ pc[m] = "verifying" => writer[m].at = "written"
    /\ pc[m] = "done" => writer[m].at = IF InFile(m) THEN "written" ELSE "none"
    /\ writer[m].at \in {"none", "opening"} => writer[m].pos = 0

\* What it has answered.
Answered(m) ==
    /\ (error[m] # None) = (pc[m] = "failed")
    /\ (plan[m] # None) = (pc[m] = "done")
    /\ lifecycle[m] # None => pc[m] = "done"
    /\ pc[m] = "done" => plan[m] = Plan(Hints(m), Effective(opts[m]))

CallOK(m) == Given(m) /\ WriterFollows(m) /\ Answered(m)

\* What the file it has opened holds, and holds when no other call wrote it.
PrefixWritten(m) ==
    LET dest == opts[m].destination IN
    writer[m].at \in {"open", "written"} =>
        /\ file[dest] \in Contents
        /\ Writers(dest) = {m} =>
             /\ writer[m].at = "open" =>
                  /\ Len(file[dest]) = writer[m].pos
                  /\ writer[m].pos <= Len(Payload(m))
                  /\ \A i \in 1..writer[m].pos : file[dest][i] = Payload(m)[i]
             /\ writer[m].at = "written" => file[dest] = Payload(m)

MInv == /\ Types
        /\ \A m \in Calls : CallOK(m)
        /\ \A m \in Calls : PrefixWritten(m)

LEMMA LabelsAre ==
  /\ Labels = {"idle", "loading", "preparing", "writing", "verifying", "done", "failed"}
  /\ Waits = {"preparing", "writing", "verifying"}
  /\ Returned = {"done", "failed"}
  /\ WriterEnds = {"written", "broken"}
  BY DEF Labels, Waits, Returned, WriterEnds

LEMMA CodesAre ==
  /\ Codes = {"refused", "load", "other", "ERR_OPERATION_ABORTED", "ERR_OPERATION_TIMEOUT",
              "ERR_MATERIALIZATION_WRITE_FAILED"}
  /\ None \notin Codes
  BY NoneAssumption DEF Codes

-----------------------------------------------------------------------------
(* Requests and plans.                                                     *)

\* An acceptable call has settled on a mode, names a file for a file mode,
\* and its effective request is valid.
LEMMA AcceptableCalls ==
  ASSUME NEW o \in Options, Acceptable(o)
  PROVE  /\ RequestedMode(o) \in Modes
         /\ RequestedMode(o) # "stream" => o.destination \in Files
         /\ o.reference.key \in Keys
         /\ ValidRequest(Effective(o))
         /\ Effective(o).mode = RequestedMode(o)
  <1> DEFINE q == o.request
  <1>1. q = [reference |-> q.reference, targetClass |-> q.targetClass, mode |-> q.mode,
             filenameOverride |-> q.filenameOverride]
    BY MaterializationAssumption
  <1> HIDE DEF q
  <1>2. Asked(o) = [reference |-> Or(q.reference, o.reference), targetClass |-> q.targetClass,
                    mode |-> q.mode, filenameOverride |-> q.filenameOverride]
    <2>1. Asked(o) = [q EXCEPT !.reference = Or(q.reference, o.reference)]
      BY DEF Asked, q
    <2> QED BY <1>1, <2>1
  <1>3. Effective(o) = [reference |-> o.reference, targetClass |-> q.targetClass,
                        mode |-> RequestedMode(o), filenameOverride |-> q.filenameOverride]
    <2> DEFINE r == [Asked(o) EXCEPT !.reference = o.reference]
    <2>1. r = [reference |-> o.reference, targetClass |-> q.targetClass, mode |-> q.mode,
               filenameOverride |-> q.filenameOverride]
      BY <1>2
    <2>2. Effective(o) = [r EXCEPT !.mode = RequestedMode(o)]
      BY DEF Effective
    <2> HIDE DEF r
    <2> QED BY <2>1, <2>2
  <1>4. ValidRequest(Asked(o)) /\ ValidReference(o.reference)
    BY DEF Acceptable
  <1>5. q.mode \in Optional(Modes)
    BY <1>2, <1>4 DEF ValidRequest
  <1>6. RequestedMode(o) \in Modes
    <2>1. RequestedMode(o) = Or(q.mode, "stream")
      BY DEF RequestedMode, q
    <2> QED BY <1>5, <2>1 DEF Or, Optional, Modes
  <1>7. RequestedMode(o) # "stream" => o.destination \in Files
    <2>1. o.destination \in Optional(Files)
      BY MaterializationAssumption
    <2> QED BY <2>1 DEF Acceptable, Optional
  <1>8. ValidRequest(Effective(o))
    BY <1>2, <1>3, <1>4, <1>6 DEF ValidRequest, Optional
  <1> QED BY <1>3, <1>4, <1>6, <1>7, <1>8 DEF ValidReference

\* The plan of valid hints and an acceptable call is valid, and has its mode.
LEMMA PlansResolve ==
  ASSUME NEW o \in Options, Acceptable(o), NEW h, ValidHints(h)
  PROVE  /\ ValidRequest(Effective(o))
         /\ ValidPlan(Plan(h, Effective(o)))
         /\ Plan(h, Effective(o)).mode = RequestedMode(o)
  <1> DEFINE q == Effective(o)
  <1>1. q.mode \in Modes /\ q.mode = RequestedMode(o) /\ ValidRequest(q)
    BY AcceptableCalls
  <1> HIDE DEF q
  <1>2. Plan(h, q).mode = q.mode
    BY <1>1, NoneAssumption DEF Plan, Or
  <1>3. /\ Plan(h, q).placementClass = h.placementClass
        /\ Plan(h, q).targetClass = q.targetClass
        /\ Plan(h, q).visibility = h.visibility
        /\ Plan(h, q).filename \in {q.filenameOverride, h.filenameHint}
    BY DEF Plan, Or
  <1>4. ValidPlan(Plan(h, q))
    BY <1>1, <1>2, <1>3 DEF ValidPlan, ValidHints, ValidRequest
  <1> QED BY <1>1, <1>2, <1>4 DEF q

\* Once the object is loaded the call returns: its plan is not refused.
LEMMA ReturnSucceeds ==
  ASSUME NEW m \in Calls, NEW snapshot, opts[m] \in Options, Acceptable(opts[m]),
         ValidHints(Hints(m)), Return(m, snapshot)
  PROVE  /\ pc' = [pc EXCEPT ![m] = "done"]
         /\ lifecycle' = [lifecycle EXCEPT ![m] = snapshot]
         /\ plan' = [plan EXCEPT ![m] = Plan(Hints(m), Effective(opts[m]))]
         /\ error' = error
  BY PlansResolve DEF Return

LEMMA PayloadsAreSequences ==
  ASSUME NEW m \in Calls, opts[m] \in Options, Acceptable(opts[m])
  PROVE  /\ Payload(m) \in Seq(Bytes) /\ Payload(m) \in Contents
         /\ Objects[opts[m].reference.key].payload = Payload(m)
         /\ Plan(Hints(m), Effective(opts[m])) # None
  <1>1. opts[m].reference.key \in Keys
    BY AcceptableCalls
  <1>2. Payload(m) \in Seq(Bytes)
    BY <1>1, MaterializationAssumption DEF Payload
  <1>3. Payload(m) \in Contents
    BY <1>2, SeqMonotonic DEF Contents
  <1> QED BY <1>1, <1>2, <1>3, NoneAssumption DEF Payload, Hints

-----------------------------------------------------------------------------
(* Writing at a position.                                                  *)

LEMMA PutAtProperties ==
  ASSUME NEW s \in Contents, NEW i \in Nat \ {0}, NEW e \in Bytes \cup {Hole}
  PROVE  /\ PutAt(s, i, e) \in Contents
         /\ Len(PutAt(s, i, e)) = IF Len(s) < i THEN i ELSE Len(s)
         /\ \A j \in 1..Len(s) : j # i => PutAt(s, i, e)[j] = s[j]
         /\ PutAt(s, i, e)[i] = e
  <1> DEFINE S == Bytes \cup {Hole}
  <1>0. s \in Seq(S) /\ e \in S /\ Hole \in S /\ Contents = Seq(S)
    BY DEF Contents
  <1> HIDE DEF S
  <1> DEFINE n == IF Len(s) < i THEN i ELSE Len(s)
  <1>1. Len(s) \in Nat /\ n \in Nat /\ \A j \in 1..Len(s) : s[j] \in S
    BY <1>0, LenProperties, ElementOfSeq
  <1>2. PutAt(s, i, e) \in [1..n -> S]
    BY <1>0, <1>1 DEF PutAt
  <1>3. PutAt(s, i, e) \in Seq(S)
    BY <1>1, <1>2, SeqDef
  <1>4. Len(PutAt(s, i, e)) = n
    <2>1. Len(PutAt(s, i, e)) \in Nat /\ DOMAIN PutAt(s, i, e) = 1..Len(PutAt(s, i, e))
      BY <1>3, LenProperties
    <2>2. 1..n = 1..Len(PutAt(s, i, e))
      BY <1>2, <2>1
    <2> DEFINE k == Len(PutAt(s, i, e))
    <2> HIDE DEF n, k
    <2>3. k \in Nat /\ 1..n = 1..k
      BY <2>1, <2>2 DEF k
    <2>4. (n = 0 \/ n \in 1..k) /\ (k = 0 \/ k \in 1..n) /\ n \in Nat
      BY <1>1, <2>3
    <2>5. k = n
      BY <2>3, <2>4
    <2> QED BY <2>5 DEF k
  <1>5. \A j \in 1..n : PutAt(s, i, e)[j] = IF j = i THEN e ELSE IF j <= Len(s) THEN s[j] ELSE Hole
    BY DEF PutAt
  <1>6. i \in 1..n /\ 1..Len(s) \subseteq 1..n
    BY <1>1
  <1> HIDE DEF n
  <1>7. PutAt(s, i, e)[i] = e
    BY <1>5, <1>6
  <1>8. \A j \in 1..Len(s) : j # i => PutAt(s, i, e)[j] = s[j]
    BY <1>1, <1>5, <1>6
  <1> QED BY <1>0, <1>3, <1>4, <1>7, <1>8 DEF n

-----------------------------------------------------------------------------
LEMMA InitEstablishesMInv == MInit => MInv
  <1> SUFFICES ASSUME MInit PROVE MInv
    OBVIOUS
  <1>0. aborted \in BOOLEAN
    BY Zenon DEF MInit
  <1>1. Types
    BY <1>0, LabelsAre DEF MInit, Types, Optional, WriterStates
  <1>2. \A m \in Calls : CallOK(m)
    BY DEF MInit, CallOK, Given, WriterFollows, Answered, Waits
  <1>3. \A m \in Calls : PrefixWritten(m)
    BY DEF MInit, PrefixWritten
  <1> QED BY <1>1, <1>2, <1>3 DEF MInv

\* What a step of one call leaves alone: the other calls, and the files.
Frame(m) ==
    /\ \A x \in Calls \ {m} :
          /\ pc'[x] = pc[x] /\ opts'[x] = opts[x] /\ error'[x] = error[x]
          /\ lifecycle'[x] = lifecycle[x] /\ plan'[x] = plan[x] /\ writer'[x] = writer[x]
    /\ file' = file

LEMMA FailEffect ==
  ASSUME Types, NEW m \in Calls, NEW code \in Codes, Fail(m, code)
  PROVE  /\ pc' \in [Calls -> Labels] /\ error' \in [Calls -> Optional(Codes)]
         /\ \A x \in Calls \ {m} : pc'[x] = pc[x] /\ error'[x] = error[x]
         /\ pc'[m] = "failed" /\ error'[m] = code
  BY LabelsAre DEF Fail, Types, Optional

LEMMA AwaitEffect ==
  ASSUME Types, NEW m \in Calls, NEW label \in Waits, Await(m, label)
  PROVE  /\ pc' \in [Calls -> Labels] /\ error' \in [Calls -> Optional(Codes)]
         /\ \A x \in Calls \ {m} : pc'[x] = pc[x] /\ error'[x] = error[x]
         /\ \/ pc'[m] = "failed" /\ error'[m] \in Codes /\ error'[m] # "refused"
            \/ pc'[m] = label /\ error'[m] = error[m]
  <1>1. InterruptCode(m) \in Codes /\ InterruptCode(m) # "refused"
    BY DEF InterruptCode, Codes
  <1>2. CASE Interrupted(m)
    BY <1>1, <1>2, FailEffect DEF Await
  <1>3. CASE ~Interrupted(m)
    BY <1>3, LabelsAre DEF Await, Types
  <1> QED BY <1>2, <1>3

LEMMA ReturnEffect ==
  ASSUME Types, NEW m \in Calls, NEW snapshot \in Lifecycles, opts[m] \in Options,
         Acceptable(opts[m]), ValidHints(Hints(m)), Return(m, snapshot)
  PROVE  /\ pc' \in [Calls -> Labels] /\ lifecycle' \in [Calls -> Optional(Lifecycles)]
         /\ DOMAIN plan' = Calls
         /\ \A x \in Calls \ {m} : /\ pc'[x] = pc[x] /\ lifecycle'[x] = lifecycle[x]
                                   /\ plan'[x] = plan[x]
         /\ pc'[m] = "done" /\ lifecycle'[m] = snapshot
         /\ plan'[m] = Plan(Hints(m), Effective(opts[m]))
         /\ error' = error
  <1>1. /\ pc' = [pc EXCEPT ![m] = "done"]
        /\ lifecycle' = [lifecycle EXCEPT ![m] = snapshot]
        /\ plan' = [plan EXCEPT ![m] = Plan(Hints(m), Effective(opts[m]))]
        /\ error' = error
    BY ReturnSucceeds
  <1>2. /\ pc' \in [Calls -> Labels] /\ lifecycle' \in [Calls -> Optional(Lifecycles)]
    BY <1>1, LabelsAre DEF Types, Optional
  <1>3. /\ \A x \in Calls \ {m} : pc'[x] = pc[x] /\ lifecycle'[x] = lifecycle[x]
        /\ pc'[m] = "done" /\ lifecycle'[m] = snapshot
    BY <1>1 DEF Types
  <1>4. /\ DOMAIN plan' = Calls
        /\ \A x \in Calls \ {m} : plan'[x] = plan[x]
        /\ plan'[m] = Plan(Hints(m), Effective(opts[m]))
    BY <1>1 DEF Types
  <1> QED BY <1>1, <1>2, <1>3, <1>4

LEMMA LifecyclesAre ==
  ASSUME NEW c \in BOOLEAN, NEW w \in BOOLEAN, NEW v \in BOOLEAN
  PROVE  Lifecycle(c, w, v) \in Lifecycles
  BY DEF Lifecycles

\* A call fails: whatever writer it has is that of an acceptable file call.
LEMMA FailedOK ==
  ASSUME NEW m \in Calls, MInv, pc[m] \notin Returned,
         pc'[m] = "failed", error'[m] \in Codes, opts'[m] \in Options,
         plan'[m] = plan[m], lifecycle'[m] = lifecycle[m],
         writer'[m].at # "none" => Acceptable(opts'[m]) /\ InFile(m)',
         writer'[m].at \in {"none", "opening"} => writer'[m].pos = 0
  PROVE  CallOK(m)'
  <1>1. CallOK(m)
    BY DEF MInv
  <1>2. Given(m)'
    BY LabelsAre DEF Given
  <1>3. WriterFollows(m)'
    BY LabelsAre DEF WriterFollows
  <1>4. Answered(m)'
    BY <1>1, LabelsAre, CodesAre DEF Answered, CallOK
  <1> QED BY <1>2, <1>3, <1>4 DEF CallOK

\* A call that has not answered has neither a plan nor a lifecycle, and its
\* writer, if any, is that of an acceptable file call.
LEMMA UnansweredFacts ==
  ASSUME MInv, NEW m \in Calls, pc[m] \notin Returned
  PROVE  /\ Types /\ CallOK(m) /\ plan[m] = None /\ lifecycle[m] = None /\ error[m] = None
         /\ writer[m].at # "none" => Acceptable(opts[m]) /\ InFile(m)
         /\ writer[m].at \in {"none", "opening"} => writer[m].pos = 0
         /\ pc[m] # "idle" => opts[m] \in Options
  BY LabelsAre DEF MInv, CallOK, Given, WriterFollows, Answered

LEMMA OthersStayOK ==
  ASSUME MInv, NEW m \in Calls, Frame(m), NEW x \in Calls \ {m}
  PROVE  CallOK(x)'
  BY DEF MInv, CallOK, Given, WriterFollows, Answered, Frame, Hints, InFile

LEMMA MaterializeKeeps ==
  ASSUME MInv, NEW m \in Calls, Materialize(m)
  PROVE  Types' /\ Frame(m) /\ CallOK(m)'
  <1>1. PICK o \in Options :
           /\ opts' = [opts EXCEPT ![m] = o]
           /\ IF Acceptable(o) THEN pc' = [pc EXCEPT ![m] = "loading"] /\ UNCHANGED error
              ELSE Fail(m, "refused")
    BY DEF Materialize
  <1>2. /\ pc[m] = "idle" /\ UNCHANGED <<expired, aborted, lifecycle, plan, writer, file>>
    BY DEF Materialize, returned
  <1>3. /\ Types /\ CallOK(m) /\ plan[m] = None /\ lifecycle[m] = None /\ error[m] = None
        /\ writer[m].at = "none" /\ writer[m].pos = 0
    BY <1>2, UnansweredFacts, LabelsAre DEF CallOK, WriterFollows
  <1>4. /\ opts' \in [Calls -> Optional(Options)] /\ opts'[m] = o
        /\ \A x \in Calls \ {m} : opts'[x] = opts[x]
    BY <1>1, <1>3 DEF Types, Optional
  <1>5. CASE Acceptable(o)
    <2>1. /\ pc' \in [Calls -> Labels] /\ pc'[m] = "loading" /\ error' = error
          /\ \A x \in Calls \ {m} : pc'[x] = pc[x]
      BY <1>1, <1>3, <1>5, LabelsAre DEF Types
    <2>2. Types' /\ Frame(m)
      BY <1>2, <1>3, <1>4, <2>1 DEF Types, Frame
    <2>3. CallOK(m)'
      BY <1>2, <1>3, <1>4, <1>5, <2>1, LabelsAre DEF CallOK, Given, WriterFollows, Answered
    <2> QED BY <2>2, <2>3
  <1>6. CASE ~Acceptable(o)
    <2>1. Fail(m, "refused") /\ "refused" \in Codes
      BY <1>1, <1>6, CodesAre
    <2>2. /\ pc' \in [Calls -> Labels] /\ error' \in [Calls -> Optional(Codes)]
          /\ \A x \in Calls \ {m} : pc'[x] = pc[x] /\ error'[x] = error[x]
          /\ pc'[m] = "failed" /\ error'[m] = "refused"
      BY <1>3, <2>1, FailEffect
    <2>3. Types' /\ Frame(m)
      BY <1>2, <1>3, <1>4, <2>2 DEF Types, Frame
    <2>4. CallOK(m)'
      BY <1>2, <1>3, <1>4, <2>1, <2>2, FailedOK, LabelsAre
    <2> QED BY <2>3, <2>4
  <1> QED BY <1>5, <1>6

\* The steps of a call that leave its options and its writer alone.
LEMMA FailsKeeps ==
  ASSUME MInv, NEW m \in Calls, NEW code \in Codes, Fail(m, code),
         pc[m] \notin Returned \cup {"idle"},
         UNCHANGED <<opts, expired, aborted, lifecycle, plan, writer, file>>
  PROVE  Types' /\ Frame(m) /\ CallOK(m)'
  <1>1. /\ Types /\ opts[m] \in Options
        /\ writer[m].at # "none" => Acceptable(opts[m]) /\ InFile(m)
        /\ writer[m].at \in {"none", "opening"} => writer[m].pos = 0
    BY UnansweredFacts
  <1>2. /\ pc' \in [Calls -> Labels] /\ error' \in [Calls -> Optional(Codes)]
        /\ \A x \in Calls \ {m} : pc'[x] = pc[x] /\ error'[x] = error[x]
        /\ pc'[m] = "failed" /\ error'[m] = code
    BY <1>1, FailEffect
  <1>3. Types' /\ Frame(m)
    BY <1>1, <1>2 DEF Types, Frame
  <1>4. InFile(m)' = InFile(m)
    BY DEF InFile
  <1>5. CallOK(m)'
    BY <1>1, <1>2, <1>4, FailedOK
  <1> QED BY <1>3, <1>5

LEMMA AwaitKeeps ==
  ASSUME MInv, NEW m \in Calls, NEW label \in Waits, Await(m, label),
         pc[m] \notin Returned \cup {"idle"}, Acceptable(opts[m]), InFile(m),
         ValidHints(Hints(m)),
         label = "preparing" => writer[m].at = "none",
         label = "verifying" => writer[m].at = "written",
         UNCHANGED <<opts, expired, aborted, lifecycle, plan, writer, file>>
  PROVE  Types' /\ Frame(m) /\ CallOK(m)'
  <1>1. /\ Types /\ opts[m] \in Options /\ error[m] = None /\ plan[m] = None
        /\ lifecycle[m] = None
        /\ writer[m].at \in {"none", "opening"} => writer[m].pos = 0
    BY UnansweredFacts
  <1>2. CASE Interrupted(m)
    <2>1. InterruptCode(m) \in Codes
      BY DEF InterruptCode, Codes
    <2> QED BY <1>2, <2>1, FailsKeeps DEF Await
  <1>3. CASE ~Interrupted(m)
    <2>1. /\ pc' \in [Calls -> Labels] /\ pc'[m] = label /\ error' = error
          /\ \A x \in Calls \ {m} : pc'[x] = pc[x]
      BY <1>1, <1>3, LabelsAre DEF Await, Types
    <2>2. Types' /\ Frame(m)
      BY <1>1, <2>1 DEF Types, Frame
    <2>3. InFile(m)' = InFile(m) /\ Hints(m)' = Hints(m)
      BY DEF InFile, Hints
    <2>4. CallOK(m)'
      BY <1>1, <2>1, <2>3, LabelsAre DEF CallOK, Given, WriterFollows, Answered
    <2> QED BY <2>2, <2>4
  <1> QED BY <1>2, <1>3

LEMMA ReturnKeeps ==
  ASSUME MInv, NEW m \in Calls, NEW snapshot \in Lifecycles, Return(m, snapshot),
         pc[m] \notin Returned \cup {"idle"}, Acceptable(opts[m]), ValidHints(Hints(m)),
         writer[m].at = IF InFile(m) THEN "written" ELSE "none",
         UNCHANGED <<opts, expired, aborted, writer, file>>
  PROVE  Types' /\ Frame(m) /\ CallOK(m)'
  <1>1. /\ Types /\ opts[m] \in Options /\ error[m] = None
        /\ writer[m].at \in {"none", "opening"} => writer[m].pos = 0
        /\ writer[m].at # "none" => Acceptable(opts[m]) /\ InFile(m)
    BY UnansweredFacts
  <1>2. /\ pc' \in [Calls -> Labels] /\ lifecycle' \in [Calls -> Optional(Lifecycles)]
        /\ DOMAIN plan' = Calls
        /\ \A x \in Calls \ {m} : /\ pc'[x] = pc[x] /\ lifecycle'[x] = lifecycle[x]
                                  /\ plan'[x] = plan[x]
        /\ pc'[m] = "done" /\ lifecycle'[m] = snapshot
        /\ plan'[m] = Plan(Hints(m), Effective(opts[m]))
        /\ error' = error
    BY <1>1, ReturnEffect
  <1>3. Types' /\ Frame(m)
    BY <1>1, <1>2 DEF Types, Frame
  <1>4. /\ InFile(m)' = InFile(m) /\ Hints(m)' = Hints(m) /\ opts'[m] = opts[m]
        /\ writer'[m] = writer[m]
    BY DEF InFile, Hints
  <1>5. Plan(Hints(m), Effective(opts[m])) # None
    BY <1>1, PayloadsAreSequences
  <1>6. Given(m)' /\ WriterFollows(m)'
    BY <1>1, <1>2, <1>4, LabelsAre DEF Given, WriterFollows
  <1>7. Answered(m)'
    BY <1>1, <1>2, <1>4, <1>5, LabelsAre DEF Answered
  <1> QED BY <1>3, <1>6, <1>7 DEF CallOK

LEMMA LoadKeeps ==
  ASSUME MInv, NEW m \in Calls, Loaded(m) \/ LoadFails(m)
  PROVE  Types' /\ Frame(m) /\ CallOK(m)'
  <1>1. /\ pc[m] = "loading" /\ pc[m] \notin Returned \cup {"idle"}
        /\ UNCHANGED <<opts, expired, aborted, writer, file>>
    BY LabelsAre DEF Loaded, LoadFails
  <1>2. writer[m].at = "none" /\ Acceptable(opts[m])
    BY <1>1 DEF MInv, CallOK, Given, WriterFollows
  <1>3. CASE LoadFails(m)
    <2>1. UNCHANGED <<lifecycle, plan>>
      BY <1>3 DEF LoadFails, returned
    <2>2. InterruptCode(m) \in Codes /\ "load" \in Codes
      BY DEF InterruptCode, Codes
    <2> QED BY <1>1, <1>3, <2>1, <2>2, FailsKeeps DEF LoadFails
  <1>4. CASE Loaded(m) /\ InFile(m)
    <2>1. /\ Await(m, "preparing") /\ UNCHANGED <<lifecycle, plan>> /\ ValidHints(Hints(m))
          /\ "preparing" \in Waits
      BY <1>4, LabelsAre DEF Loaded, returned
    <2> QED BY <1>1, <1>2, <1>4, <2>1, AwaitKeeps
  <1>5. CASE Loaded(m) /\ ~InFile(m)
    <2>1. PICK complete \in BOOLEAN : Return(m, Lifecycle(complete, FALSE, FALSE))
      BY <1>5 DEF Loaded
    <2>2. Lifecycle(complete, FALSE, FALSE) \in Lifecycles /\ ValidHints(Hints(m))
      BY <1>5, LifecyclesAre DEF Loaded
    <2> HIDE DEF Lifecycle
    <2> QED BY <1>1, <1>2, <1>5, <2>1, <2>2, ReturnKeeps
  <1> QED BY <1>3, <1>4, <1>5

\* What holds of a call that waits, on top of UnansweredFacts.
LEMMA WaitingFacts ==
  ASSUME MInv, NEW m \in Calls, pc[m] \in Waits
  PROVE  /\ pc[m] \notin Returned \cup {"idle"}
         /\ Acceptable(opts[m]) /\ ValidHints(Hints(m)) /\ InFile(m)
  BY LabelsAre DEF MInv, CallOK, Given, WriterFollows

LEMMA PreparedKeeps ==
  ASSUME MInv, NEW m \in Calls, Prepared(m)
  PROVE  Types' /\ Frame(m) /\ CallOK(m)'
  <1>1. /\ pc[m] = "preparing" /\ UNCHANGED <<opts, expired, aborted, lifecycle, plan, file>>
        /\ Await(m, "writing") /\ writer' = [writer EXCEPT ![m].at = "opening"]
    BY DEF Prepared, returned
  <1>2. /\ pc[m] \notin Returned \cup {"idle"} /\ Acceptable(opts[m]) /\ ValidHints(Hints(m))
        /\ InFile(m)
    BY <1>1, WaitingFacts, LabelsAre
  <1>3. /\ Types /\ CallOK(m) /\ opts[m] \in Options /\ error[m] = None /\ plan[m] = None
        /\ lifecycle[m] = None
        /\ writer[m].pos = 0
    BY <1>1, <1>2, UnansweredFacts DEF CallOK, WriterFollows
  <1>4. /\ writer' \in [Calls -> WriterStates]
        /\ writer'[m].at = "opening" /\ writer'[m].pos = 0
        /\ \A x \in Calls \ {m} : writer'[x] = writer[x]
    BY <1>1, <1>3 DEF Types, WriterStates
  <1>5. /\ pc' \in [Calls -> Labels] /\ error' \in [Calls -> Optional(Codes)]
        /\ \A x \in Calls \ {m} : pc'[x] = pc[x] /\ error'[x] = error[x]
        /\ \/ pc'[m] = "failed" /\ error'[m] \in Codes
           \/ pc'[m] = "writing" /\ error'[m] = error[m]
    BY <1>1, <1>3, AwaitEffect, LabelsAre
  <1>6. Types' /\ Frame(m)
    BY <1>1, <1>3, <1>4, <1>5 DEF Types, Frame
  <1>7. InFile(m)' = InFile(m) /\ Hints(m)' = Hints(m) /\ opts'[m] = opts[m]
    BY <1>1 DEF InFile, Hints
  <1>8. CASE pc'[m] = "failed" /\ error'[m] \in Codes
    BY <1>1, <1>2, <1>3, <1>4, <1>7, <1>8, <1>6, FailedOK
  <1>9. CASE pc'[m] = "writing" /\ error'[m] = error[m]
    <2>1. plan'[m] = None /\ lifecycle'[m] = None /\ error'[m] = None
      BY <1>1, <1>3, <1>9
    <2>2. Given(m)'
      BY <1>2, <1>3, <1>7, <1>9, LabelsAre DEF Given
    <2>3. WriterFollows(m)'
      BY <1>2, <1>4, <1>7, <1>9, LabelsAre DEF WriterFollows
    <2>4. Answered(m)'
      BY <1>9, <2>1, LabelsAre DEF Answered
    <2> QED BY <1>6, <2>2, <2>3, <2>4 DEF CallOK
  <1> QED BY <1>5, <1>6, <1>8, <1>9

LEMMA FileStepsKeep ==
  ASSUME MInv, NEW m \in Calls, PreparationFails(m) \/ Written(m) \/ Verified(m)
  PROVE  Types' /\ Frame(m) /\ CallOK(m)'
  <1>1. /\ pc[m] \in Waits /\ UNCHANGED <<opts, expired, aborted, writer, file>>
    BY LabelsAre DEF PreparationFails, Written, Verified
  <1>2. /\ pc[m] \notin Returned \cup {"idle"} /\ Acceptable(opts[m]) /\ ValidHints(Hints(m))
        /\ InFile(m)
    BY <1>1, WaitingFacts
  <1>3. "other" \in Codes /\ "ERR_MATERIALIZATION_WRITE_FAILED" \in Codes
    BY DEF Codes
  <1>4. CASE PreparationFails(m)
    BY <1>1, <1>2, <1>3, <1>4, FailsKeeps DEF PreparationFails, returned
  <1>5. CASE Written(m)
    <2>1. UNCHANGED <<lifecycle, plan>> /\ writer[m].at \in {"written", "broken"}
      BY <1>5, LabelsAre DEF Written, returned
    <2>2. CASE writer[m].at = "broken"
      BY <1>1, <1>2, <1>3, <1>5, <2>1, <2>2, FailsKeeps DEF Written
    <2>3. CASE writer[m].at = "written"
      <3>1. Await(m, "verifying") /\ "verifying" \in Waits
        BY <1>5, <2>3, LabelsAre DEF Written
      <3> QED BY <1>1, <1>2, <2>1, <2>3, <3>1, AwaitKeeps
    <2> QED BY <2>1, <2>2, <2>3
  <1>6. CASE Verified(m)
    <2>1. writer[m].at = "written"
      BY <1>6 DEF Verified, MInv, CallOK, WriterFollows
    <2>2. Lifecycle(TRUE, TRUE, TRUE) \in Lifecycles
      BY LifecyclesAre
    <2>3. CASE Return(m, Lifecycle(TRUE, TRUE, TRUE))
      BY <1>1, <1>2, <2>1, <2>2, <2>3, ReturnKeeps
    <2>4. CASE Fail(m, "other") /\ UNCHANGED returned
      BY <1>1, <1>2, <1>3, <2>4, FailsKeeps DEF returned
    <2> QED BY <1>6, <2>3, <2>4 DEF Verified
  <1> QED BY <1>4, <1>5, <1>6

LEMMA ExpireKeeps ==
  ASSUME MInv, NEW m \in Calls, Expire(m)
  PROVE  Types' /\ Frame(m) /\ CallOK(m)'
  <1>1. /\ pc[m] \notin Returned \cup {"idle"}
        /\ UNCHANGED <<opts, aborted, lifecycle, plan, writer, file>>
        /\ expired' = [expired EXCEPT ![m] = TRUE]
        /\ Interrupt(m, "ERR_OPERATION_TIMEOUT", pc[m] \in Waits)
    BY DEF Expire, returned
  <1>2. /\ Types /\ CallOK(m) /\ opts[m] \in Options
        /\ writer[m].at # "none" => Acceptable(opts[m]) /\ InFile(m)
        /\ writer[m].at \in {"none", "opening"} => writer[m].pos = 0
    BY <1>1, UnansweredFacts
  <1>3. "ERR_OPERATION_TIMEOUT" \in Codes
    BY DEF Codes
  <1>4. expired' \in [Calls -> BOOLEAN]
    BY <1>1, <1>2 DEF Types
  <1>5. InFile(m)' = InFile(m) /\ Hints(m)' = Hints(m) /\ opts'[m] = opts[m]
    BY <1>1 DEF InFile, Hints
  <1>6. CASE pc[m] \in Waits
    <2>1. Fail(m, "ERR_OPERATION_TIMEOUT")
      BY <1>1, <1>6 DEF Interrupt, Fail
    <2>2. /\ pc' \in [Calls -> Labels] /\ error' \in [Calls -> Optional(Codes)]
          /\ \A x \in Calls \ {m} : pc'[x] = pc[x] /\ error'[x] = error[x]
          /\ pc'[m] = "failed" /\ error'[m] = "ERR_OPERATION_TIMEOUT"
      BY <1>2, <1>3, <2>1, FailEffect
    <2>3. Types' /\ Frame(m)
      BY <1>1, <1>2, <1>4, <2>2 DEF Types, Frame
    <2>4. CallOK(m)'
      BY <1>1, <1>2, <1>3, <1>5, <2>2, FailedOK
    <2> QED BY <2>3, <2>4
  <1>7. CASE pc[m] \notin Waits
    <2>1. pc' = pc /\ error' = error
      BY <1>1, <1>2, <1>7 DEF Interrupt, Types
    <2>2. Types' /\ Frame(m)
      BY <1>1, <1>2, <1>4, <2>1 DEF Types, Frame
    <2>3. CallOK(m)'
      BY <1>1, <1>2, <1>5, <2>1 DEF CallOK, Given, WriterFollows, Answered
    <2> QED BY <2>2, <2>3
  <1> QED BY <1>6, <1>7

LEMMA AbortKeeps ==
  ASSUME MInv, Abort
  PROVE  Types' /\ \A m \in Calls : CallOK(m)'
  <1>1. UNCHANGED <<opts, expired, lifecycle, plan, writer, file>> /\ aborted' = TRUE
    BY DEF Abort, returned
  <1>2. Types /\ "ERR_OPERATION_ABORTED" \in Codes
    BY DEF MInv, Codes
  <1>3. /\ pc' \in [Calls -> Labels] /\ error' \in [Calls -> Optional(Codes)]
    BY <1>2, LabelsAre DEF Abort, Types, Optional
  <1>4. Types'
    BY <1>1, <1>2, <1>3 DEF Types
  <1>5. ASSUME NEW m \in Calls PROVE CallOK(m)'
    <2>1. InFile(m)' = InFile(m) /\ Hints(m)' = Hints(m)
      BY <1>1 DEF InFile, Hints
    <2>2. CASE Hit(m)
      <3>1. pc[m] \in Waits /\ pc'[m] = "failed" /\ error'[m] = "ERR_OPERATION_ABORTED"
        BY <2>2 DEF Abort, Hit
      <3>2. /\ pc[m] \notin Returned /\ opts[m] \in Options
            /\ writer[m].at # "none" => Acceptable(opts[m]) /\ InFile(m)
            /\ writer[m].at \in {"none", "opening"} => writer[m].pos = 0
        BY <3>1, WaitingFacts, UnansweredFacts
      <3> QED BY <1>1, <1>2, <2>1, <3>1, <3>2, FailedOK
    <2>3. CASE ~Hit(m)
      <3>1. pc'[m] = pc[m] /\ error'[m] = error[m]
        BY <2>3 DEF Abort
      <3> QED BY <1>1, <2>1, <3>1 DEF MInv, CallOK, Given, WriterFollows, Answered
    <2> QED BY <2>2, <2>3
  <1> QED BY <1>4, <1>5

-----------------------------------------------------------------------------
(* The steps of a call and of its fs.writeFile, for types and calls.       *)

LEMMA WriterStepsKeep ==
  ASSUME MInv, NEW m \in Calls, WriterStep(m)
  PROVE  /\ Types' /\ \A x \in Calls : CallOK(x)'
         /\ \A x \in Calls \ {m} : writer'[x] = writer[x]
  <1>1. /\ UNCHANGED <<pc, opts, expired, aborted, error, lifecycle, plan>>
        /\ writer[m].at \in {"opening", "open"}
    BY DEF WriterStep, OpenFile, WriteBlock, BreakOff, returned
  <1>2. /\ Types /\ CallOK(m) /\ Acceptable(opts[m]) /\ InFile(m) /\ opts[m] \in Options
    <2>1. Types /\ CallOK(m) /\ Acceptable(opts[m]) /\ InFile(m) /\ pc[m] # "idle"
      BY <1>1 DEF MInv, CallOK, Given, WriterFollows
    <2> QED BY <2>1 DEF CallOK, Given
  <1>3. /\ opts[m].destination \in Files /\ Payload(m) \in Seq(Bytes)
    BY <1>2, AcceptableCalls, PayloadsAreSequences DEF InFile
  <1>4. /\ writer' \in [Calls -> WriterStates]
        /\ \A x \in Calls \ {m} : writer'[x] = writer[x]
        /\ writer'[m].at \in {"open", "written", "broken"}
    BY <1>1, <1>2, LabelsAre DEF WriterStep, OpenFile, WriteBlock, BreakOff, Types, WriterStates
  <1>5. file' \in [Files -> Optional(Contents)]
    <2>1. CASE OpenFile(m)
      <3>1. file' = [file EXCEPT ![opts[m].destination] = <<>>] /\ <<>> \in Contents
        BY <2>1, EmptySeq DEF OpenFile, Contents
      <3> QED BY <1>2, <3>1 DEF Types, Optional
    <2>2. CASE WriteBlock(m) /\ writer[m].pos + 1 <= Len(Payload(m))
      <3> DEFINE d == opts[m].destination
                 i == writer[m].pos + 1
                 put == PutAt(file[d], i, Payload(m)[i])
      <3>1. file' = [file EXCEPT ![d] = put] /\ writer[m].at = "open"
        BY <2>2 DEF WriteBlock
      <3>2. file[d] \in Contents
        BY <3>1 DEF MInv, PrefixWritten
      <3>3. i \in Nat \ {0} /\ i <= Len(Payload(m))
        BY <1>2, <2>2 DEF Types, WriterStates
      <3>4. Payload(m)[i] \in Bytes \cup {Hole}
        BY <1>3, <3>3, LenProperties, ElementOfSeq
      <3>5. put \in Contents
        BY <3>2, <3>3, <3>4, PutAtProperties
      <3> HIDE DEF put, d
      <3> QED BY <1>2, <3>1, <3>5 DEF Types, Optional
    <2>3. CASE UNCHANGED file
      BY <1>2, <2>3 DEF Types
    <2> QED BY <2>1, <2>2, <2>3 DEF WriterStep, WriteBlock, BreakOff
  <1>6. Types'
    BY <1>1, <1>2, <1>4, <1>5 DEF Types
  <1>7. ASSUME NEW x \in Calls PROVE CallOK(x)'
    <2>1. CallOK(x) /\ InFile(x)' = InFile(x) /\ Hints(x)' = Hints(x)
      BY <1>1 DEF MInv, InFile, Hints
    <2>2. CASE x = m
      <3>1. pc[m] \notin {"idle", "loading", "preparing", "verifying", "done"}
        BY <1>1, <1>2 DEF CallOK, WriterFollows
      <3> QED BY <1>1, <1>2, <1>4, <2>1, <2>2, <3>1, LabelsAre
              DEF CallOK, Given, WriterFollows, Answered
    <2>3. CASE x # m
      BY <1>1, <1>4, <2>1, <2>3 DEF CallOK, Given, WriterFollows, Answered
    <2> QED BY <2>2, <2>3
  <1> QED BY <1>4, <1>6, <1>7

-----------------------------------------------------------------------------
(* The files.                                                              *)

\* A call that writes goes on writing, to the file it named.
WritersStay == \A x \in Calls : writer[x].at # "none" =>
                                    writer'[x].at # "none" /\ opts'[x] = opts[x]

LEMMA WritersGrow ==
  ASSUME WritersStay, NEW d PROVE Writers(d) \subseteq Writers(d)'
  BY DEF WritersStay, Writers

\* What a call has written stays, as long as its file and its writer do.
LEMMA PrefixKept ==
  ASSUME MInv, WritersStay, NEW m \in Calls, writer'[m] = writer[m],
         writer[m].at # "none" => file'[opts[m].destination] = file[opts[m].destination]
  PROVE  PrefixWritten(m)'
  <1> SUFFICES ASSUME writer[m].at \in {"open", "written"} PROVE PrefixWritten(m)'
    BY DEF PrefixWritten
  <1>0. PICK d : d = opts[m].destination
    OBVIOUS
  <1>1. PrefixWritten(m) /\ opts'[m] = opts[m] /\ file'[d] = file[d]
    BY <1>0 DEF MInv, WritersStay
  <1>2. Payload(m)' = Payload(m)
    BY <1>1 DEF Payload
  <1>3. Writers(d)' = {m} => Writers(d) = {m}
    <2>1. m \in Writers(d)
      BY <1>0 DEF Writers
    <2> QED BY <2>1, WritersGrow
  <1> QED BY <1>0, <1>1, <1>2, <1>3 DEF PrefixWritten

\* What another call writes to the same file is no less a file.
LEMMA SharedFile ==
  ASSUME MInv, WritersStay, NEW m \in Calls, NEW n \in Calls, m # n,
         writer'[m] = writer[m], writer[n].at # "none",
         opts[m].destination = opts[n].destination, file'[opts[n].destination] \in Contents
  PROVE  PrefixWritten(m)'
  <1> SUFFICES ASSUME writer[m].at \in {"open", "written"} PROVE PrefixWritten(m)'
    BY DEF PrefixWritten
  <1>1. opts'[m] = opts[m] /\ file'[opts[m].destination] \in Contents
    BY DEF WritersStay
  <1>2. n \in Writers(opts[m].destination)
    BY DEF Writers
  <1>3. n \in Writers(opts[m].destination)'
    BY <1>1, <1>2, WritersGrow
  <1> QED BY <1>1, <1>3 DEF PrefixWritten

\* The file a call has just opened is empty.
LEMMA OpenKeepsPrefix ==
  ASSUME MInv, NEW n \in Calls, OpenFile(n), Types', NEW m \in Calls
  PROVE  PrefixWritten(m)'
  <1> DEFINE d == opts[n].destination
  <1>1. /\ writer[n].at = "opening" /\ UNCHANGED opts
        /\ writer' = [writer EXCEPT ![n].at = "open"] /\ file' = [file EXCEPT ![d] = <<>>]
        /\ Types
    BY DEF OpenFile, MInv
  <1>2. /\ Acceptable(opts[n]) /\ InFile(n) /\ opts[n] \in Options /\ writer[n].pos = 0
    BY <1>1 DEF MInv, CallOK, Given, WriterFollows
  <1>3. d \in Files /\ Payload(n) \in Contents
    BY <1>2, AcceptableCalls, PayloadsAreSequences DEF InFile
  <1>4. /\ writer'[n].at = "open" /\ writer'[n].pos = 0
        /\ \A x \in Calls \ {n} : writer'[x] = writer[x]
    BY <1>1, <1>2 DEF Types, WriterStates
  <1>5. /\ file'[d] = <<>> /\ <<>> \in Contents /\ Len(<<>>) = 0
        /\ \A g \in Files \ {d} : file'[g] = file[g]
    BY <1>1, <1>3, EmptySeq DEF Types, Contents
  <1>6. WritersStay
    BY <1>1, <1>4 DEF WritersStay
  <1>7. CASE m = n
    <2>1. Payload(n)' = Payload(n) /\ Len(Payload(n)) \in Nat
      BY <1>1, <1>3, LenProperties DEF Payload, Contents
    <2> QED BY <1>1, <1>4, <1>5, <1>7, <2>1 DEF PrefixWritten
  <1>8. CASE m # n /\ opts[m].destination = d
    BY <1>1, <1>4, <1>5, <1>6, <1>8, SharedFile
  <1>9. CASE m # n /\ opts[m].destination # d
    <2>1. writer[m].at # "none" => opts[m].destination \in Files
      <3> SUFFICES ASSUME writer[m].at # "none" PROVE opts[m].destination \in Files
        OBVIOUS
      <3>1. opts[m] \in Options /\ Acceptable(opts[m]) /\ InFile(m)
        BY DEF MInv, CallOK, Given, WriterFollows
      <3> QED BY <3>1, AcceptableCalls DEF InFile
    <2> QED BY <1>4, <1>5, <1>6, <1>9, <2>1, PrefixKept
  <1> QED BY <1>7, <1>8, <1>9

\* A block is put after the ones before it; after the last the file is whole.
LEMMA WriteKeepsPrefix ==
  ASSUME MInv, NEW n \in Calls, WriteBlock(n), Types', NEW m \in Calls
  PROVE  PrefixWritten(m)'
  <1>0. PICK d : d = opts[n].destination
    OBVIOUS
  <1> DEFINE i == writer[n].pos + 1
             put == PutAt(file[d], i, Payload(n)[i])
  <1>1. /\ writer[n].at = "open" /\ UNCHANGED opts /\ Types /\ PrefixWritten(n)
        /\ \/ /\ i <= Len(Payload(n)) /\ file' = [file EXCEPT ![d] = put]
              /\ writer' = [writer EXCEPT ![n].pos = i]
           \/ /\ ~(i <= Len(Payload(n))) /\ file' = file
              /\ writer' = [writer EXCEPT ![n].at = "written"]
    BY <1>0 DEF WriteBlock, MInv
  <1>2. /\ Acceptable(opts[n]) /\ InFile(n) /\ opts[n] \in Options
    BY <1>1 DEF MInv, CallOK, Given, WriterFollows
  <1>3. d \in Files /\ Payload(n) \in Contents /\ Payload(n)' = Payload(n)
    BY <1>0, <1>1, <1>2, AcceptableCalls, PayloadsAreSequences DEF InFile, Payload
  <1>4. /\ file[d] \in Contents /\ Len(file[d]) \in Nat /\ Len(Payload(n)) \in Nat
        /\ writer[n].pos \in Nat /\ i \in Nat \ {0}
    BY <1>0, <1>1, <1>3, LenProperties DEF PrefixWritten, Types, WriterStates, Contents
  <1>5. /\ \A x \in Calls \ {n} : writer'[x] = writer[x]
        /\ writer'[n].at \in {"open", "written"}
    BY <1>1 DEF Types, WriterStates
  <1>6. WritersStay
    BY <1>1, <1>5 DEF WritersStay
  <1>7. Writers(d)' = {n} => Writers(d) = {n}
    <2>1. n \in Writers(d)
      BY <1>0, <1>1 DEF Writers
    <2> QED BY <1>6, <2>1, WritersGrow
  <1>8. CASE i <= Len(Payload(n))
    <2>1. /\ writer'[n].at = "open" /\ writer'[n].pos = i
          /\ file'[d] = put /\ \A g \in Files \ {d} : file'[g] = file[g]
      BY <1>1, <1>3, <1>8 DEF Types, WriterStates
    <2>2. Payload(n)[i] \in Bytes \cup {Hole}
      BY <1>3, <1>4, <1>8, ElementOfSeq DEF Contents
    <2>3. /\ put \in Contents
          /\ Len(put) = IF Len(file[d]) < i THEN i ELSE Len(file[d])
          /\ \A j \in 1..Len(file[d]) : j # i => put[j] = file[d][j]
          /\ put[i] = Payload(n)[i]
      BY <1>4, <2>2, PutAtProperties
    <2>4. CASE m = n
      <3>1. ASSUME Writers(d)' = {n}
            PROVE  Len(put) = i /\ \A j \in 1..i : put[j] = Payload(n)[j]
        <4>1. /\ Len(file[d]) = writer[n].pos
              /\ \A j \in 1..writer[n].pos : file[d][j] = Payload(n)[j]
          BY <1>0, <1>1, <1>7, <3>1 DEF PrefixWritten
        <4> HIDE DEF put
        <4>2. Len(put) = i
          BY <1>4, <2>3, <4>1
        <4>3. ASSUME NEW j \in 1..i PROVE put[j] = Payload(n)[j]
          <5>1. CASE j = i
            BY <2>3, <5>1
          <5>2. CASE j # i
            <6>1. j \in 1..writer[n].pos
              BY <1>4, <5>2
            <6> QED BY <2>3, <4>1, <5>2, <6>1
          <5> QED BY <5>1, <5>2
        <4> QED BY <4>2, <4>3
      <3> HIDE DEF put
      <3> QED BY <1>0, <1>1, <1>3, <1>8, <2>1, <2>3, <2>4, <3>1 DEF PrefixWritten
    <2>5. CASE m # n /\ opts[m].destination = d
      BY <1>0, <1>1, <1>5, <1>6, <2>1, <2>3, <2>5, SharedFile
    <2>6. CASE m # n /\ opts[m].destination # d
      <3>1. writer[m].at # "none" => opts[m].destination \in Files
        <4> SUFFICES ASSUME writer[m].at # "none" PROVE opts[m].destination \in Files
          OBVIOUS
        <4>1. opts[m] \in Options /\ Acceptable(opts[m]) /\ InFile(m)
          BY DEF MInv, CallOK, Given, WriterFollows
        <4> QED BY <4>1, AcceptableCalls DEF InFile
      <3> QED BY <1>5, <1>6, <2>1, <2>6, <3>1, PrefixKept
    <2> QED BY <2>4, <2>5, <2>6
  <1>9. CASE ~(i <= Len(Payload(n)))
    <2>1. writer'[n].at = "written" /\ file' = file
      BY <1>1, <1>9 DEF Types, WriterStates
    <2>2. CASE m = n
      <3>1. ASSUME Writers(d)' = {n} PROVE file[d] = Payload(n)
        <4>1. /\ Len(file[d]) = writer[n].pos /\ writer[n].pos <= Len(Payload(n))
              /\ \A j \in 1..writer[n].pos : file[d][j] = Payload(n)[j]
          BY <1>0, <1>1, <1>7, <3>1 DEF PrefixWritten
        <4>2. Len(file[d]) = Len(Payload(n))
          BY <1>4, <1>9, <4>1
        <4> QED BY <1>3, <1>4, <4>1, <4>2, SeqEqual DEF Contents
      <3> QED BY <1>0, <1>1, <1>3, <1>4, <2>1, <2>2, <3>1 DEF PrefixWritten
    <2>3. CASE m # n
      BY <1>5, <1>6, <2>1, <2>3, PrefixKept
    <2> QED BY <2>2, <2>3
  <1> QED BY <1>8, <1>9

-----------------------------------------------------------------------------
LEMMA BreakKeepsPrefix ==
  ASSUME MInv, NEW n \in Calls, BreakOff(n), NEW m \in Calls
  PROVE  PrefixWritten(m)'
  <1>1. /\ Types /\ UNCHANGED <<opts, file>> /\ writer[n].at \in {"opening", "open"}
        /\ writer' = [writer EXCEPT ![n].at = "broken"]
    BY DEF BreakOff, MInv
  <1>2. /\ writer'[n].at = "broken" /\ \A x \in Calls \ {n} : writer'[x] = writer[x]
    BY <1>1 DEF Types, WriterStates
  <1>3. WritersStay
    BY <1>1, <1>2 DEF WritersStay
  <1>4. CASE m = n
    BY <1>2, <1>4 DEF PrefixWritten
  <1>5. CASE m # n
    BY <1>1, <1>2, <1>3, <1>5, PrefixKept
  <1> QED BY <1>4, <1>5

\* A step of a call starts a writer at most, and only Prepared does.
LEMMA ActsKeep ==
  ASSUME MInv, NEW n \in Calls,
         Materialize(n) \/ LoadFails(n) \/ Expire(n) \/ CallStep(n)
  PROVE  MInv'
  <1>1. Types' /\ Frame(n) /\ CallOK(n)'
    BY MaterializeKeeps, LoadKeeps, ExpireKeeps, PreparedKeeps, FileStepsKeep DEF CallStep
  <1>2. \A x \in Calls : CallOK(x)'
    BY <1>1, OthersStayOK
  <1>3. Types /\ WriterFollows(n) /\ file' = file
    BY <1>1 DEF MInv, CallOK, Frame
  <1>4. \/ writer'[n] = writer[n]
        \/ writer[n].at = "none" /\ writer'[n].at = "opening"
    <2>1. CASE Prepared(n)
      BY <1>3, <2>1 DEF Prepared, WriterFollows, Types, WriterStates
    <2>2. CASE ~Prepared(n)
      BY <2>2 DEF CallStep, Materialize, LoadFails, Expire, Loaded, PreparationFails,
                  Written, Verified
    <2> QED BY <2>1, <2>2
  <1>5. writer[n].at # "none" => opts'[n] = opts[n]
    BY <1>3 DEF WriterFollows, CallStep, Materialize, LoadFails, Expire, Loaded, Prepared,
                PreparationFails, Written, Verified
  <1>6. WritersStay
    BY <1>1, <1>4, <1>5 DEF WritersStay, Frame
  <1>7. ASSUME NEW m \in Calls PROVE PrefixWritten(m)'
    <2>1. CASE writer'[m] = writer[m]
      BY <1>3, <1>6, <2>1, PrefixKept
    <2>2. CASE writer'[m].at = "opening"
      BY <2>2 DEF PrefixWritten
    <2> QED BY <1>1, <1>4, <2>1, <2>2 DEF Frame
  <1> QED BY <1>1, <1>2, <1>7 DEF MInv

LEMMA NextKeepsMInv == MInv /\ [MNext]_mvars => MInv'
  <1> SUFFICES ASSUME MInv, [MNext]_mvars PROVE MInv'
    OBVIOUS
  <1>1. ASSUME NEW n \in Calls,
               Materialize(n) \/ LoadFails(n) \/ Expire(n) \/ CallStep(n)
        PROVE  MInv'
    BY <1>1, ActsKeep
  <1>2. ASSUME NEW n \in Calls, WriterStep(n) PROVE MInv'
    <2>1. Types' /\ \A x \in Calls : CallOK(x)'
      BY <1>2, WriterStepsKeep
    <2>2. \A m \in Calls : PrefixWritten(m)'
      BY <1>2, <2>1, OpenKeepsPrefix, WriteKeepsPrefix, BreakKeepsPrefix DEF WriterStep
    <2> QED BY <2>1, <2>2 DEF MInv
  <1>3. CASE Abort
    <2>1. Types' /\ \A m \in Calls : CallOK(m)'
      BY <1>3, AbortKeeps
    <2>2. UNCHANGED <<opts, writer, file>>
      BY <1>3 DEF Abort
    <2>3. WritersStay
      BY <2>2 DEF WritersStay
    <2>4. \A m \in Calls : PrefixWritten(m)'
      BY <2>2, <2>3, PrefixKept
    <2> QED BY <2>1, <2>4 DEF MInv
  <1>4. CASE UNCHANGED mvars
    <2>1. UNCHANGED <<pc, opts, expired, aborted, error, lifecycle, plan, writer, file>>
      BY <1>4 DEF mvars, returned
    <2>2. Types'
      BY <2>1 DEF MInv, Types
    <2>3. \A m \in Calls : CallOK(m)'
      BY <2>1 DEF MInv, CallOK, Given, WriterFollows, Answered, Hints, InFile
    <2>4. WritersStay
      BY <2>1 DEF WritersStay
    <2>5. \A m \in Calls : PrefixWritten(m)'
      BY <2>1, <2>4, PrefixKept
    <2> QED BY <2>2, <2>3, <2>5 DEF MInv
  <1> QED BY <1>1, <1>2, <1>3, <1>4 DEF MNext

LEMMA MInvAlways == MSpec => []MInv
  <1>1. MInit => MInv
    BY InitEstablishesMInv
  <1>2. MInv /\ [MNext]_mvars => MInv'
    BY NextKeepsMInv
  <1> QED BY <1>1, <1>2, PTL DEF MSpec

-----------------------------------------------------------------------------
\* Every reachable state of the materializations is well typed, and a call
\* has a plan exactly when it returned and a code exactly when it rejected.
THEOREM TypeCorrect == MSpec => []MTypeOK
  <1>1. MInv => MTypeOK
    <2> SUFFICES ASSUME MInv PROVE MTypeOK
      OBVIOUS
    <2>1. Types
      BY DEF MInv
    <2>2. \A m \in Calls : /\ (error[m] # None) = (pc[m] = "failed")
                           /\ (plan[m] # None) = (pc[m] = "done")
                           /\ lifecycle[m] # None => pc[m] = "done"
      BY DEF MInv, CallOK, Answered
    <2> QED BY <2>1, <2>2, Zenon DEF Types, MTypeOK, Labels, WriterStates, Contents
  <1> QED BY <1>1, MInvAlways, PTL

\* A file materialization that returned left the whole object at its
\* destination and there it stays, however many calls fail, are interrupted
\* or write elsewhere, as long as no other call writes to that file.
THEOREM FilesAreWhole == MSpec => []SoleWriterIsWhole
  <1>1. MInv => SoleWriterIsWhole
    <2> SUFFICES ASSUME MInv, NEW m \in Calls, pc[m] = "done", InFile(m),
                        Writers(opts[m].destination) = {m}
                 PROVE  file[opts[m].destination] = Payload(m)
      BY DEF SoleWriterIsWhole
    <2>1. writer[m].at = "written"
      BY DEF MInv, CallOK, WriterFollows
    <2> QED BY <2>1 DEF MInv, PrefixWritten
  <1> QED BY <1>1, MInvAlways, PTL

\* The plan a materialization returns names the mode that was carried out,
\* and the mode asked for if there was one, whatever the descriptor prefers.
THEOREM PlansTellWhatWasDone == MSpec => []PlanTellsWhatWasDone
  <1>1. MInv => PlanTellsWhatWasDone
    <2> SUFFICES ASSUME MInv, NEW m \in Calls, pc[m] = "done"
                 PROVE  /\ (plan[m].mode = "stream") = (writer[m].at = "none")
                        /\ opts[m].request.mode # None => plan[m].mode = opts[m].request.mode
      BY DEF PlanTellsWhatWasDone
    <2>1. /\ opts[m] \in Options /\ Acceptable(opts[m]) /\ ValidHints(Hints(m))
          /\ plan[m] = Plan(Hints(m), Effective(opts[m]))
          /\ writer[m].at = IF InFile(m) THEN "written" ELSE "none"
      BY LabelsAre DEF MInv, CallOK, Given, WriterFollows, Answered
    <2>2. plan[m].mode = RequestedMode(opts[m])
      BY <2>1, PlansResolve
    <2> QED BY <2>1, <2>2 DEF InFile, RequestedMode, Or
  <1> QED BY <1>1, MInvAlways, PTL

\* What a step may refuse: a call that has started is never refused for its
\* arguments, its descriptor or its plan.
NoneRefusedLate == \A m \in Calls : pc[m] # "idle" /\ error'[m] = "refused" => error[m] = "refused"

LEMMA StepRefusesInTime ==
  ASSUME MInv, [MNext]_mvars, NEW m \in Calls, pc[m] # "idle", error'[m] = "refused"
  PROVE  error[m] = "refused"
  <1> USE DEF Fail
  <1>1. Types
    BY DEF MInv
  <1>2. ASSUME NEW code \in Codes, code # "refused", NEW n \in Calls, Fail(n, code)
        PROVE  error[m] = "refused"
    BY <1>1, <1>2 DEF Types
  <1>3. ASSUME NEW n \in Calls, NEW label \in Waits, Await(n, label) PROVE error[m] = "refused"
    BY <1>1, <1>3, AwaitEffect
  <1>4. ASSUME NEW n \in Calls, NEW snapshot, Return(n, snapshot),
               pc[n] = "loading" \/ pc[n] \in Waits, ValidHints(Hints(n))
        PROVE  error[m] = "refused"
    <2>1. opts[n] \in Options /\ Acceptable(opts[n])
      BY <1>4, LabelsAre DEF MInv, CallOK, Given
    <2> QED BY <1>4, <2>1, ReturnSucceeds
  <1>5. /\ {"load", "other", "ERR_OPERATION_ABORTED", "ERR_OPERATION_TIMEOUT",
            "ERR_MATERIALIZATION_WRITE_FAILED"} \subseteq Codes
        /\ \A n \in Calls : InterruptCode(n) \in Codes /\ InterruptCode(n) # "refused"
        /\ {"preparing", "writing", "verifying"} \subseteq Waits
    BY LabelsAre DEF Codes, InterruptCode
  <1>6. ASSUME NEW n \in Calls, Materialize(n) PROVE error[m] = "refused"
    <2>1. n # m
      BY <1>6 DEF Materialize
    <2> QED BY <1>6, <2>1, MaterializeKeeps DEF Frame
  <1>7. ASSUME NEW n \in Calls, LoadFails(n) PROVE error[m] = "refused"
    BY <1>2, <1>5, <1>7 DEF LoadFails
  <1>8. ASSUME NEW n \in Calls, Loaded(n) PROVE error[m] = "refused"
    BY <1>3, <1>4, <1>5, <1>8 DEF Loaded
  <1>9. ASSUME NEW n \in Calls, Prepared(n) \/ PreparationFails(n) PROVE error[m] = "refused"
    BY <1>2, <1>3, <1>5, <1>9 DEF Prepared, PreparationFails
  <1>10. ASSUME NEW n \in Calls, Written(n) PROVE error[m] = "refused"
    BY <1>2, <1>3, <1>5, <1>10 DEF Written
  <1>11. ASSUME NEW n \in Calls, Verified(n) PROVE error[m] = "refused"
    <2>1. pc[n] \in Waits /\ ValidHints(Hints(n))
      BY <1>11, WaitingFacts, <1>5 DEF Verified
    <2> QED BY <1>2, <1>4, <1>5, <1>11, <2>1 DEF Verified
  <1>12. ASSUME NEW n \in Calls, Expire(n) PROVE error[m] = "refused"
    BY <1>1, <1>12 DEF Expire, Interrupt, Types
  <1>13. CASE Abort
    BY <1>13 DEF Abort
  <1>14. ASSUME NEW n \in Calls, WriterStep(n) PROVE error[m] = "refused"
    BY <1>14 DEF WriterStep, OpenFile, WriteBlock, BreakOff
  <1>15. CASE UNCHANGED mvars
    BY <1>15 DEF mvars
  <1> QED BY <1>6, <1>7, <1>8, <1>9, <1>10, <1>11, <1>12, <1>13, <1>14, <1>15
          DEF MNext, CallStep

\* Once its object is loaded a call is not refused: no file is left behind,
\* and no stream is lost, for a plan that is resolved only at the end.
THEOREM RefusalsAreEarly == MSpec => PlanResolvesOnceLoaded
  <1>1. MInv /\ [MNext]_mvars => [NoneRefusedLate]_mvars
    BY StepRefusesInTime DEF NoneRefusedLate
  <1>2. [][NoneRefusedLate]_mvars => PlanResolvesOnceLoaded
    BY PTL DEF PlanResolvesOnceLoaded, NoneRefusedLate
  <1> QED BY <1>1, <1>2, MInvAlways, PTL DEF MSpec
=============================================================================
