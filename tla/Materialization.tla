--------------------------- MODULE Materialization ---------------------------
(***************************************************************************)
(* materializeImmutableObject (src/materialization/index.js): loading an   *)
(* object and, in the modes cache and mirror, writing it to a file the     *)
(* consumer names.  Several calls may name the same file, and a write goes *)
(* on after the call that started it was interrupted: nothing cancels it.  *)
(*                                                                         *)
(* Each await is a program counter value; those on the file system go      *)
(* through the operation scope, whose argument is evaluated, and so the    *)
(* file operation started, before the scope can refuse.  Loading is        *)
(* ObjectRead, or a fetch, under a scope of its own.                       *)
(*                                                                         *)
(* External: fs.writeFile opens and truncates the file, then writes block  *)
(* after block at its own position; it fails anywhere on the way.          *)
(***************************************************************************)
EXTENDS ObjectLayout, MaterializationPlan

CONSTANTS Calls,     \* the calls to materializeImmutableObject
          Files,     \* the destinations
          Objects,   \* the object of each key: its payload blocks and the hints
                     \* of its descriptor block, which anyone may have written
          Options,   \* the options of a call: a reference, a request, a
                     \* destination, a signal, a timeout
          Bytes,     \* the blocks a payload is written in
          Hole       \* what a file holds where nothing was written

\* What a call rejects with: the library's codes, and the plain errors of a
\* validator, of the load and of the rest.
Codes == {"refused", "load", "other", "ERR_OPERATION_ABORTED", "ERR_OPERATION_TIMEOUT",
          "ERR_MATERIALIZATION_WRITE_FAILED"}

\* undefined is none of the values it is told apart from.
ASSUME NoneAssumption ==
    /\ None \notin Options /\ None \notin Lifecycles
    /\ None \notin Files /\ None \notin Modes /\ None \notin Codes
    /\ \A k \in Keys, o \in Options : Plan(Objects[k].hints, Effective(o)) # None

ASSUME MaterializationAssumption ==
    /\ \A k \in Keys : Objects[k].payload \in Seq(Bytes)
    /\ \A o \in Options :
          LET q == o.request IN
          /\ o.destination \in Optional(Files) /\ o.signal \in BOOLEAN /\ o.timed \in BOOLEAN
          /\ q = [reference |-> q.reference, targetClass |-> q.targetClass, mode |-> q.mode,
                  filenameOverride |-> q.filenameOverride]

VARIABLES pc,         \* where each call stands
          opts,       \* its options
          expired,    \* its deadline has passed
          aborted,    \* the signal, shared by the calls, has fired
          error,      \* the code it rejected with
          lifecycle,  \* the lifecycle it returned
          plan,       \* the plan it returned
          writer,     \* its fs.writeFile: [at, pos]
          file        \* the destinations' contents, None without a file

returned == <<lifecycle, plan>>
mvars == <<pc, opts, expired, aborted, error, returned, writer, file>>

Waits == {"preparing", "writing", "verifying"}
Returned == {"done", "failed"}
WriterEnds == {"written", "broken"}

MInit == /\ pc = [m \in Calls |-> "idle"]
         /\ opts = [m \in Calls |-> None]
         /\ expired = [m \in Calls |-> FALSE]
         /\ aborted = FALSE
         /\ error = [m \in Calls |-> None]
         /\ lifecycle = [m \in Calls |-> None]
         /\ plan = [m \in Calls |-> None]
         /\ writer = [m \in Calls |-> [at |-> "none", pos |-> 0]]
         /\ file = [f \in Files |-> None]

Signalled(m) == opts[m].signal /\ aborted
Interrupted(m) == Signalled(m) \/ expired[m]
InterruptCode(m) == IF Signalled(m) THEN "ERR_OPERATION_ABORTED" ELSE "ERR_OPERATION_TIMEOUT"

Fail(m, code) == /\ pc' = [pc EXCEPT ![m] = "failed"]
                 /\ error' = [error EXCEPT ![m] = code]

\* scope.waitFor: wait at label, unless refused on entry.
Await(m, label) == IF Interrupted(m) THEN Fail(m, InterruptCode(m))
                   ELSE pc' = [pc EXCEPT ![m] = label] /\ UNCHANGED error

Payload(m) == Objects[opts[m].reference.key].payload
Hints(m) == Objects[opts[m].reference.key].hints
InFile(m) == RequestedMode(opts[m]) # "stream"

\* The plan is resolved, and the call returns with it and the lifecycle.
Return(m, snapshot) ==
    LET p == Plan(Hints(m), Effective(opts[m])) IN
    IF ValidHints(Hints(m)) /\ ValidRequest(Effective(opts[m])) /\ ValidPlan(p)
    THEN /\ pc' = [pc EXCEPT ![m] = "done"]
         /\ lifecycle' = [lifecycle EXCEPT ![m] = snapshot]
         /\ plan' = [plan EXCEPT ![m] = p]
         /\ UNCHANGED error
    ELSE Fail(m, "refused") /\ UNCHANGED returned

\* Mutant: what the call was given is not looked at before it is used.
MaterializeAnyhow(m) ==
    /\ pc[m] = "idle"
    /\ \E o \in Options : opts' = [opts EXCEPT ![m] = o]
    /\ error' = [error EXCEPT ![m] = IF Acceptable(opts'[m]) THEN @ ELSE "refused"]
    /\ pc' = [pc EXCEPT ![m] = "loading"]
    /\ UNCHANGED <<expired, aborted, returned, writer, file>>

\* The reference and the request are validated; a file mode needs a
\* destination.
Materialize(m) ==
    /\ pc[m] = "idle"
    /\ \E o \in Options :
          /\ opts' = [opts EXCEPT ![m] = o]
          /\ IF Acceptable(o) THEN pc' = [pc EXCEPT ![m] = "loading"] /\ UNCHANGED error
             ELSE Fail(m, "refused")
    /\ UNCHANGED <<expired, aborted, returned, writer, file>>

\* The object is loaded, if its descriptor decodes, even when the signal or
\* the deadline has struck since the last await of the load.  A stream is
\* handed out as it is; a file mode starts mkdir, whose effect no later step
\* depends on.
Loaded(m) ==
    /\ pc[m] = "loading"
    /\ ValidHints(Hints(m))
    /\ IF InFile(m) THEN Await(m, "preparing") /\ UNCHANGED returned
       ELSE \E complete \in BOOLEAN : Return(m, Lifecycle(complete, FALSE, FALSE))
    /\ UNCHANGED <<opts, expired, aborted, writer, file>>

\* The load rejects, for want of the object or because it was interrupted.
LoadFails(m) ==
    /\ pc[m] = "loading"
    /\ Fail(m, "load") \/ (Interrupted(m) /\ Fail(m, InterruptCode(m)))
    /\ UNCHANGED <<opts, expired, aborted, returned, writer, file>>

\* mkdir resolves: fs.writeFile is called, then awaited if the scope lets it.
Prepared(m) ==
    /\ pc[m] = "preparing"
    /\ writer' = [writer EXCEPT ![m].at = "opening"]
    /\ Await(m, "writing")
    /\ UNCHANGED <<opts, expired, aborted, returned, file>>

\* mkdir rejects, outside the try that gives write failures their code.
PreparationFails(m) ==
    /\ pc[m] = "preparing"
    /\ Fail(m, "other")
    /\ UNCHANGED <<opts, expired, aborted, returned, writer, file>>

\* Mutant: the write is started and not awaited, nor is its size looked at.
WrittenTooEarly(m) ==
    /\ pc[m] = "writing"
    /\ Return(m, Lifecycle(TRUE, TRUE, TRUE))
    /\ UNCHANGED <<opts, expired, aborted, writer, file>>

\* fs.writeFile has settled: a failure gets the materialization's code.
Written(m) ==
    /\ pc[m] = "writing" /\ writer[m].at \in WriterEnds
    /\ IF writer[m].at = "broken" THEN Fail(m, "ERR_MATERIALIZATION_WRITE_FAILED")
                                  ELSE Await(m, "verifying")
    /\ UNCHANGED <<opts, expired, aborted, returned, writer, file>>

\* stat settles: only the size is compared, and a stat that rejects ends the
\* call as a size that does not match does.
Verified(m) ==
    /\ pc[m] = "verifying"
    /\ \/ Len(file[opts[m].destination]) = Len(Payload(m)) /\ Return(m, Lifecycle(TRUE, TRUE, TRUE))
       \/ Fail(m, "other") /\ UNCHANGED returned
    /\ UNCHANGED <<opts, expired, aborted, writer, file>>

\* Mutant: onTimeout and onAbort are awaited before the call rejects.
InterruptWaitsForWriter(m, code, hit) ==
    /\ pc' = [pc EXCEPT ![m] = IF hit /\ writer[m].at \notin {"opening", "open"} THEN "failed" ELSE @]
    /\ error' = [error EXCEPT ![m] = IF hit THEN code ELSE @]

\* What an interrupt does to a call that waits on the scope.
Interrupt(m, code, hit) ==
    /\ pc' = [pc EXCEPT ![m] = IF hit THEN "failed" ELSE @]
    /\ error' = [error EXCEPT ![m] = IF hit THEN code ELSE @]

Expire(m) ==
    /\ pc[m] \notin {"idle"} \cup Returned /\ opts[m].timed /\ ~expired[m]
    /\ expired' = [expired EXCEPT ![m] = TRUE]
    /\ Interrupt(m, "ERR_OPERATION_TIMEOUT", pc[m] \in Waits)
    /\ UNCHANGED <<opts, aborted, returned, writer, file>>

Hit(m) == pc[m] \in Waits /\ opts[m].signal

Abort ==
    /\ ~aborted
    /\ aborted' = TRUE
    /\ pc' = [m \in Calls |-> IF Hit(m) THEN "failed" ELSE pc[m]]
    /\ error' = [m \in Calls |-> IF Hit(m) THEN "ERR_OPERATION_ABORTED" ELSE error[m]]
    /\ UNCHANGED <<opts, expired, returned, writer, file>>
-----------------------------------------------------------------------------
(* fs.writeFile, which runs on whatever becomes of its call.               *)
OpenFile(m) ==
    /\ writer[m].at = "opening"
    /\ writer' = [writer EXCEPT ![m].at = "open"]
    /\ file' = [file EXCEPT ![opts[m].destination] = <<>>]
    /\ UNCHANGED <<pc, opts, expired, aborted, error, returned>>

PutAt(f, i, b) == [j \in 1..(IF Len(f) < i THEN i ELSE Len(f)) |->
                      IF j = i THEN b ELSE IF j <= Len(f) THEN f[j] ELSE Hole]

WriteBlock(m) ==
    LET i == writer[m].pos + 1
        dest == opts[m].destination IN
    /\ writer[m].at = "open"
    /\ IF i <= Len(Payload(m))
       THEN /\ file' = [file EXCEPT ![dest] = PutAt(@, i, Payload(m)[i])]
            /\ writer' = [writer EXCEPT ![m].pos = i]
       ELSE /\ writer' = [writer EXCEPT ![m].at = "written"]
            /\ UNCHANGED file
    /\ UNCHANGED <<pc, opts, expired, aborted, error, returned>>

BreakOff(m) == /\ writer[m].at \in {"opening", "open"}
               /\ writer' = [writer EXCEPT ![m].at = "broken"]
               /\ UNCHANGED <<pc, opts, expired, aborted, error, returned, file>>

CallStep(m) == Loaded(m) \/ Prepared(m) \/ PreparationFails(m) \/ Written(m) \/ Verified(m)
WriterStep(m) == OpenFile(m) \/ WriteBlock(m) \/ BreakOff(m)

MNext == \/ Abort
         \/ \E m \in Calls : \/ Materialize(m) \/ LoadFails(m) \/ Expire(m)
                             \/ CallStep(m) \/ WriterStep(m)

MSpec == MInit /\ [][MNext]_mvars

\* The timer fires and the event loop runs; a load that was interrupted ends,
\* as ObjectRead has it.  The file system need not answer.
MFairSpec ==
    /\ MSpec
    /\ \A m \in Calls :
          /\ WF_mvars(Expire(m)) /\ WF_mvars(Written(m))
          /\ WF_mvars(pc[m] = "loading" /\ Interrupted(m) /\ (Loaded(m) \/ LoadFails(m)))
-----------------------------------------------------------------------------
MTypeOK ==
    /\ pc \in [Calls -> {"idle", "loading"} \cup Waits \cup Returned]
    /\ opts \in [Calls -> Optional(Options)]
    /\ expired \in [Calls -> BOOLEAN] /\ aborted \in BOOLEAN
    /\ error \in [Calls -> Optional(Codes)]
    /\ lifecycle \in [Calls -> Optional(Lifecycles)]
    /\ writer \in [Calls -> [at : {"none", "opening", "open"} \cup WriterEnds, pos : Nat]]
    /\ \A m \in Calls : /\ (error[m] # None) = (pc[m] = "failed")
                        /\ (plan[m] # None) = (pc[m] = "done")
                        /\ lifecycle[m] # None => pc[m] = "done"
    /\ file \in [Files -> Optional(Seq(Bytes \cup {Hole}))]

\* The calls that have written, or may yet write, to a destination.
Writers(f) == {m \in Calls : writer[m].at # "none" /\ opts[m].destination = f}

\* A file materialization that returned left the whole object at its
\* destination, and it stays, as long as no other call writes there.
SoleWriterIsWhole ==
    \A m \in Calls :
        pc[m] = "done" /\ InFile(m) /\ Writers(opts[m].destination) = {m}
        => file[opts[m].destination] = Payload(m)

\* The plan returned tells what was done: its mode is that of a file exactly
\* when the call wrote one, whatever mode the descriptor prefers, and is the
\* mode asked for if there was one.
PlanTellsWhatWasDone ==
    \A m \in Calls :
        pc[m] = "done" =>
            /\ (plan[m].mode = "stream") = (writer[m].at = "none")
            /\ opts[m].request.mode # None => plan[m].mode = opts[m].request.mode

\* Arguments and descriptors are refused in time: once an object is loaded its
\* plan resolves, so that no file is left, and no stream is lost, by a call
\* that is then refused for its plan.
PlanResolvesOnceLoaded ==
    [][\A m \in Calls : pc[m] # "idle" /\ error'[m] = "refused" => error[m] = "refused"]_mvars

\* A call with a timeout ends, even if the file system never answers.
TimedCallsEnd ==
    \A m \in Calls : pc[m] # "idle" /\ opts[m].timed ~> pc[m] \in Returned

\* docs/contracts.md: ready means that materialization completed and that
\* validation succeeded.
ReadyMeansWritten ==
    [][\A m \in Calls : lifecycle'[m] # lifecycle[m] /\ lifecycle'[m].ready =>
          file[opts[m].destination] = Payload(m)]_mvars
=============================================================================
