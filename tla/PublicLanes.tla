----------------------------- MODULE PublicLanes -----------------------------
(***************************************************************************)
(* The example lanes as processes of one host: the public pathway, which   *)
(* publishes, serves, fetches and reads back an object in one process, and *)
(* the seeders, which publish and serve until they are signalled, with the *)
(* down command that stops them (examples/participation-distributable-     *)
(* public-pathway-proof.js, ...-public-seeder-lifecycle.js and             *)
(* installable-participation-bundle-public-seeder-lifecycle.js); and       *)
(* serveImmutableObject over a transport its caller gives it.              *)
(*                                                                         *)
(* The commands share the files their records are written to, the pids of  *)
(* the host, and any storages they are given alike.  publish, attachCore,  *)
(* fetch and read appear with the outcomes their own modules give them.    *)
(* External: signals, pids that are reused, processes killed, files        *)
(* truncated and then written, storage locked by its open core.            *)
(***************************************************************************)
EXTENDS LaneProofs, Naturals, Sequences

CONSTANTS Procs,     \* the runs of a lane, each a process
          Downs,     \* the runs of a down command
          Pids,      \* Pids[p]: the process ids the system may give it
          Storages,  \* the storage paths
          Commands,  \* Commands[p]: what it may be started as, [lane, in]; in.object is the
                     \* payload, in.publisher and in.consumer are storages
          Torn,      \* a file that is truncated, or overwritten in part
          None

VARIABLES proc,     \* the process of each run
          down,     \* where each down command stands
          stored,   \* the core in each storage, or None
          file,     \* the records on disk: None, Torn, or what was written
          foreign   \* pids taken by processes that are not ours

lvars == <<proc, down, stored, file, foreign>>

Files == {"proof", "pid"}
AllPids == UNION {Pids[p] : p \in Procs}
Swarms == {"publisherSwarm", "consumerSwarm"}
Closing == {"served", "publisher", "consumer"}

\* at: where the run stands; observed: what it will report; held: what it has
\* open; closers: what each close() of its finally has still to release; writes:
\* the files to write, the first one truncated already if begun.
Fresh == [at |-> "idle", lane |-> None, in |-> None, pid |-> None, observed |-> {}, held |-> {},
          closers |-> [c \in Closing |-> <<>>],
          handlers |-> {}, writes |-> <<>>, begun |-> FALSE, proof |-> None]
NotDown == [at |-> "idle", target |-> None, proof |-> None, stopped |-> FALSE, late |-> FALSE, record |-> None]

LInit == /\ proc = [p \in Procs |-> Fresh]
         /\ down = [d \in Downs |-> NotDown]
         /\ stored = [s \in Storages |-> None]
         /\ file = [f \in Files |-> None]
         /\ foreign = {}

\* A storage is published to once, and so tells its core's key.
CoreOf(in, whole) == [key |-> in.publisher, object |-> in.object, whole |-> whole]

\* Commands are those of the three lanes, on storages there are; a core is something.
ASSUME LanesAssumption ==
    \A p \in Procs : \A cmd \in Commands[p] :
        /\ cmd.lane \in Lanes /\ {cmd.in.publisher, cmd.in.consumer} \subseteq Storages
        /\ \A whole \in BOOLEAN : CoreOf(cmd.in, whole) # None

Alive(p) == proc[p].at \notin {"idle", "gone"}
HasPid(p, i) == Alive(p) /\ proc[p].pid = i
Free(s) == \A p \in Procs : /\ "publisherCore" \in proc[p].held => proc[p].in.publisher # s
                           /\ "consumerCore" \in proc[p].held => proc[p].in.consumer # s

\* The consumer's storage has the blocks of what the run has published.
Copied(in) == stored[in.consumer] # None /\ stored[in.consumer].key = in.publisher

\* The process has exited or was killed: the system releases what it had.
Gone == [Fresh EXCEPT !.at = "gone"]

\* The proof and its readback are built, and are to be written in this order;
\* no command reads the readback, whose file is left out.
ToWriting(r) == [r EXCEPT !.at = "writing", !.proof = Proof(r.lane, r.in, r.observed),
                          !.writes = IF r.lane = "pathway" THEN <<"proof">> ELSE <<"proof", "pid">>]

\* Mutant: the transport's close() is called before the served handle's.
ClosersTransportFirst(r) ==
    [served |-> IF "served" \in r.observed THEN <<"publisherCore">> ELSE <<>>,
     publisher |-> IF "publisherSwarm" \in r.held THEN <<"publisherSession", "publisherSwarm">> ELSE <<>>,
     consumer |-> IF "consumerSwarm" \in r.held THEN <<"consumerSession", "consumerSwarm">> ELSE <<>>]

\* The closes that finally starts, in one step: served.close() takes the
\* attachment of the served core out of the map before transport.close() looks.
Closers(r) ==
    LET served == "served" \in r.observed
        Close(swarm, session, mine) == IF swarm \notin r.held THEN <<>>
                                       ELSE IF mine /\ session \in r.held THEN <<session, swarm>>
                                       ELSE <<swarm>> IN
    [served |-> IF served THEN <<"publisherSession", "publisherCore">> ELSE <<>>,
     publisher |-> Close("publisherSwarm", "publisherSession", ~served),
     consumer |-> Close("consumerSwarm", "consumerSession", TRUE)]

ToClosing(r) == [r EXCEPT !.at = "closing", !.closers = Closers(r), !.writes = <<>>, !.begun = FALSE]

\* An await of the run rejects: the pathway observes it, a seeder gives up.
Fail(r) == ToClosing(IF r.lane = "pathway"
                     THEN [r EXCEPT !.observed = (@ \cap {"published", "served"}) \cup {Unresolved}] ELSE r)
\* The command is started: its inputs are read and checked, and the pathway
\* makes its transports.
Start(p) ==
    /\ proc[p].at = "idle"
    /\ \E cmd \in Commands[p], i \in Pids[p] \ foreign :
          /\ \A q \in Procs : ~HasPid(q, i)
          /\ LET r == [Fresh EXCEPT !.lane = cmd.lane, !.in = cmd.in, !.pid = i] IN
             proc' = [proc EXCEPT ![p] =
                 IF InputIssues(cmd.lane, cmd.in) # {}
                 THEN ToWriting([r EXCEPT !.observed =
                                     IF cmd.lane = "pathway" THEN {"cleanupComplete"} ELSE {}])
                 ELSE [r EXCEPT !.at = "publishing",
                                !.held = IF cmd.lane = "pathway" THEN Swarms ELSE {}]]
    /\ UNCHANGED <<down, stored, file, foreign>>

\* Mutant: the core is published to whatever it holds.
PublishAnyhow(p) ==
    LET in == proc[p].in IN
    /\ proc[p].at = "publishing" /\ Free(in.publisher)
    /\ stored' = [stored EXCEPT ![in.publisher] = CoreOf(in, TRUE)]
    /\ proc' = [proc EXCEPT ![p].at = "serving", ![p].observed = @ \cup {"published", "byteReference"},
                            ![p].held = @ \cup {"publisherSwarm"}]
    /\ UNCHANGED <<down, file, foreign>>

\* publishImmutableObject succeeds; a seeder makes its transport.
Publish(p) ==
    LET in == proc[p].in IN
    /\ proc[p].at = "publishing" /\ Free(in.publisher) /\ stored[in.publisher] = None
    /\ stored' = [stored EXCEPT ![in.publisher] = CoreOf(in, TRUE)]
    /\ proc' = [proc EXCEPT ![p].at = "serving", ![p].observed = @ \cup {"published", "byteReference"},
                            ![p].held = @ \cup {"publisherSwarm"}]
    /\ UNCHANGED <<down, file, foreign>>

\* serveImmutableObject: the core is opened and attached, which joins its topic.
Serve(p) ==
    /\ proc[p].at = "serving" /\ Free(proc[p].in.publisher)
    /\ proc' = [proc EXCEPT ![p].at = "announcing",
                            ![p].held = @ \cup {"publisherCore", "publisherSession"}]
    /\ UNCHANGED <<down, stored, file, foreign>>

\* The announcement is flushed and the handle returned.
Announced(p) ==
    LET r == [proc[p] EXCEPT !.observed = @ \cup {"served"}] IN
    /\ proc[p].at = "announcing"
    /\ proc' = [proc EXCEPT ![p] = IF r.lane = "pathway" THEN [r EXCEPT !.at = "fetching"] ELSE ToWriting(r)]
    /\ UNCHANGED <<down, stored, file, foreign>>

\* fetchImmutableObject up to the attached core, over the consumer's transport.
Search(p) ==
    /\ proc[p].at = "fetching" /\ Free(proc[p].in.consumer)
    /\ stored[proc[p].in.consumer] = None \/ Copied(proc[p].in)
    /\ proc' = [proc EXCEPT ![p].at = "searching",
                            ![p].held = @ \cup {"consumerCore", "consumerSession"}]
    /\ UNCHANGED <<down, stored, file, foreign>>

Update(p) == /\ proc[p].at = "searching"
             /\ proc' = [proc EXCEPT ![p].at = "updating"]
             /\ UNCHANGED <<down, stored, file, foreign>>

\* A peer is announced that has the core open.
Served(in) == \E q \in Procs : /\ {"publisherCore", "publisherSession"} \subseteq proc[q].held
                              /\ proc[q].in.publisher = in.publisher

\* The first blocks arrive.
Replicate(p) ==
    LET in == proc[p].in IN
    /\ proc[p].at = "updating" /\ stored[in.consumer] = None /\ Served(in)
    /\ stored' = [stored EXCEPT ![in.consumer] = CoreOf(in, FALSE)]
    /\ UNCHANGED <<proc, down, file, foreign>>

\* The object is here, and the read closes its core, which stays attached.
Fetched(p) ==
    LET in == proc[p].in IN
    /\ proc[p].at = "updating" /\ Copied(in) /\ (stored[in.consumer].whole \/ Served(in))
    /\ stored' = [stored EXCEPT ![in.consumer] = CoreOf(in, TRUE)]
    /\ proc' = [proc EXCEPT ![p].at = "reading", ![p].held = @ \ {"consumerCore"},
                            ![p].observed = @ \cup {"fetched", "publicSwarmFetchComplete"}]
    /\ UNCHANGED <<down, file, foreign>>

\* The consumer's storage is opened anew, and holds every block.
ReadBack(p) ==
    LET in == proc[p].in
        r == [proc[p] EXCEPT !.observed = @ \cup {"descriptorHashVerified", "payloadHashVerified",
                                                   "consumerReadbackAfterFetchVerified"}] IN
    /\ proc[p].at = "reading" /\ Free(in.consumer) /\ stored[in.consumer] = CoreOf(in, TRUE)
    /\ proc' = [proc EXCEPT ![p] = ToClosing(r)]
    /\ UNCHANGED <<down, stored, file, foreign>>

\* The core that the await a run is at opens, if it can.
Opening(p) ==
    LET in == proc[p].in IN
    CASE proc[p].at = "serving" /\ Free(in.publisher) -> {"publisherCore"}
      [] proc[p].at = "fetching" /\ Free(in.consumer) /\ (stored[in.consumer] = None \/ Copied(in)) ->
             {"consumerCore"}
      [] OTHER -> {}

\* Whatever is awaited may fail, or be ended by the timer.  What attachCore or a
\* fetch has opened before stays open; from the update on a fetch closes its core.
StepFails(p) ==
    /\ proc[p].at \in {"publishing", "serving", "announcing", "fetching", "searching", "updating", "reading"}
    /\ \E opened \in SUBSET Opening(p) :
          LET r == proc[p]
              closed == IF r.at = "updating" THEN {"consumerCore"} ELSE {} IN
          proc' = [proc EXCEPT ![p] = Fail([r EXCEPT !.held = (r.held \cup opened) \ closed])]
    /\ UNCHANGED <<down, stored, file, foreign>>

\* A close() goes on: a swarm that is destroyed takes its sessions with it.
CloseStep(p, c) ==
    /\ proc[p].at = "closing" /\ proc[p].closers[c] # <<>>
    /\ LET x == Head(proc[p].closers[c])
           with == CASE x = "publisherSwarm" -> {x, "publisherSession"}
                     [] x = "consumerSwarm" -> {x, "consumerSession"}
                     [] OTHER -> {x} IN
       proc' = [proc EXCEPT ![p].held = @ \ with, ![p].closers[c] = Tail(@)]
    /\ UNCHANGED <<down, stored, file, foreign>>

\* A close() rejects, which allSettled ignores; the rest of it is not released.
CloseRejects(p, c) ==
    /\ proc[p].at = "closing" /\ proc[p].closers[c] # <<>>
    /\ proc' = [proc EXCEPT ![p].closers[c] = <<>>]
    /\ UNCHANGED <<down, stored, file, foreign>>

\* All have settled: the pathway calls its cleanup complete and writes its
\* records, a seeder returns.
Closed(p) ==
    LET r == proc[p] IN
    /\ r.at = "closing" /\ \A c \in Closing : r.closers[c] = <<>>
    /\ proc' = [proc EXCEPT ![p] = IF r.lane = "pathway"
                                   THEN ToWriting([r EXCEPT !.observed = r.observed \cup {"cleanupComplete"}])
                                   ELSE [r EXCEPT !.at = "leaving"]]
    /\ UNCHANGED <<down, stored, file, foreign>>

\* writeJson: the file is truncated, and then has its content; another's content
\* that came in between may show through.
BeginWrite(p) ==
    /\ proc[p].at = "writing" /\ ~proc[p].begun
    /\ file' = [file EXCEPT ![Head(proc[p].writes)] = Torn]
    /\ proc' = [proc EXCEPT ![p].begun = TRUE]
    /\ UNCHANGED <<down, stored, foreign>>

Content(p, f) == IF f = "proof" THEN [by |-> p, proof |-> Written(proc[p].proof)]
                                ELSE [by |-> p, pid |-> proc[p].pid]

\* The last record is written: the pathway exits, a live seeder waits for a
\* signal, another one returns.
AfterWriting(r) == IF r.lane = "pathway" THEN Gone
                   ELSE [r EXCEPT !.at = IF r.proof.status = "complete" THEN "registering" ELSE "leaving"]

EndWrite(p) ==
    LET f == Head(proc[p].writes)
        r == [proc[p] EXCEPT !.begun = FALSE, !.writes = Tail(@)] IN
    /\ proc[p].at = "writing" /\ proc[p].begun
    /\ \E after \in {Content(p, f)} \cup (IF file[f] = Torn THEN {} ELSE {Torn}) :
          file' = [file EXCEPT ![f] = after]
    /\ proc' = [proc EXCEPT ![p] = IF r.writes = <<>> THEN AfterWriting(r) ELSE r]
    /\ UNCHANGED <<down, stored, foreign>>

\* A write fails: the pathway exits, a seeder closes what it has and gives up.
WriteFails(p) ==
    /\ proc[p].at = "writing"
    /\ proc' = [proc EXCEPT ![p] = IF @.lane = "pathway" THEN Gone ELSE ToClosing(@)]
    /\ UNCHANGED <<down, stored, file, foreign>>

\* The handlers are registered once the pid file has been written.
Register(p) ==
    /\ proc[p].at = "registering"
    /\ proc' = [proc EXCEPT ![p].at = "running", ![p].handlers = {"SIGTERM", "SIGINT"}]
    /\ UNCHANGED <<down, stored, file, foreign>>

\* A process without a handler is killed; process.once keeps a handler for one
\* signal of its kind, and the first signal lets runUp go on.
Signalled(r, signal) ==
    IF signal \notin r.handlers THEN Gone
    ELSE LET rest == [r EXCEPT !.handlers = @ \ {signal}] IN
         IF r.at = "running" THEN ToClosing(rest) ELSE rest

\* The code of a process that has returned is set; it ends when no swarm keeps
\* its event loop alive.
Leave(p) == /\ proc[p].at = "leaving" /\ proc[p].held \cap Swarms = {}
            /\ proc' = [proc EXCEPT ![p] = Gone]
            /\ UNCHANGED <<down, stored, file, foreign>>

\* The user interrupts a run; or it is killed, or its host fails.
Interrupt(p) == /\ Alive(p)
                /\ \E r \in {Signalled(proc[p], "SIGINT"), Gone} : proc' = [proc EXCEPT ![p] = r]
                /\ UNCHANGED <<down, stored, file, foreign>>

\* Pids of processes that are gone are given to others, which end; it matters
\* while a down command is after the pid.
ForeignProcess(i) ==
    /\ \E d \in Downs : down[d].at \in {"reading", "signalling", "polling"} /\ down[d].target.pid = i
    /\ \A p \in Procs : ~HasPid(p, i)
    /\ foreign' = IF i \in foreign THEN foreign \ {i} ELSE foreign \cup {i}
    /\ UNCHANGED <<proc, down, stored, file>>

\* down: the pid file is read, then the proof; JSON.parse refuses a torn file.
Down(d) ==
    /\ down[d].at = "idle"
    /\ down' = [down EXCEPT ![d] = IF file["pid"] \in {None, Torn} THEN [@ EXCEPT !.at = "failed"]
                                   ELSE [@ EXCEPT !.at = "reading", !.target = file["pid"]]]
    /\ UNCHANGED <<proc, stored, file, foreign>>

DownReads(d) ==
    /\ down[d].at = "reading"
    /\ down' = [down EXCEPT ![d] = IF file["proof"] \in {None, Torn} THEN [@ EXCEPT !.at = "failed"]
                                   ELSE [@ EXCEPT !.at = "signalling", !.proof = file["proof"].proof]]
    /\ UNCHANGED <<proc, stored, file, foreign>>

\* The down record is built from what the command has found.
Report(r, stopped) == [r EXCEPT !.at = "done", !.stopped = stopped, !.record = DownRecord(r.proof, stopped)]

\* Mutant: having signalled is taken for having stopped.
DownSignalsOnly(d) ==
    LET i == down[d].target.pid IN
    /\ down[d].at = "signalling"
    /\ proc' = [p \in Procs |-> IF HasPid(p, i) THEN Signalled(proc[p], "SIGTERM") ELSE proc[p]]
    /\ foreign' = foreign \ {i}
    /\ down' = [down EXCEPT ![d] = Report(@, TRUE)]
    /\ UNCHANGED <<stored, file>>

\* SIGTERM to whoever has the pid now: a run of ours, nobody (ESRCH), or another
\* process, which may be out of reach (EPERM).
DownSignals(d) ==
    LET i == down[d].target.pid IN
    /\ down[d].at = "signalling"
    /\ proc' = [p \in Procs |-> IF HasPid(p, i) THEN Signalled(proc[p], "SIGTERM") ELSE proc[p]]
    /\ \E reached \in (IF i \in foreign THEN BOOLEAN ELSE {TRUE}) :
          /\ foreign' = IF reached THEN foreign \ {i} ELSE foreign
          /\ down' = [down EXCEPT ![d].at = "polling", ![d].stopped = reached]
    /\ UNCHANGED <<stored, file>>

\* Mutant: no record is made of a process that is out of reach.
DownPollsQuietly(d) ==
    LET i == down[d].target.pid IN
    /\ down[d].at = "polling" /\ \A p \in Procs : ~HasPid(p, i)
    /\ down' = [down EXCEPT ![d] = IF i \in foreign THEN [@ EXCEPT !.at = "done"] ELSE Report(@, TRUE)]
    /\ UNCHANGED <<proc, stored, file, foreign>>

\* A poll finds no such process, or one out of reach; one that is alive is polled
\* again, and leaves stopped as it is.
DownPolls(d) ==
    LET i == down[d].target.pid IN
    /\ down[d].at = "polling" /\ \A p \in Procs : ~HasPid(p, i)
    /\ down' = [down EXCEPT ![d] = Report(@, i \notin foreign)]
    /\ UNCHANGED <<proc, stored, file, foreign>>

\* Mutant: a poll that finds the process alive starts the five seconds anew.
DeadlineRestarts(d) ==
    /\ down[d].at = "polling" /\ \A p \in Procs : ~HasPid(p, down[d].target.pid)
    /\ down' = [down EXCEPT ![d] = Report([@ EXCEPT !.late = TRUE], @.stopped)]
    /\ UNCHANGED <<proc, stored, file, foreign>>

\* The five seconds are over.
DeadlinePasses(d) ==
    /\ down[d].at = "polling"
    /\ down' = [down EXCEPT ![d] = Report([@ EXCEPT !.late = TRUE], @.stopped)]
    /\ UNCHANGED <<proc, stored, file, foreign>>

Run(p) == Publish(p) \/ Serve(p) \/ Announced(p) \/ Search(p) \/ Update(p) \/ Replicate(p)
            \/ Fetched(p) \/ ReadBack(p)
Finish(p) == \/ Closed(p) \/ BeginWrite(p) \/ EndWrite(p) \/ Register(p) \/ Leave(p)
             \/ \E c \in Closing : CloseStep(p, c)
Fault(p) == \/ StepFails(p) \/ WriteFails(p) \/ Interrupt(p)
            \/ \E c \in Closing : CloseRejects(p, c)
Stop(d) == DownReads(d) \/ DownSignals(d) \/ DownPolls(d) \/ DeadlinePasses(d)

LNext == \/ \E p \in Procs : Start(p) \/ Run(p) \/ Finish(p) \/ Fault(p)
         \/ \E d \in Downs : Down(d) \/ Stop(d)
         \/ \E i \in AllPids : ForeignProcess(i)

LSpec == LInit /\ [][LNext]_lvars

\* Writes, closes and timers end; no peer has to answer and no announcement has
\* to be flushed.
LFairSpec == /\ LSpec
             /\ \A p \in Procs : WF_lvars(Finish(p))
             /\ \A d \in Downs : WF_lvars(Stop(d))
-----------------------------------------------------------------------------
Held == Swarms \cup {"publisherCore", "publisherSession", "consumerCore", "consumerSession"}

LTypeOK ==
    /\ \A p \in Procs :
          /\ proc[p].pid \in Pids[p] \cup {None} /\ proc[p].held \subseteq Held
          /\ proc[p].handlers \subseteq {"SIGTERM", "SIGINT"}
          /\ \A c \in Closing : proc[p].closers[c] \in Seq(Held)
          /\ proc[p].writes \in Seq(Files)
    /\ \A p, q \in Procs : Alive(p) /\ HasPid(q, proc[p].pid) => p = q
    /\ \A i \in foreign : i \in AllPids /\ \A p \in Procs : ~HasPid(p, i)
    /\ \A d \in Downs : down[d].at = "done" => down[d].record = DownRecord(down[d].proof, down[d].stopped)

\* A down command that had its answer within the five seconds, and reports the
\* seeder stopped, is right: the process that wrote the pid file it read is gone,
\* whoever has been given its pid since.
AnsweredMeansGone ==
    \A d \in Downs : down[d].at = "done" /\ down[d].stopped /\ ~down[d].late => ~Alive(down[d].target.by)

\* What a process announces and has open is the object it has published, and
\* reports, although other runs use the same storage.
ServedAsPublished ==
    \A p \in Procs : "publisherCore" \in proc[p].held =>
        stored[proc[p].in.publisher] = CoreOf(proc[p].in, TRUE)

\* A topic is announced only while its core is open to answer, whichever of the
\* concurrent closes is faster and whichever of them rejects.
AnnouncedWhileOpen ==
    \A p \in Procs : "publisherSession" \in proc[p].held => "publisherCore" \in proc[p].held

\* A pathway proof that calls the pathway complete was written with the whole
\* object in both storages, as it was published.
CompleteMeansConsumed ==
    \A p \in Procs : proc[p].lane = "pathway" /\ proc[p].proof # None /\ proc[p].proof.status = "complete" =>
        \A s \in {proc[p].in.publisher, proc[p].in.consumer} : stored[s] = CoreOf(proc[p].in, TRUE)

\* A readback built from the file finds that the hash of a written proof matches,
\* with exactly one exception: a bundle whose own proof has no proofRef, or fails
\* what the validation looks at again, gets issues after it was hashed.
WrittenProofVerifies ==
    file["proof"] \notin {None, Torn} =>
        LET proof == file["proof"].proof IN
        Readback(proof).proofHashMatches = ~(proof.lane = "bundle" /\ BundleSourceIssues(proof.in) # {})

\* Nothing that a command does by itself goes on for ever: in the end no run is
\* left writing, registering or closing, whatever rejects; one that has returned
\* is gone, unless a close that rejected left its swarm running; and a down command
\* has ended, whatever became of the process it is after.
CommandsEnd ==
    <>[](/\ \A p \in Procs : /\ proc[p].at \notin {"writing", "registering", "closing"}
                            /\ proc[p].at = "leaving" => proc[p].held \cap Swarms # {}
         /\ \A d \in Downs : down[d].at \in {"idle", "done", "failed"})

\* test/participation-distributable-public-seeder.js: a down record with status
\* stopped says that no process was left running.
StoppedMeansGone ==
    \A d \in Downs : down[d].at = "done" /\ ~down[d].record.processLeftRunning => ~Alive(down[d].target.by)
=============================================================================
