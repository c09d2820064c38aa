-------------------------- MODULE PublicLanesProofs --------------------------
(***************************************************************************)
(* Theorems about PublicLanes, for any runs, down commands, pids, storages *)
(* and commands.  A run is first taken by itself: Sane says what its       *)
(* record of itself is worth, and Evolves what becomes of it in a step.    *)
(* The invariants about storages, files and pids then follow from what     *)
(* every run does, whichever takes the step.                               *)
(***************************************************************************)
EXTENDS PublicLanes, TLAPS

Ins == UNION {{cmd.in : cmd \in Commands[p]} : p \in Procs}

Fields == {"at", "lane", "in", "pid", "observed", "held", "closers", "handlers", "writes", "begun", "proof"}
DownFields == {"at", "target", "proof", "stopped", "late", "record"}

Shaped(r) == DOMAIN r = Fields /\ DOMAIN r.closers = Closing

Shape == /\ DOMAIN proc = Procs /\ \A p \in Procs : Shaped(proc[p])
         /\ DOMAIN down = Downs /\ \A d \in Downs : DOMAIN down[d] = DownFields
         /\ DOMAIN stored = Storages /\ DOMAIN file = Files

Live(r) == r.at \notin {"idle", "gone"}

Observations == {"published", "byteReference", "served", "fetched", "publicSwarmFetchComplete",
                 "descriptorHashVerified", "payloadHashVerified",
                 "consumerReadbackAfterFetchVerified", "cleanupComplete", Unresolved}

\* What a run may observe: nothing is fetched that was not published and served.
Told(observed) ==
    /\ observed \subseteq Observations
    /\ "publicSwarmFetchComplete" \in observed => {"published", "served", "fetched"} \subseteq observed

\* What a run has open, and what it has observed of it.
HoldsSoundly(r) ==
    /\ r.held \subseteq Held
    /\ "publisherSession" \in r.held => "publisherCore" \in r.held
    /\ "publisherCore" \in r.held => "published" \in r.observed
    /\ r.at \in {"serving", "announcing"} => "published" \in r.observed
    /\ r.at \in {"fetching", "searching", "updating", "reading"} => {"published", "served"} \subseteq r.observed

\* What the closes of a run have still to do.
ClosesSoundly(r) ==
    /\ r.closers["served"] \in {<<>>, <<"publisherCore">>, <<"publisherSession", "publisherCore">>}
    /\ r.closers["publisher"] \in {<<>>, <<"publisherSwarm">>, <<"publisherSession", "publisherSwarm">>}
    /\ r.closers["consumer"] \in {<<>>, <<"consumerSwarm">>, <<"consumerSession", "consumerSwarm">>}
    /\ r.at = "closing" /\ r.closers["served"] = <<"publisherCore">> => "publisherSession" \notin r.held

\* What a run writes is the proof of what it has observed.
WritesSoundly(r) ==
    /\ r.writes \in {<<>>, <<"proof">>, <<"pid">>, <<"proof", "pid">>}
    /\ r.at = "writing" => r.writes # <<>> /\ r.proof = Proof(r.lane, r.in, r.observed)
    /\ r.lane = "pathway" /\ r.proof # None => r.at = "writing"

Sane(r) ==
    /\ Live(r) => r.lane \in Lanes /\ r.in \in Ins /\ r.pid \in AllPids
    /\ r.handlers \subseteq {"SIGTERM", "SIGINT"}
    /\ ~Live(r) => r.pid = None /\ r.held = {} /\ r.observed = {} /\ r.proof = None
    /\ Told(r.observed) /\ HoldsSoundly(r) /\ ClosesSoundly(r) /\ WritesSoundly(r)

\* A run keeps its pid, lane and inputs until it is gone, for good.
Evolves(r, q) ==
    /\ r.at # "idle" => q.at # "idle"
    /\ r.at # "idle" /\ Live(q) => Live(r) /\ q.pid = r.pid /\ q.lane = r.lane /\ q.in = r.in

Claims(r) == r.observed \cap {"published", "consumerReadbackAfterFetchVerified"}

\* A step of a run that claims nothing new.
Goes(r, q) == Shaped(q) /\ Sane(q) /\ Evolves(r, q) /\ Claims(q) \subseteq Claims(r)

LEMMA GoneGoes == ASSUME NEW r, r.at # "idle" PROVE Goes(r, Gone)
  BY DEF Goes, Gone, Fresh, Shaped, Fields, Sane, Live, Told, HoldsSoundly, ClosesSoundly, WritesSoundly, Evolves, Claims, Closing

LEMMA ClosingGoes ==
    ASSUME NEW r, Shaped(r), Sane(r), Live(r), r.lane = "pathway" => r.proof = None
    PROVE  Goes(r, ToClosing(r)) /\ ToClosing(r).held = r.held
  <1> DEFINE q == ToClosing(r)
  <1>1. /\ DOMAIN q = Fields /\ q.at = "closing" /\ q.lane = r.lane /\ q.in = r.in /\ q.pid = r.pid
        /\ q.observed = r.observed /\ q.held = r.held /\ q.handlers = r.handlers /\ q.writes = <<>>
        /\ q.proof = r.proof /\ q.closers = Closers(r)
    BY DEF ToClosing, Shaped, Fields
  <1>2. Shaped(q)
    BY <1>1 DEF Shaped, Closers, Closing
  <1>3. ClosesSoundly(q)
    BY <1>1 DEF ClosesSoundly, Closers
  <1>4. HoldsSoundly(q) /\ WritesSoundly(q) /\ Told(q.observed)
    BY <1>1 DEF Sane, HoldsSoundly, WritesSoundly
  <1>5. Sane(q)
    BY <1>1, <1>3, <1>4 DEF Sane, Live
  <1>6. Evolves(r, q) /\ Claims(q) = Claims(r)
    BY <1>1 DEF Evolves, Claims, Live
  <1> QED BY <1>1, <1>2, <1>5, <1>6 DEF Goes

LEMMA WritingIs ==
    ASSUME NEW r, Shaped(r)
    PROVE  LET q == ToWriting(r) IN
           /\ DOMAIN q = Fields /\ q.at = "writing" /\ q.lane = r.lane /\ q.in = r.in /\ q.pid = r.pid
           /\ q.observed = r.observed /\ q.held = r.held /\ q.handlers = r.handlers
           /\ q.writes = IF r.lane = "pathway" THEN <<"proof">> ELSE <<"proof", "pid">>
           /\ q.proof = Proof(r.lane, r.in, r.observed) /\ q.closers = r.closers
  BY DEF ToWriting, Shaped, Fields

LEMMA WritingGoes ==
    ASSUME NEW r, Shaped(r), Live(r), Sane(r)
    PROVE  Goes(r, ToWriting(r)) /\ ToWriting(r).held = r.held
  <1> DEFINE q == ToWriting(r)
  <1>1. /\ DOMAIN q = Fields /\ q.at = "writing" /\ q.lane = r.lane /\ q.in = r.in /\ q.pid = r.pid
        /\ q.observed = r.observed /\ q.held = r.held /\ q.handlers = r.handlers
        /\ q.writes = IF r.lane = "pathway" THEN <<"proof">> ELSE <<"proof", "pid">>
        /\ q.proof = Proof(r.lane, r.in, r.observed) /\ q.closers = r.closers
    BY WritingIs
  <1> HIDE DEF q
  <1>2. Shaped(q) /\ HoldsSoundly(q) /\ ClosesSoundly(q) /\ Told(q.observed)
    BY <1>1 DEF Shaped, Sane, HoldsSoundly, ClosesSoundly
  <1>3. WritesSoundly(q)
    BY <1>1 DEF WritesSoundly
  <1>4. Sane(q) /\ Evolves(r, q) /\ Claims(q) = Claims(r)
    BY <1>1, <1>2, <1>3 DEF Sane, Live, Evolves, Claims
  <1> QED BY <1>1, <1>2, <1>4 DEF Goes, q

LEMMA SignalledGoes ==
    ASSUME NEW r, Shaped(r), Sane(r), Live(r), NEW signal
    PROVE  Goes(r, Signalled(r, signal)) /\ Signalled(r, signal).held \in {r.held, {}}
  <1> DEFINE rest == [r EXCEPT !.handlers = @ \ {signal}]
  <1>1. /\ DOMAIN rest = Fields /\ rest.at = r.at /\ rest.lane = r.lane /\ rest.in = r.in
        /\ rest.pid = r.pid /\ rest.observed = r.observed /\ rest.held = r.held
        /\ rest.handlers = r.handlers \ {signal} /\ rest.writes = r.writes /\ rest.proof = r.proof
        /\ rest.closers = r.closers
    BY DEF Shaped, Fields
  <1>2. Shaped(rest) /\ Sane(rest) /\ Live(rest)
    BY <1>1 DEF Shaped, Sane, Live, HoldsSoundly, ClosesSoundly, WritesSoundly
  <1>3. Evolves(r, rest) /\ Claims(rest) = Claims(r)
    BY <1>1 DEF Evolves, Claims, Live
  <1>4. CASE signal \notin r.handlers
    <2>1. Signalled(r, signal) = Gone /\ Gone.held = {}
      BY <1>4 DEF Signalled, Gone, Fresh
    <2> QED BY <2>1, GoneGoes DEF Live
  <1>5. CASE signal \in r.handlers /\ r.at = "running"
    <2>1. Signalled(r, signal) = ToClosing(rest)
      BY <1>5 DEF Signalled
    <2>2. r.lane = "pathway" => r.proof = None
      BY <1>5 DEF Sane, WritesSoundly
    <2>3. Goes(rest, ToClosing(rest)) /\ ToClosing(rest).held = rest.held
      BY <1>1, <1>2, <2>2, ClosingGoes
    <2> QED BY <1>1, <1>2, <1>3, <2>1, <2>3 DEF Goes, Evolves, Live
  <1>6. CASE signal \in r.handlers /\ r.at # "running"
    <2>1. Signalled(r, signal) = rest
      BY <1>6 DEF Signalled
    <2> QED BY <1>1, <1>2, <1>3, <2>1 DEF Goes
  <1> QED BY <1>4, <1>5, <1>6

-----------------------------------------------------------------------------
(***************************************************************************)
(* The steps of a run.                                                     *)
(***************************************************************************)
Runs == Shape /\ \A p \in Procs : Sane(proc[p])

\* Only p's record changes.
Only(p) == DOMAIN proc' = Procs /\ \A q \in Procs \ {p} : proc'[q] = proc[q]

LEMMA StartGoes ==
    ASSUME Runs, NEW p \in Procs, Start(p) PROVE Only(p) /\ Goes(proc[p], proc'[p])
  <1>1. PICK cmd \in Commands[p], i \in Pids[p] :
           LET r == [Fresh EXCEPT !.lane = cmd.lane, !.in = cmd.in, !.pid = i] IN
             proc' = [proc EXCEPT ![p] =
                 IF InputIssues(cmd.lane, cmd.in) # {}
                 THEN ToWriting([r EXCEPT !.observed =
                                     IF cmd.lane = "pathway" THEN {"cleanupComplete"} ELSE {}])
                 ELSE [r EXCEPT !.at = "publishing",
                                !.held = IF cmd.lane = "pathway" THEN Swarms ELSE {}]]
    BY DEF Start
  <1> DEFINE r == [Fresh EXCEPT !.lane = cmd.lane, !.in = cmd.in, !.pid = i]
             observed == IF cmd.lane = "pathway" THEN {"cleanupComplete"} ELSE {}
             a == [r EXCEPT !.observed = observed]
             b == [r EXCEPT !.at = "publishing", !.held = IF cmd.lane = "pathway" THEN Swarms ELSE {}]
             w == ToWriting(a)
  <1>2. cmd.lane \in Lanes /\ cmd.in \in Ins /\ i \in AllPids
    BY LanesAssumption DEF Ins, AllPids
  <1>3. Only(p) /\ proc'[p] \in {w, b} /\ proc[p].at = "idle"
    BY <1>1 DEF Only, Runs, Shape, Start
  <1>4. /\ DOMAIN r = Fields /\ r.at = "idle" /\ r.lane = cmd.lane /\ r.in = cmd.in /\ r.pid = i
        /\ r.observed = {} /\ r.held = {} /\ r.handlers = {} /\ r.writes = <<>> /\ r.proof = None
        /\ r.closers = [c \in Closing |-> <<>>]
    BY DEF Fresh, Fields
  <1> HIDE DEF r
  <1>5. CASE proc'[p] = w
    <2>1. /\ DOMAIN a = Fields /\ a.lane = cmd.lane /\ a.in = cmd.in /\ a.pid = i
          /\ a.observed = observed /\ a.held = {} /\ a.handlers = {}
          /\ a.closers = [c \in Closing |-> <<>>]
      BY <1>4 DEF Fields
    <2> HIDE DEF a
    <2>2. /\ DOMAIN w = Fields /\ w.at = "writing" /\ w.lane = cmd.lane /\ w.in = cmd.in /\ w.pid = i
          /\ w.observed = observed /\ w.held = {} /\ w.handlers = {}
          /\ w.writes = IF cmd.lane = "pathway" THEN <<"proof">> ELSE <<"proof", "pid">>
          /\ w.proof = Proof(cmd.lane, cmd.in, observed) /\ w.closers = [c \in Closing |-> <<>>]
      <3>1. Shaped(a)
        BY <2>1 DEF Shaped
      <3> QED BY <2>1, <3>1, WritingIs
    <2> HIDE DEF w
    <2>3. observed \subseteq {"cleanupComplete"}
      OBVIOUS
    <2> HIDE DEF observed
    <2>4. Shaped(w) /\ HoldsSoundly(w) /\ ClosesSoundly(w) /\ Told(w.observed)
      BY <2>2, <2>3 DEF Shaped, HoldsSoundly, ClosesSoundly, Told, Observations, Closing
    <2>5. WritesSoundly(w)
      BY <2>2 DEF WritesSoundly
    <2>6. Claims(w) = {}
      BY <2>2, <2>3 DEF Claims
    <2> QED BY <1>2, <1>3, <1>5, <2>2, <2>4, <2>5, <2>6 DEF Goes, Sane, Live, Evolves
  <1>6. CASE proc'[p] = b
    <2>1. /\ DOMAIN b = Fields /\ b.at = "publishing" /\ b.lane = cmd.lane /\ b.in = cmd.in /\ b.pid = i
          /\ b.observed = {} /\ b.held \in {Swarms, {}} /\ b.handlers = {} /\ b.writes = <<>>
          /\ b.proof = None /\ b.closers = [c \in Closing |-> <<>>]
      BY <1>4 DEF Fields
    <2> HIDE DEF b
    <2>2. Shaped(b) /\ HoldsSoundly(b) /\ ClosesSoundly(b) /\ WritesSoundly(b) /\ Told(b.observed)
      BY <2>1 DEF Shaped, HoldsSoundly, ClosesSoundly, WritesSoundly, Told, Observations, Closing, Swarms, Held
    <2>3. Claims(b) = {}
      BY <2>1 DEF Claims
    <2> QED BY <1>2, <1>3, <1>6, <2>1, <2>2, <2>3 DEF Goes, Sane, Live, Evolves
  <1> QED BY <1>3, <1>5, <1>6

LEMMA ServeGoes ==
    ASSUME Runs, NEW p \in Procs, Serve(p) PROVE Only(p) /\ Goes(proc[p], proc'[p])
  <1> DEFINE r == proc[p]  q == proc'[p]
  <1>1. Only(p) /\ r.at = "serving" /\ Shaped(r) /\ Sane(r)
    BY DEF Only, Runs, Shape, Serve
  <1>2. /\ DOMAIN q = Fields /\ q.at = "announcing" /\ q.lane = r.lane /\ q.in = r.in /\ q.pid = r.pid
        /\ q.observed = r.observed /\ q.held = r.held \cup {"publisherCore", "publisherSession"}
        /\ q.handlers = r.handlers /\ q.writes = r.writes /\ q.proof = r.proof /\ q.closers = r.closers
    BY DEF Serve, Runs, Shape, Shaped, Fields
  <1> HIDE DEF r, q
  <1>3. HoldsSoundly(q)
    BY <1>1, <1>2 DEF Sane, HoldsSoundly, Held
  <1> QED BY <1>1, <1>2, <1>3
          DEF r, q, Goes, Shaped, Sane, Live, Evolves, Claims, ClosesSoundly, WritesSoundly

LEMMA AnnouncedGoes ==
    ASSUME Runs, NEW p \in Procs, Announced(p) PROVE Only(p) /\ Goes(proc[p], proc'[p])
  <1> DEFINE r == proc[p]
             a == [r EXCEPT !.observed = @ \cup {"served"}]
             b == [a EXCEPT !.at = "fetching"]
             goes == IF a.lane = "pathway" THEN b ELSE ToWriting(a)
  <1>0. proc' = [proc EXCEPT ![p] = goes]
    BY DEF Announced
  <1> HIDE DEF goes
  <1>1. /\ Only(p) /\ r.at = "announcing" /\ Shaped(r) /\ Sane(r)
        /\ proc'[p] = goes
    BY <1>0 DEF Only, Runs, Shape, Announced
  <1>2. /\ DOMAIN a = Fields /\ a.at = r.at /\ a.lane = r.lane /\ a.in = r.in /\ a.pid = r.pid
        /\ a.observed = r.observed \cup {"served"} /\ a.held = r.held
        /\ a.handlers = r.handlers /\ a.writes = r.writes /\ a.proof = r.proof /\ a.closers = r.closers
    BY <1>1 DEF Shaped, Fields
  <1> HIDE DEF r, a
  <1>3. Told(a.observed) /\ HoldsSoundly(a) /\ Shaped(a) /\ Live(a)
    BY <1>1, <1>2 DEF Sane, Told, HoldsSoundly, Observations, Shaped, Live
  <1>4. Sane(a) /\ Evolves(r, a) /\ Claims(a) = Claims(r)
    BY <1>1, <1>2, <1>3 DEF Sane, Live, ClosesSoundly, WritesSoundly, Evolves, Claims
  <1>5. Goes(a, ToWriting(a))
    BY <1>3, <1>4, WritingGoes
  <1>6. Goes(r, ToWriting(a))
    BY <1>1, <1>2, <1>3, <1>4, <1>5 DEF Goes, Evolves, Live
  <1>7. /\ DOMAIN b = Fields /\ b.at = "fetching" /\ b.lane = a.lane /\ b.in = a.in /\ b.pid = a.pid
        /\ b.observed = a.observed /\ b.held = a.held
        /\ b.handlers = a.handlers /\ b.writes = a.writes /\ b.proof = a.proof /\ b.closers = a.closers
    BY <1>2 DEF Fields
  <1> HIDE DEF b
  <1>8. HoldsSoundly(b)
    BY <1>1, <1>2, <1>3, <1>7 DEF Sane, HoldsSoundly
  <1>9. Goes(r, b)
    <2>1. Shaped(b) /\ Told(b.observed) /\ ClosesSoundly(b) /\ WritesSoundly(b) /\ Live(b)
      BY <1>1, <1>2, <1>3, <1>4, <1>7 DEF Sane, Shaped, ClosesSoundly, WritesSoundly, Live
    <2>2. Sane(b)
      BY <1>1, <1>2, <1>3, <1>4, <1>7, <1>8, <2>1 DEF Sane
    <2> QED BY <1>1, <1>2, <1>3, <1>4, <1>7, <2>1, <2>2 DEF Goes, Evolves, Live, Claims
  <1> QED BY <1>1, <1>6, <1>9 DEF r, goes

LEMMA SearchGoes ==
    ASSUME Runs, NEW p \in Procs, Search(p) PROVE Only(p) /\ Goes(proc[p], proc'[p])
  <1> DEFINE r == proc[p]  q == proc'[p]
  <1>1. Only(p) /\ r.at = "fetching" /\ Shaped(r) /\ Sane(r)
    BY DEF Only, Runs, Shape, Search
  <1>2. /\ DOMAIN q = Fields /\ q.at = "searching" /\ q.lane = r.lane /\ q.in = r.in /\ q.pid = r.pid
        /\ q.observed = r.observed /\ q.held = r.held \cup {"consumerCore", "consumerSession"}
        /\ q.handlers = r.handlers /\ q.writes = r.writes /\ q.proof = r.proof /\ q.closers = r.closers
    BY DEF Search, Runs, Shape, Shaped, Fields
  <1> HIDE DEF r, q
  <1>3. HoldsSoundly(q)
    BY <1>1, <1>2 DEF Sane, HoldsSoundly, Held
  <1> QED BY <1>1, <1>2, <1>3
          DEF r, q, Goes, Shaped, Sane, Live, Evolves, Claims, ClosesSoundly, WritesSoundly

LEMMA UpdateGoes ==
    ASSUME Runs, NEW p \in Procs, Update(p) PROVE Only(p) /\ Goes(proc[p], proc'[p])
  <1> DEFINE r == proc[p]  q == proc'[p]
  <1>1. Only(p) /\ r.at = "searching" /\ Shaped(r) /\ Sane(r)
    BY DEF Only, Runs, Shape, Update
  <1>2. /\ DOMAIN q = Fields /\ q.at = "updating" /\ q.lane = r.lane /\ q.in = r.in /\ q.pid = r.pid
        /\ q.observed = r.observed /\ q.held = r.held
        /\ q.handlers = r.handlers /\ q.writes = r.writes /\ q.proof = r.proof /\ q.closers = r.closers
    BY DEF Update, Runs, Shape, Shaped, Fields
  <1> HIDE DEF r, q
  <1> QED BY <1>1, <1>2
          DEF r, q, Goes, Shaped, Sane, Live, Evolves, Claims, HoldsSoundly, ClosesSoundly, WritesSoundly

LEMMA FetchedGoes ==
    ASSUME Runs, NEW p \in Procs, Fetched(p) PROVE Only(p) /\ Goes(proc[p], proc'[p])
  <1> DEFINE r == proc[p]  q == proc'[p]
  <1>1. Only(p) /\ r.at = "updating" /\ Shaped(r) /\ Sane(r)
    BY DEF Only, Runs, Shape, Fetched
  <1>2. /\ DOMAIN q = Fields /\ q.at = "reading" /\ q.lane = r.lane /\ q.in = r.in /\ q.pid = r.pid
        /\ q.observed = r.observed \cup {"fetched", "publicSwarmFetchComplete"}
        /\ q.held = r.held \ {"consumerCore"}
        /\ q.handlers = r.handlers /\ q.writes = r.writes /\ q.proof = r.proof /\ q.closers = r.closers
    BY DEF Fetched, Runs, Shape, Shaped, Fields
  <1> HIDE DEF r, q
  <1>3. HoldsSoundly(q) /\ Told(q.observed) /\ Claims(q) = Claims(r)
    BY <1>1, <1>2 DEF Sane, HoldsSoundly, Held, Told, Observations, Claims
  <1> QED BY <1>1, <1>2, <1>3
          DEF r, q, Goes, Shaped, Sane, Live, Evolves, ClosesSoundly, WritesSoundly

\* A run that publishes claims to have published, and nothing else.
LEMMA PublishClaims ==
    ASSUME Runs, NEW p \in Procs, Publish(p)
    PROVE  /\ Only(p) /\ Shaped(proc'[p]) /\ Sane(proc'[p]) /\ Evolves(proc[p], proc'[p])
           /\ Claims(proc'[p]) \subseteq Claims(proc[p]) \cup {"published"}
           /\ proc'[p].in = proc[p].in /\ Live(proc[p])
  <1> DEFINE r == proc[p]  q == proc'[p]
  <1>1. Only(p) /\ r.at = "publishing" /\ Shaped(r) /\ Sane(r)
    BY DEF Only, Runs, Shape, Publish
  <1>2. /\ DOMAIN q = Fields /\ q.at = "serving" /\ q.lane = r.lane /\ q.in = r.in /\ q.pid = r.pid
        /\ q.observed = r.observed \cup {"published", "byteReference"}
        /\ q.held = r.held \cup {"publisherSwarm"}
        /\ q.handlers = r.handlers /\ q.writes = r.writes /\ q.proof = r.proof /\ q.closers = r.closers
    BY DEF Publish, Runs, Shape, Shaped, Fields
  <1> HIDE DEF r, q
  <1>3. HoldsSoundly(q) /\ Told(q.observed) /\ Claims(q) \subseteq Claims(r) \cup {"published"}
    BY <1>1, <1>2 DEF Sane, HoldsSoundly, Held, Swarms, Told, Observations, Claims
  <1> QED BY <1>1, <1>2, <1>3
          DEF r, q, Shaped, Sane, Live, Evolves, ClosesSoundly, WritesSoundly

LEMMA FailGoes ==
    ASSUME NEW r, Shaped(r), Sane(r), Live(r), r.at # "writing"
    PROVE  Goes(r, Fail(r))
  <1>1. r.lane = "pathway" => r.proof = None
    BY DEF Sane, WritesSoundly
  <1>2. CASE r.lane # "pathway"
    BY <1>1, <1>2, ClosingGoes DEF Fail
  <1>3. CASE r.lane = "pathway"
    <2> DEFINE a == [r EXCEPT !.observed = (@ \cap {"published", "served"}) \cup {Unresolved}]
    <2>1. /\ DOMAIN a = Fields /\ a.lane = r.lane /\ a.in = r.in /\ a.pid = r.pid
          /\ a.observed = (r.observed \cap {"published", "served"}) \cup {Unresolved}
          /\ a.held = r.held /\ a.handlers = r.handlers /\ a.writes = r.writes /\ a.proof = r.proof
          /\ a.closers = r.closers /\ a.at = r.at
      BY DEF Shaped, Fields
    <2>2. Fail(r) = ToClosing(a)
      BY <1>3 DEF Fail
    <2> HIDE DEF a
    <2>3. Shaped(a) /\ Live(a) /\ HoldsSoundly(a) /\ ClosesSoundly(a) /\ WritesSoundly(a)
      BY <1>1, <1>3, <2>1 DEF Shaped, Live, Sane, HoldsSoundly, ClosesSoundly, WritesSoundly
    <2>4. Told(a.observed) /\ Claims(a) \subseteq Claims(r) /\ Evolves(r, a)
      BY <2>1 DEF Told, Observations, Claims, Evolves, Live, Unresolved
    <2>5. Sane(a)
      BY <2>1, <2>3, <2>4 DEF Sane, Live
    <2>6. Goes(a, ToClosing(a))
      BY <1>1, <2>1, <2>3, <2>5, ClosingGoes
    <2> QED BY <2>1, <2>2, <2>3, <2>4, <2>6 DEF Goes, Evolves, Live
  <1> QED BY <1>2, <1>3

LEMMA StepFailsGoes ==
    ASSUME Runs, NEW p \in Procs, StepFails(p) PROVE Only(p) /\ Goes(proc[p], proc'[p])
  <1> DEFINE r == proc[p]
             closed == IF r.at = "updating" THEN {"consumerCore"} ELSE {}
  <1>1. PICK opened \in SUBSET Opening(p) :
            proc' = [proc EXCEPT ![p] = Fail([r EXCEPT !.held = (r.held \cup opened) \ closed])]
    BY DEF StepFails
  <1>2. /\ Shaped(r) /\ Sane(r) /\ Live(r) /\ r.at \notin {"writing", "closing"} /\ p \in DOMAIN proc /\ DOMAIN proc = Procs
    BY DEF Runs, Shape, StepFails, Live
  <1>3. opened \subseteq {"publisherCore", "consumerCore"} /\ ("publisherCore" \in opened => r.at = "serving")
    BY <1>1 DEF Opening
  <1> DEFINE a == [r EXCEPT !.held = (r.held \cup opened) \ closed]
  <1>4. /\ DOMAIN a = Fields /\ a.lane = r.lane /\ a.in = r.in /\ a.pid = r.pid
        /\ a.observed = r.observed /\ a.held = (r.held \cup opened) \ closed
        /\ a.handlers = r.handlers /\ a.writes = r.writes /\ a.proof = r.proof
        /\ a.closers = r.closers /\ a.at = r.at
    BY <1>2 DEF Shaped, Fields
  <1>5. proc' = [proc EXCEPT ![p] = Fail(a)]
    BY <1>1
  <1>6. closed \subseteq {"consumerCore"}
    OBVIOUS
  <1> HIDE DEF r, a, closed
  <1>7. HoldsSoundly(a)
    <2>1. HoldsSoundly(r)
      BY <1>2 DEF Sane
    <2>2. a.held \subseteq Held
      BY <1>3, <1>4, <2>1 DEF HoldsSoundly, Held
    <2>3. "publisherCore" \in a.held => "published" \in a.observed
      BY <1>3, <1>4, <2>1 DEF HoldsSoundly
    <2>4. "publisherSession" \in a.held => "publisherCore" \in a.held
      BY <1>3, <1>4, <1>6, <2>1 DEF HoldsSoundly
    <2> QED BY <1>4, <2>1, <2>2, <2>3, <2>4 DEF HoldsSoundly
  <1>8. Shaped(a) /\ Sane(a) /\ Live(a) /\ Evolves(r, a) /\ Claims(a) = Claims(r)
    <2>1. ClosesSoundly(a) /\ WritesSoundly(a)
      BY <1>2, <1>4 DEF Sane, ClosesSoundly, WritesSoundly
    <2>2. Sane(a) /\ Live(a)
      BY <1>2, <1>4, <1>7, <2>1 DEF Sane, Live
    <2> QED BY <1>2, <1>4, <2>2 DEF Shaped, Live, Evolves, Claims
  <1>9. Goes(a, Fail(a))
    BY <1>2, <1>4, <1>8, FailGoes
  <1>10. Goes(r, Fail(a))
    BY <1>2, <1>4, <1>8, <1>9 DEF Goes, Evolves, Live
  <1> QED BY <1>2, <1>5, <1>10 DEF Only, r

\* A run that has read its object back claims it, and nothing else.
LEMMA ReadBackClaims ==
    ASSUME Runs, NEW p \in Procs, ReadBack(p)
    PROVE  /\ Only(p) /\ Shaped(proc'[p]) /\ Sane(proc'[p]) /\ Evolves(proc[p], proc'[p])
           /\ Claims(proc'[p]) \subseteq Claims(proc[p]) \cup {"consumerReadbackAfterFetchVerified"}
           /\ proc'[p].in = proc[p].in /\ Live(proc[p])
  <1> DEFINE r == proc[p]
             new == {"descriptorHashVerified", "payloadHashVerified", "consumerReadbackAfterFetchVerified"}
             a == [r EXCEPT !.observed = @ \cup new]
  <1>1. proc' = [proc EXCEPT ![p] = ToClosing(a)]
    BY DEF ReadBack
  <1>2. /\ Shaped(r) /\ Sane(r) /\ Live(r) /\ r.at = "reading" /\ p \in DOMAIN proc /\ DOMAIN proc = Procs
    BY DEF Runs, Shape, ReadBack, Live
  <1>3. /\ DOMAIN a = Fields /\ a.lane = r.lane /\ a.in = r.in /\ a.pid = r.pid
        /\ a.observed = r.observed \cup new /\ a.held = r.held
        /\ a.handlers = r.handlers /\ a.writes = r.writes /\ a.proof = r.proof
        /\ a.closers = r.closers /\ a.at = r.at
    BY <1>2 DEF Shaped, Fields
  <1> HIDE DEF r, a
  <1>4. Told(a.observed) /\ Claims(a) \subseteq Claims(r) \cup {"consumerReadbackAfterFetchVerified"}
    BY <1>2, <1>3 DEF Sane, Told, Observations, Claims
  <1>5. HoldsSoundly(a) /\ ClosesSoundly(a) /\ WritesSoundly(a)
    BY <1>2, <1>3 DEF Sane, HoldsSoundly, ClosesSoundly, WritesSoundly
  <1>6. Shaped(a) /\ Sane(a) /\ Live(a) /\ Evolves(r, a)
    BY <1>2, <1>3, <1>4, <1>5 DEF Shaped, Live, Sane, Evolves
  <1>7. a.lane = "pathway" => a.proof = None
    BY <1>2, <1>3, <1>5 DEF WritesSoundly
  <1>8. Goes(a, ToClosing(a)) /\ ToClosing(a).in = a.in
    <2>1. ToClosing(a).in = a.in
      BY <1>3 DEF ToClosing, Fields
    <2> QED BY <1>6, <1>7, <2>1, ClosingGoes
  <1> DEFINE q == ToClosing(a)
  <1> HIDE DEF q
  <1>9. proc'[p] = q /\ Only(p)
    BY <1>1, <1>2 DEF Only, q
  <1> QED BY <1>2, <1>3, <1>4, <1>6, <1>8, <1>9 DEF Goes, Evolves, Live, r, q

LEMMA CloseStepGoes ==
    ASSUME Runs, NEW p \in Procs, NEW c \in Closing, CloseStep(p, c)
    PROVE  Only(p) /\ Goes(proc[p], proc'[p])
  <1> DEFINE r == proc[p]  q == proc'[p]
             x == Head(proc[p].closers[c])
             with == CASE x = "publisherSwarm" -> {x, "publisherSession"}
                       [] x = "consumerSwarm" -> {x, "consumerSession"}
                       [] OTHER -> {x}
  <1>1. Only(p) /\ r.at = "closing" /\ Shaped(r) /\ Sane(r) /\ r.closers[c] # <<>>
    BY DEF Only, Runs, Shape, CloseStep
  <1>2. /\ DOMAIN q = Fields /\ q.at = "closing" /\ q.lane = r.lane /\ q.in = r.in /\ q.pid = r.pid
        /\ q.observed = r.observed /\ q.held = r.held \ with
        /\ q.handlers = r.handlers /\ q.writes = r.writes /\ q.proof = r.proof
        /\ q.closers = [r.closers EXCEPT ![c] = Tail(@)]
    BY DEF CloseStep, Runs, Shape, Shaped, Fields
  <1>3. DOMAIN q.closers = Closing /\ \A e \in Closing : q.closers[e] = IF e = c THEN Tail(r.closers[e]) ELSE r.closers[e]
    BY <1>1, <1>2 DEF Shaped
  <1>4. ClosesSoundly(q) /\ HoldsSoundly(q)
    <2>1. CASE c = "served"
      <3>1. r.closers["served"] \in {<<"publisherCore">>, <<"publisherSession", "publisherCore">>}
        BY <1>1, <2>1 DEF Sane, ClosesSoundly
      <3>2. CASE r.closers["served"] = <<"publisherCore">>
        <4>1. Tail(r.closers["served"]) = <<>> /\ x = "publisherCore" /\ with = {"publisherCore"}
          BY <2>1, <3>2
        <4> HIDE DEF x, with, r, q
        <4> QED BY <1>1, <1>2, <1>3, <2>1, <3>2, <4>1 DEF Sane, ClosesSoundly, HoldsSoundly, Closing
      <3>3. CASE r.closers["served"] = <<"publisherSession", "publisherCore">>
        <4>1. Tail(r.closers["served"]) = <<"publisherCore">> /\ x = "publisherSession" /\ with = {"publisherSession"}
          BY <2>1, <3>3
        <4> HIDE DEF x, with, r, q
        <4> QED BY <1>1, <1>2, <1>3, <2>1, <3>3, <4>1 DEF Sane, ClosesSoundly, HoldsSoundly, Closing
      <3> QED BY <3>1, <3>2, <3>3
    <2>2. CASE c = "publisher"
      <3>1. r.closers["publisher"] \in {<<"publisherSwarm">>, <<"publisherSession", "publisherSwarm">>}
        BY <1>1, <2>2 DEF Sane, ClosesSoundly
      <3>2. CASE r.closers["publisher"] = <<"publisherSwarm">>
        <4>1. Tail(r.closers["publisher"]) = <<>> /\ x = "publisherSwarm" /\ with = {"publisherSwarm", "publisherSession"}
          BY <2>2, <3>2
        <4> HIDE DEF x, with, r, q
        <4> QED BY <1>1, <1>2, <1>3, <2>2, <3>2, <4>1 DEF Sane, ClosesSoundly, HoldsSoundly, Closing
      <3>3. CASE r.closers["publisher"] = <<"publisherSession", "publisherSwarm">>
        <4>1. Tail(r.closers["publisher"]) = <<"publisherSwarm">> /\ x = "publisherSession" /\ with = {"publisherSession"}
          BY <2>2, <3>3
        <4> HIDE DEF x, with, r, q
        <4> QED BY <1>1, <1>2, <1>3, <2>2, <3>3, <4>1 DEF Sane, ClosesSoundly, HoldsSoundly, Closing
      <3> QED BY <3>1, <3>2, <3>3
    <2>3. CASE c = "consumer"
      <3>1. r.closers["consumer"] \in {<<"consumerSwarm">>, <<"consumerSession", "consumerSwarm">>}
        BY <1>1, <2>3 DEF Sane, ClosesSoundly
      <3>2. CASE r.closers["consumer"] = <<"consumerSwarm">>
        <4>1. Tail(r.closers["consumer"]) = <<>> /\ with = {"consumerSwarm", "consumerSession"}
          BY <2>3, <3>2
        <4> HIDE DEF x, with, r, q
        <4> QED BY <1>1, <1>2, <1>3, <2>3, <4>1 DEF Sane, ClosesSoundly, HoldsSoundly, Closing
      <3>3. CASE r.closers["consumer"] = <<"consumerSession", "consumerSwarm">>
        <4>1. Tail(r.closers["consumer"]) = <<"consumerSwarm">> /\ with = {"consumerSession"}
          BY <2>3, <3>3
        <4> HIDE DEF x, with, r, q
        <4> QED BY <1>1, <1>2, <1>3, <2>3, <4>1 DEF Sane, ClosesSoundly, HoldsSoundly, Closing
      <3> QED BY <3>1, <3>2, <3>3
    <2> QED BY <2>1, <2>2, <2>3 DEF Closing
  <1> HIDE DEF r, q
  <1>5. Shaped(q) /\ Sane(q) /\ Evolves(r, q) /\ Claims(q) = Claims(r)
    BY <1>1, <1>2, <1>3, <1>4 DEF Shaped, Sane, Live, Evolves, Claims, WritesSoundly
  <1> QED BY <1>1, <1>5 DEF Goes, r, q

LEMMA CloseRejectsGoes ==
    ASSUME Runs, NEW p \in Procs, NEW c \in Closing, CloseRejects(p, c)
    PROVE  Only(p) /\ Goes(proc[p], proc'[p])
  <1> DEFINE r == proc[p]  q == proc'[p]
  <1>1. Only(p) /\ r.at = "closing" /\ Shaped(r) /\ Sane(r)
    BY DEF Only, Runs, Shape, CloseRejects
  <1>2. /\ DOMAIN q = Fields /\ q.at = "closing" /\ q.lane = r.lane /\ q.in = r.in /\ q.pid = r.pid
        /\ q.observed = r.observed /\ q.held = r.held
        /\ q.handlers = r.handlers /\ q.writes = r.writes /\ q.proof = r.proof
        /\ q.closers = [r.closers EXCEPT ![c] = <<>>]
    BY DEF CloseRejects, Runs, Shape, Shaped, Fields
  <1> HIDE DEF r, q
  <1>3. DOMAIN q.closers = Closing /\ \A e \in Closing : q.closers[e] \in {<<>>, r.closers[e]}
    BY <1>1, <1>2 DEF Shaped
  <1>4. ClosesSoundly(q) /\ HoldsSoundly(q)
    BY <1>1, <1>2, <1>3 DEF Sane, ClosesSoundly, HoldsSoundly, Closing
  <1>5. Shaped(q) /\ Sane(q) /\ Evolves(r, q) /\ Claims(q) = Claims(r)
    BY <1>1, <1>2, <1>3, <1>4 DEF Shaped, Sane, Live, Evolves, Claims, WritesSoundly
  <1> QED BY <1>1, <1>5 DEF Goes, r, q

LEMMA ClosedGoes ==
    ASSUME Runs, NEW p \in Procs, Closed(p) PROVE Only(p) /\ Goes(proc[p], proc'[p])
  <1> DEFINE r == proc[p]
             a == [r EXCEPT !.observed = r.observed \cup {"cleanupComplete"}]
             b == [r EXCEPT !.at = "leaving"]
             q == IF r.lane = "pathway" THEN ToWriting(a) ELSE b
  <1>1. proc' = [proc EXCEPT ![p] = q]
    BY DEF Closed
  <1>2. /\ Shaped(r) /\ Sane(r) /\ Live(r) /\ r.at = "closing" /\ p \in DOMAIN proc /\ DOMAIN proc = Procs
    BY DEF Runs, Shape, Closed, Live
  <1>3. /\ DOMAIN a = Fields /\ a.lane = r.lane /\ a.in = r.in /\ a.pid = r.pid
        /\ a.observed = r.observed \cup {"cleanupComplete"} /\ a.held = r.held
        /\ a.handlers = r.handlers /\ a.writes = r.writes /\ a.proof = r.proof
        /\ a.closers = r.closers /\ a.at = r.at
    BY <1>2 DEF Shaped, Fields
  <1>4. /\ DOMAIN b = Fields /\ b.lane = r.lane /\ b.in = r.in /\ b.pid = r.pid
        /\ b.observed = r.observed /\ b.held = r.held
        /\ b.handlers = r.handlers /\ b.writes = r.writes /\ b.proof = r.proof
        /\ b.closers = r.closers /\ b.at = "leaving"
    BY <1>2 DEF Shaped, Fields
  <1> HIDE DEF r, a, b
  <1>5. Told(a.observed) /\ Claims(a) = Claims(r)
    BY <1>2, <1>3 DEF Sane, Told, Observations, Claims
  <1>6. Shaped(a) /\ Sane(a) /\ Live(a) /\ Evolves(r, a)
    BY <1>2, <1>3, <1>5 DEF Shaped, Live, Sane, HoldsSoundly, ClosesSoundly, WritesSoundly, Evolves
  <1>7. Goes(r, ToWriting(a))
    <2>1. Goes(a, ToWriting(a))
      BY <1>6, WritingGoes
    <2> QED BY <1>2, <1>3, <1>5, <1>6, <2>1 DEF Goes, Evolves, Live
  <1>8. ASSUME r.lane # "pathway" PROVE Goes(r, b)
    BY <1>2, <1>4, <1>8
       DEF Goes, Shaped, Live, Sane, HoldsSoundly, ClosesSoundly, WritesSoundly, Evolves, Claims
  <1>9. Goes(r, q)
    BY <1>7, <1>8
  <1> HIDE DEF q
  <1> QED BY <1>1, <1>2, <1>9 DEF Only, r

LEMMA BeginWriteGoes ==
    ASSUME Runs, NEW p \in Procs, BeginWrite(p) PROVE Only(p) /\ Goes(proc[p], proc'[p])
  <1> DEFINE r == proc[p]  q == proc'[p]
  <1>1. Only(p) /\ r.at = "writing" /\ Shaped(r) /\ Sane(r)
    BY DEF Only, Runs, Shape, BeginWrite
  <1>2. /\ DOMAIN q = Fields /\ q.at = "writing" /\ q.lane = r.lane /\ q.in = r.in /\ q.pid = r.pid
        /\ q.observed = r.observed /\ q.held = r.held
        /\ q.handlers = r.handlers /\ q.writes = r.writes /\ q.proof = r.proof /\ q.closers = r.closers
    BY DEF BeginWrite, Runs, Shape, Shaped, Fields
  <1> HIDE DEF r, q
  <1> QED BY <1>1, <1>2
          DEF r, q, Goes, Shaped, Sane, Live, Evolves, Claims, HoldsSoundly, ClosesSoundly, WritesSoundly

LEMMA EndWriteGoes ==
    ASSUME Runs, NEW p \in Procs, EndWrite(p) PROVE Only(p) /\ Goes(proc[p], proc'[p])
  <1> DEFINE r == proc[p]
             a == [r EXCEPT !.begun = FALSE, !.writes = Tail(@)]
             q == IF a.writes = <<>> THEN AfterWriting(a) ELSE a
  <1>1. proc' = [proc EXCEPT ![p] = q]
    BY DEF EndWrite
  <1>2. /\ Shaped(r) /\ Sane(r) /\ Live(r) /\ r.at = "writing" /\ p \in DOMAIN proc /\ DOMAIN proc = Procs
    BY DEF Runs, Shape, EndWrite, Live
  <1>3. /\ DOMAIN a = Fields /\ a.lane = r.lane /\ a.in = r.in /\ a.pid = r.pid
        /\ a.observed = r.observed /\ a.held = r.held
        /\ a.handlers = r.handlers /\ a.writes = Tail(r.writes) /\ a.proof = r.proof
        /\ a.closers = r.closers /\ a.at = r.at
    BY <1>2 DEF Shaped, Fields
  <1>4. Tail(r.writes) \in {<<>>, <<"pid">>}
    <2>1. r.writes \in {<<"proof">>, <<"pid">>, <<"proof", "pid">>}
      BY <1>2 DEF Sane, WritesSoundly
    <2>2. Tail(<<"proof">>) = <<>> /\ Tail(<<"pid">>) = <<>> /\ Tail(<<"proof", "pid">>) = <<"pid">>
      OBVIOUS
    <2> HIDE DEF r
    <2> QED BY <2>1, <2>2
  <1> HIDE DEF r, a
  <1>5. ASSUME a.writes # <<>> PROVE Goes(r, q)
    <2>1. q = a
      BY <1>5 DEF q
    <2>2. HoldsSoundly(a) /\ ClosesSoundly(a) /\ WritesSoundly(a)
      BY <1>2, <1>3, <1>4, <1>5 DEF Sane, HoldsSoundly, ClosesSoundly, WritesSoundly
    <2>3. Sane(a) /\ Shaped(a) /\ Evolves(r, a) /\ Claims(a) = Claims(r)
      BY <1>2, <1>3, <2>2 DEF Shaped, Live, Sane, Evolves, Claims
    <2> HIDE DEF q
    <2> QED BY <2>1, <2>3 DEF Goes
  <1>6. ASSUME a.writes = <<>> /\ a.lane = "pathway" PROVE Goes(r, q)
    <2>1. q = Gone
      BY <1>6 DEF q, AfterWriting
    <2>2. r.at # "idle"
      BY <1>2
    <2> HIDE DEF q
    <2> QED BY <2>1, <2>2, GoneGoes
  <1>7. ASSUME a.writes = <<>> /\ a.lane # "pathway" PROVE Goes(r, q)
    <2> DEFINE b == [a EXCEPT !.at = IF a.proof.status = "complete" THEN "registering" ELSE "leaving"]
    <2>1. q = b
      BY <1>7 DEF q, AfterWriting
    <2>2. /\ DOMAIN b = Fields /\ b.lane = a.lane /\ b.in = a.in /\ b.pid = a.pid
          /\ b.observed = a.observed /\ b.held = a.held
          /\ b.handlers = a.handlers /\ b.writes = a.writes /\ b.proof = a.proof
          /\ b.closers = a.closers /\ b.at \in {"registering", "leaving"}
      BY <1>3 DEF Fields
    <2> HIDE DEF b, q
    <2>3. HoldsSoundly(b) /\ ClosesSoundly(b) /\ WritesSoundly(b)
      BY <1>2, <1>3, <1>7, <2>2 DEF Sane, HoldsSoundly, ClosesSoundly, WritesSoundly
    <2>4. Sane(b) /\ Shaped(b) /\ Evolves(r, b) /\ Claims(b) = Claims(r)
      BY <1>2, <1>3, <2>2, <2>3 DEF Shaped, Live, Sane, Evolves, Claims
    <2> QED BY <2>1, <2>4 DEF Goes
  <1> HIDE DEF q
  <1>8. Goes(r, q)
    BY <1>5, <1>6, <1>7
  <1> QED BY <1>1, <1>2, <1>8 DEF Only, r

LEMMA WriteFailsGoes ==
    ASSUME Runs, NEW p \in Procs, WriteFails(p) PROVE Only(p) /\ Goes(proc[p], proc'[p])
  <1> DEFINE r == proc[p]
             q == IF r.lane = "pathway" THEN Gone ELSE ToClosing(r)
  <1>1. proc' = [proc EXCEPT ![p] = q]
    BY DEF WriteFails
  <1>2. /\ Shaped(r) /\ Sane(r) /\ Live(r) /\ r.at = "writing" /\ p \in DOMAIN proc /\ DOMAIN proc = Procs
    BY DEF Runs, Shape, WriteFails, Live
  <1> HIDE DEF r
  <1>3. Goes(r, q)
    BY <1>2, GoneGoes, ClosingGoes
  <1> HIDE DEF q
  <1> QED BY <1>1, <1>2, <1>3 DEF Only, r

LEMMA RegisterGoes ==
    ASSUME Runs, NEW p \in Procs, Register(p) PROVE Only(p) /\ Goes(proc[p], proc'[p])
  <1> DEFINE r == proc[p]  q == proc'[p]
  <1>1. Only(p) /\ r.at = "registering" /\ Shaped(r) /\ Sane(r)
    BY DEF Only, Runs, Shape, Register
  <1>2. /\ DOMAIN q = Fields /\ q.at = "running" /\ q.lane = r.lane /\ q.in = r.in /\ q.pid = r.pid
        /\ q.observed = r.observed /\ q.held = r.held /\ q.handlers = {"SIGTERM", "SIGINT"}
        /\ q.writes = r.writes /\ q.proof = r.proof /\ q.closers = r.closers
    BY DEF Register, Runs, Shape, Shaped, Fields
  <1> HIDE DEF r, q
  <1> QED BY <1>1, <1>2
          DEF r, q, Goes, Shaped, Sane, Live, Evolves, Claims, HoldsSoundly, ClosesSoundly, WritesSoundly

LEMMA LeaveGoes ==
    ASSUME Runs, NEW p \in Procs, Leave(p) PROVE Only(p) /\ Goes(proc[p], proc'[p])
  <1>1. Only(p) /\ proc[p].at = "leaving" /\ proc'[p] = Gone
    BY DEF Only, Runs, Shape, Leave
  <1> QED BY <1>1, GoneGoes

LEMMA InterruptGoes ==
    ASSUME Runs, NEW p \in Procs, Interrupt(p) PROVE Only(p) /\ Goes(proc[p], proc'[p])
  <1>1. PICK r \in {Signalled(proc[p], "SIGINT"), Gone} : proc' = [proc EXCEPT ![p] = r]
    BY DEF Interrupt
  <1>2. Shaped(proc[p]) /\ Sane(proc[p]) /\ Live(proc[p]) /\ Only(p) /\ proc'[p] = r
    BY <1>1 DEF Runs, Shape, Interrupt, Alive, Live, Only
  <1>3. proc[p].at # "idle"
    BY <1>2 DEF Live
  <1> QED BY <1>1, <1>2, <1>3, GoneGoes, SignalledGoes

\* A signal reaches whoever has the pid.
LEMMA DownSignalsGoes ==
    ASSUME Runs, NEW d \in Downs, DownSignals(d)
    PROVE  DOMAIN proc' = Procs /\ \A p \in Procs : proc'[p] = proc[p] \/ Goes(proc[p], proc'[p])
  <1>1. proc' = [p \in Procs |-> IF HasPid(p, down[d].target.pid) THEN Signalled(proc[p], "SIGTERM") ELSE proc[p]]
    BY DEF DownSignals
  <1>2. ASSUME NEW p \in Procs PROVE proc'[p] = proc[p] \/ Goes(proc[p], proc'[p])
    <2>1. CASE HasPid(p, down[d].target.pid)
      <3>1. Shaped(proc[p]) /\ Sane(proc[p]) /\ Live(proc[p])
        BY <2>1 DEF Runs, Shape, HasPid, Alive, Live
      <3>2. proc'[p] = Signalled(proc[p], "SIGTERM")
        BY <1>1, <2>1
      <3> QED BY <3>1, <3>2, SignalledGoes
    <2>2. CASE ~HasPid(p, down[d].target.pid)
      BY <1>1, <2>2
    <2> QED BY <2>1, <2>2
  <1> QED BY <1>1, <1>2

\* What a step makes of every run, whoever takes it.
LEMMA EveryRun ==
    ASSUME Runs, [LNext]_lvars
    PROVE  /\ DOMAIN proc' = Procs
           /\ \A p \in Procs :
                 /\ Shaped(proc'[p]) /\ Sane(proc'[p]) /\ Evolves(proc[p], proc'[p])
                 /\ proc[p].at = "idle" /\ proc'[p].at # "idle" => Start(p)
                 /\ "published" \in proc'[p].observed => "published" \in proc[p].observed \/ Publish(p)
                 /\ "consumerReadbackAfterFetchVerified" \in proc'[p].observed =>
                       "consumerReadbackAfterFetchVerified" \in proc[p].observed \/ ReadBack(p)
  <1> DEFINE Fine(p) == /\ Shaped(proc'[p]) /\ Sane(proc'[p]) /\ Evolves(proc[p], proc'[p])
                        /\ proc[p].at = "idle" /\ proc'[p].at # "idle" => Start(p)
                        /\ "published" \in proc'[p].observed => "published" \in proc[p].observed \/ Publish(p)
                        /\ "consumerReadbackAfterFetchVerified" \in proc'[p].observed =>
                              "consumerReadbackAfterFetchVerified" \in proc[p].observed \/ ReadBack(p)
             Goal == DOMAIN proc' = Procs /\ \A p \in Procs : Fine(p)
  <1> SUFFICES Goal
    OBVIOUS
  <1>1. ASSUME NEW p \in Procs, proc'[p] = proc[p] PROVE Fine(p)
    BY <1>1 DEF Runs, Shape, Evolves, Live
  <1>2. ASSUME NEW p \in Procs, Goes(proc[p], proc'[p]), proc[p].at # "idle" \/ Start(p) PROVE Fine(p)
    BY <1>2 DEF Goes, Claims
  <1>3. ASSUME proc' = proc PROVE Goal
    BY <1>1, <1>3 DEF Runs, Shape
  <1>4. ASSUME NEW p \in Procs, Only(p), Fine(p) PROVE Goal
    <2> HIDE DEF Fine
    <2>1. ASSUME NEW q \in Procs \ {p} PROVE Fine(q)
      BY <1>1, <1>4 DEF Only
    <2> QED BY <1>4, <2>1 DEF Only
  <1>5. ASSUME NEW p \in Procs, Only(p), Goes(proc[p], proc'[p]), proc[p].at # "idle" \/ Start(p) PROVE Goal
    <2> HIDE DEF Fine, Goal
    <2> QED BY <1>2, <1>4, <1>5
  <1>6. ASSUME NEW p \in Procs, Publish(p) PROVE Goal
    <2>1. proc[p].at # "idle"
      BY <1>6 DEF Publish
    <2>2. Fine(p)
      BY <1>6, <2>1, PublishClaims DEF Claims
    <2> HIDE DEF Fine, Goal
    <2> QED BY <1>4, <1>6, <2>2, PublishClaims
  <1>7. ASSUME NEW p \in Procs, ReadBack(p) PROVE Goal
    <2>1. proc[p].at # "idle"
      BY <1>7 DEF ReadBack
    <2>2. Fine(p)
      BY <1>7, <2>1, ReadBackClaims DEF Claims
    <2> HIDE DEF Fine, Goal
    <2> QED BY <1>4, <1>7, <2>2, ReadBackClaims
  <1>8. ASSUME NEW d \in Downs, DownSignals(d) PROVE Goal
    <2>1. ASSUME NEW p \in Procs PROVE Fine(p)
      <3>1. CASE proc'[p] = proc[p]
        BY <1>1, <3>1
      <3>2. CASE Goes(proc[p], proc'[p]) /\ proc'[p] # proc[p]
        <4>1. proc[p].at # "idle"
          BY <1>8, <3>2 DEF DownSignals, HasPid, Alive
        <4> HIDE DEF Fine
        <4> QED BY <1>2, <3>2, <4>1
      <3> QED BY <1>8, <3>1, <3>2, DownSignalsGoes
    <2> QED BY <1>8, <2>1, DownSignalsGoes
  <1>9. ASSUME NEW p \in Procs, Start(p) PROVE Goal
    BY <1>5, <1>9, StartGoes
  <1> HIDE DEF Fine, Goal
  <1>10. ASSUME NEW p \in Procs, Run(p) PROVE Goal
    <2>1. Publish(p) \/ ReadBack(p) => Goal
      BY <1>6, <1>7
    <2>2. ASSUME Serve(p) \/ Announced(p) \/ Search(p) \/ Update(p) \/ Fetched(p) PROVE Goal
      <3>1. Only(p) /\ Goes(proc[p], proc'[p])
        BY <2>2, ServeGoes, AnnouncedGoes, SearchGoes, UpdateGoes, FetchedGoes
      <3>2. proc[p].at # "idle"
        BY <2>2 DEF Serve, Announced, Search, Update, Fetched
      <3> QED BY <1>5, <3>1, <3>2
    <2>3. Replicate(p) => Goal
      BY <1>3 DEF Replicate
    <2> QED BY <1>10, <2>1, <2>2, <2>3 DEF Run
  <1>11. ASSUME NEW p \in Procs, Finish(p) \/ Fault(p) PROVE Goal
    <2>1. Only(p) /\ Goes(proc[p], proc'[p])
      BY <1>11, ClosedGoes, BeginWriteGoes, EndWriteGoes, RegisterGoes, LeaveGoes, CloseStepGoes,
         StepFailsGoes, WriteFailsGoes, InterruptGoes, CloseRejectsGoes DEF Finish, Fault
    <2>2. proc[p].at # "idle"
      BY <1>11 DEF Finish, Fault, Closed, BeginWrite, EndWrite, Register, Leave, CloseStep,
                   StepFails, WriteFails, Interrupt, Alive, CloseRejects
    <2> QED BY <1>5, <2>1, <2>2
  <1>12. ASSUME NEW d \in Downs, Down(d) \/ Stop(d) PROVE Goal
    BY <1>3, <1>8, <1>12 DEF Down, Stop, DownReads, DownPolls, DeadlinePasses
  <1>13. ASSUME NEW i \in AllPids, ForeignProcess(i) PROVE Goal
    BY <1>3, <1>13 DEF ForeignProcess
  <1>14. UNCHANGED lvars => Goal
    BY <1>3 DEF lvars
  <1> QED BY <1>9, <1>10, <1>11, <1>12, <1>13, <1>14 DEF LNext

\* Which steps change the other variables.
LEMMA Writers ==
    ASSUME [LNext]_lvars
    PROVE  /\ stored' = stored \/ \E p \in Procs : Publish(p) \/ Replicate(p) \/ Fetched(p)
           /\ file' = file \/ \E p \in Procs : BeginWrite(p) \/ EndWrite(p)
           /\ down' = down \/ \E d \in Downs : Down(d) \/ Stop(d)
           /\ foreign' = foreign \/ (\E d \in Downs : DownSignals(d)) \/ (\E i \in AllPids : ForeignProcess(i))
  <1> DEFINE Goal == /\ stored' = stored \/ \E p \in Procs : Publish(p) \/ Replicate(p) \/ Fetched(p)
                     /\ file' = file \/ \E p \in Procs : BeginWrite(p) \/ EndWrite(p)
                     /\ down' = down \/ \E d \in Downs : Down(d) \/ Stop(d)
                     /\ foreign' = foreign \/ (\E d \in Downs : DownSignals(d))
                                           \/ (\E i \in AllPids : ForeignProcess(i))
  <1>1. ASSUME NEW p \in Procs, Start(p) PROVE Goal
    BY <1>1 DEF Start
  <1>2. ASSUME NEW p \in Procs, Run(p) PROVE Goal
    BY <1>2 DEF Run, Publish, Serve, Announced, Search, Update, Replicate, Fetched, ReadBack
  <1>3. ASSUME NEW p \in Procs, Finish(p) PROVE Goal
    BY <1>3 DEF Finish, Closed, BeginWrite, EndWrite, Register, Leave, CloseStep
  <1>4. ASSUME NEW p \in Procs, Fault(p) PROVE Goal
    BY <1>4 DEF Fault, StepFails, WriteFails, Interrupt, CloseRejects
  <1>5. ASSUME NEW d \in Downs, Down(d) \/ Stop(d) PROVE Goal
    BY <1>5 DEF Down, Stop, DownReads, DownSignals, DownPolls, DeadlinePasses
  <1>6. ASSUME NEW i \in AllPids, ForeignProcess(i) PROVE Goal
    BY <1>6 DEF ForeignProcess
  <1>7. UNCHANGED lvars => Goal
    BY DEF lvars
  <1> QED BY <1>1, <1>2, <1>3, <1>4, <1>5, <1>6, <1>7 DEF LNext

\* The record of a down command keeps its fields.
LEMMA DownShaped ==
    ASSUME Shape, NEW d \in Downs, Down(d) \/ Stop(d)
    PROVE  /\ DOMAIN down' = Downs /\ DOMAIN down'[d] = DownFields
           /\ \A e \in Downs \ {d} : down'[e] = down[e]
           /\ down'[d].at \in {"failed", "reading", "signalling", "polling", "done"}
  <1>1. DOMAIN down = Downs /\ DOMAIN down[d] = DownFields
    BY DEF Shape
  <1>2. CASE Down(d)
    BY <1>1, <1>2 DEF Down, DownFields
  <1>3. CASE DownReads(d)
    BY <1>1, <1>3 DEF DownReads, DownFields
  <1>4. CASE DownSignals(d)
    <2>1. PICK reached \in BOOLEAN : down' = [down EXCEPT ![d].at = "polling", ![d].stopped = reached]
      BY <1>4 DEF DownSignals
    <2> QED BY <1>1, <2>1 DEF DownFields
  <1>5. CASE DownPolls(d)
    BY <1>1, <1>5 DEF DownPolls, Report, DownFields
  <1>6. CASE DeadlinePasses(d)
    <2> DEFINE r == [down[d] EXCEPT !.late = TRUE]
    <2>1. down' = [down EXCEPT ![d] = Report(r, down[d].stopped)]
      BY <1>6 DEF DeadlinePasses
    <2>2. DOMAIN r = DownFields
      BY <1>1 DEF DownFields
    <2> HIDE DEF r
    <2> QED BY <1>1, <2>1, <2>2 DEF Report, DownFields
  <1> QED BY <1>2, <1>3, <1>4, <1>5, <1>6 DEF Stop

LEMMA RunsStep == ASSUME Runs, [LNext]_lvars PROVE Runs'
  <1>1. DOMAIN proc' = Procs /\ \A p \in Procs : Shaped(proc'[p]) /\ Sane(proc'[p])
    BY EveryRun
  <1>2. DOMAIN stored' = Storages
    <2>1. CASE stored' = stored
      BY <2>1 DEF Runs, Shape
    <2>2. ASSUME NEW p \in Procs, Publish(p) \/ Replicate(p) \/ Fetched(p) PROVE DOMAIN stored' = Storages
      BY <2>2 DEF Runs, Shape, Publish, Replicate, Fetched
    <2> QED BY <2>1, <2>2, Writers
  <1>3. DOMAIN file' = Files
    <2>1. CASE file' = file
      BY <2>1 DEF Runs, Shape
    <2>2. ASSUME NEW p \in Procs, BeginWrite(p) \/ EndWrite(p) PROVE DOMAIN file' = Files
      BY <2>2 DEF Runs, Shape, BeginWrite, EndWrite
    <2> QED BY <2>1, <2>2, Writers
  <1>4. DOMAIN down' = Downs /\ \A d \in Downs : DOMAIN down'[d] = DownFields
    <2>1. CASE down' = down
      BY <2>1 DEF Runs, Shape
    <2>2. ASSUME NEW d \in Downs, Down(d) \/ Stop(d)
          PROVE  DOMAIN down' = Downs /\ \A e \in Downs : DOMAIN down'[e] = DownFields
      BY <2>2, DownShaped DEF Runs, Shape
    <2> QED BY <2>1, <2>2, Writers
  <1> QED BY <1>1, <1>2, <1>3, <1>4 DEF Runs, Shape

-----------------------------------------------------------------------------
(***************************************************************************)
(* Pids and files: a pid file names the pid of the run that wrote it, for  *)
(* as long as the run lives, and no other live process has that pid.       *)
(***************************************************************************)
PidsDistinct ==
    /\ \A p \in Procs : proc[p].pid \in Pids[p] \cup {None}
    /\ \A p, q \in Procs : Alive(p) /\ HasPid(q, proc[p].pid) => p = q
    /\ \A i \in foreign : i \in AllPids /\ \A p \in Procs : ~HasPid(p, i)

Tells(w) == w.by \in Procs /\ proc[w.by].at # "idle" /\ (Alive(w.by) => proc[w.by].pid = w.pid)

PidFilesTell ==
    /\ file["pid"] \notin {None, Torn} => Tells(file["pid"])
    /\ \A d \in Downs : down[d].at \notin {"idle", "failed"} => Tells(down[d].target)

\* A down record is what its command found, and right if it was answered in time.
Recorded ==
    \A d \in Downs : down[d].at = "done" =>
        /\ down[d].record = DownRecord(down[d].proof, down[d].stopped)
        /\ down[d].stopped /\ ~down[d].late => ~Alive(down[d].target.by)

LEMMA PidsStep == ASSUME Runs, PidsDistinct, [LNext]_lvars PROVE PidsDistinct'
  <1>1. \A p \in Procs : /\ Sane(proc'[p]) /\ Evolves(proc[p], proc'[p])
                         /\ proc[p].at = "idle" /\ proc'[p].at # "idle" => Start(p)
    BY EveryRun
  <1>2. ASSUME NEW p \in Procs, Start(p)
        PROVE  /\ proc'[p].pid \in Pids[p] \ foreign /\ foreign' = foreign
               /\ \A q \in Procs : ~HasPid(q, proc'[p].pid)
               /\ \A q \in Procs \ {p} : proc'[q] = proc[q]
    <2>1. PICK cmd \in Commands[p], i \in Pids[p] \ foreign :
             /\ \A q \in Procs : ~HasPid(q, i)
             /\ LET r == [Fresh EXCEPT !.lane = cmd.lane, !.in = cmd.in, !.pid = i] IN
                proc' = [proc EXCEPT ![p] =
                    IF InputIssues(cmd.lane, cmd.in) # {}
                    THEN ToWriting([r EXCEPT !.observed =
                                        IF cmd.lane = "pathway" THEN {"cleanupComplete"} ELSE {}])
                    ELSE [r EXCEPT !.at = "publishing",
                                   !.held = IF cmd.lane = "pathway" THEN Swarms ELSE {}]]
      BY <1>2 DEF Start
    <2> DEFINE r == [Fresh EXCEPT !.lane = cmd.lane, !.in = cmd.in, !.pid = i]
               observed == IF cmd.lane = "pathway" THEN {"cleanupComplete"} ELSE {}
               a == [r EXCEPT !.observed = observed]
               b == [r EXCEPT !.at = "publishing", !.held = IF cmd.lane = "pathway" THEN Swarms ELSE {}]
               w == ToWriting(a)
    <2>2. Only(p) /\ proc'[p] \in {w, b}
      BY <2>1 DEF Only, Runs, Shape
    <2>3. DOMAIN r = Fields /\ r.pid = i /\ r.closers = [c \in Closing |-> <<>>]
      BY DEF Fresh, Fields
    <2> HIDE DEF r
    <2>4. b.pid = i /\ a.pid = i /\ Shaped(a)
      BY <2>3 DEF Fields, Shaped
    <2> HIDE DEF a, b
    <2>5. w.pid = i
      BY <2>4, WritingIs
    <2> HIDE DEF w
    <2> QED BY <1>2, <2>1, <2>2, <2>4, <2>5 DEF Only, Start
  <1>3. ASSUME NEW p \in Procs, Live(proc'[p]) PROVE Start(p) \/ (Live(proc[p]) /\ proc'[p].pid = proc[p].pid)
    BY <1>1, <1>3 DEF Evolves, Live
  <1>4. ASSUME NEW p \in Procs PROVE proc'[p].pid \in Pids[p] \cup {None}
    BY <1>1, <1>2, <1>3 DEF PidsDistinct, Sane
  <1>5. ASSUME NEW p \in Procs, NEW q \in Procs, Live(proc'[p]), Live(proc'[q]), proc'[q].pid = proc'[p].pid
        PROVE  p = q
    <2>1. CASE Start(p)
      BY <1>2, <1>5, <2>1 DEF HasPid, Alive, Live
    <2>2. CASE Start(q)
      BY <1>2, <1>5, <2>2 DEF HasPid, Alive, Live
    <2>3. CASE ~Start(p) /\ ~Start(q)
      BY <1>3, <1>5, <2>3 DEF PidsDistinct, HasPid, Alive, Live
    <2> QED BY <2>1, <2>2, <2>3
  <1>6. ASSUME NEW i \in foreign', NEW p \in Procs, Live(proc'[p]), proc'[p].pid = i PROVE FALSE
    <2>1. CASE Start(p)
      BY <1>2, <1>6, <2>1
    <2>2. CASE Live(proc[p]) /\ proc[p].pid = i
      <3>1. i \notin foreign
        BY <2>2 DEF PidsDistinct, HasPid, Alive, Live
      <3>2. ~ForeignProcess(i)
        BY <2>2 DEF ForeignProcess, HasPid, Alive, Live
      <3>3. i \notin foreign'
        <4>1. CASE foreign' = foreign
          BY <3>1, <4>1
        <4>2. ASSUME NEW d \in Downs, DownSignals(d) PROVE i \notin foreign'
          BY <3>1, <4>2 DEF DownSignals
        <4>3. ASSUME NEW j \in AllPids, ForeignProcess(j) PROVE i \notin foreign'
          <5>1. j # i
            BY <3>2, <4>3
          <5> QED BY <3>1, <4>3, <5>1 DEF ForeignProcess
        <4> QED BY <4>1, <4>2, <4>3, Writers
      <3> QED BY <1>6, <3>3
    <2> QED BY <1>3, <1>6, <2>1, <2>2
  <1>7. foreign' \subseteq AllPids
    <2>1. foreign \subseteq AllPids
      BY DEF PidsDistinct
    <2> QED BY <2>1, Writers DEF DownSignals, ForeignProcess
  <1> QED BY <1>4, <1>5, <1>6, <1>7 DEF PidsDistinct, HasPid, Alive, Live

LEMMA TellsKept ==
    ASSUME Runs, [LNext]_lvars, NEW w, Tells(w)
    PROVE  w.by \in Procs /\ proc'[w.by].at # "idle" /\ (Live(proc'[w.by]) => proc'[w.by].pid = w.pid)
  <1>1. w.by \in Procs /\ Evolves(proc[w.by], proc'[w.by])
    BY EveryRun DEF Tells
  <1> QED BY <1>1 DEF Tells, Evolves, Live, Alive

LEMMA FilesStep == ASSUME Runs, PidFilesTell, [LNext]_lvars PROVE PidFilesTell'
  <1> DEFINE TellsNext(w) == /\ w.by \in Procs /\ proc'[w.by].at # "idle"
                             /\ Live(proc'[w.by]) => proc'[w.by].pid = w.pid
  <1>1. ASSUME NEW w, Tells(w) PROVE TellsNext(w)
    BY <1>1, TellsKept
  <1>2. ASSUME file'["pid"] \notin {None, Torn} PROVE TellsNext(file'["pid"])
    <2>1. CASE file'["pid"] = file["pid"]
      <3>1. Tells(file["pid"])
        BY <1>2, <2>1 DEF PidFilesTell
      <3> HIDE DEF TellsNext
      <3> QED BY <1>1, <2>1, <3>1
    <2>2. ASSUME NEW p \in Procs, BeginWrite(p), file'["pid"] # file["pid"] PROVE FALSE
      <3>1. file'["pid"] = Torn
        BY <2>2 DEF BeginWrite, Runs, Shape
      <3> QED BY <1>2, <3>1
    <2>3. ASSUME NEW p \in Procs, EndWrite(p), file'["pid"] # file["pid"] PROVE TellsNext(file'["pid"])
      <3> DEFINE f == Head(proc[p].writes)
      <3>1. PICK after \in {Content(p, f)} \cup (IF file[f] = Torn THEN {} ELSE {Torn}) :
               file' = [file EXCEPT ![f] = after]
        BY <2>3 DEF EndWrite
      <3>2. f = "pid" /\ file'["pid"] = after
        BY <2>3, <3>1 DEF Runs, Shape
      <3>3. after = [by |-> p, pid |-> proc[p].pid]
        BY <1>2, <3>1, <3>2 DEF Content
      <3>4. Tells(after) 
        BY <2>3, <3>3 DEF Tells, EndWrite
      <3> HIDE DEF TellsNext
      <3> QED BY <1>1, <3>2, <3>4
    <2> HIDE DEF TellsNext
    <2> QED BY <2>1, <2>2, <2>3, Writers
  <1>3. ASSUME NEW d \in Downs, down'[d].at \notin {"idle", "failed"} PROVE TellsNext(down'[d].target)
    <2>1. CASE down'[d] = down[d]
      <3>1. Tells(down[d].target)
        BY <1>3, <2>1 DEF PidFilesTell
      <3> HIDE DEF TellsNext
      <3> QED BY <1>1, <2>1, <3>1
    <2>2. ASSUME Down(d) PROVE TellsNext(down'[d].target)
      <3>1. down'[d].target = file["pid"] /\ file["pid"] \notin {None, Torn}
        BY <1>3, <2>2 DEF Down, Runs, Shape, DownFields
      <3>2. Tells(file["pid"])
        BY <3>1 DEF PidFilesTell
      <3> HIDE DEF TellsNext
      <3> QED BY <1>1, <3>1, <3>2
    <2>3. ASSUME Stop(d) PROVE TellsNext(down'[d].target)
      <3>1. down[d].at \notin {"idle", "failed"}
        BY <2>3 DEF Stop, DownReads, DownSignals, DownPolls, DeadlinePasses
      <3>2. down'[d].target = down[d].target
        <4>1. DOMAIN down = Downs /\ DOMAIN down[d] = DownFields
          BY DEF Runs, Shape
        <4>2. CASE DownReads(d)
          BY <4>1, <4>2 DEF DownReads, DownFields
        <4>3. CASE DownSignals(d)
          <5>1. PICK reached \in BOOLEAN : down' = [down EXCEPT ![d].at = "polling", ![d].stopped = reached]
            BY <4>3 DEF DownSignals
          <5> QED BY <4>1, <5>1 DEF DownFields
        <4>4. CASE DownPolls(d)
          BY <4>1, <4>4 DEF DownPolls, Report, DownFields
        <4>5. CASE DeadlinePasses(d)
          <5> DEFINE r == [down[d] EXCEPT !.late = TRUE]
          <5>1. down' = [down EXCEPT ![d] = Report(r, down[d].stopped)]
            BY <4>5 DEF DeadlinePasses
          <5>2. DOMAIN r = DownFields /\ r.target = down[d].target
            BY <4>1 DEF DownFields
          <5> HIDE DEF r
          <5> QED BY <4>1, <5>1, <5>2 DEF Report, DownFields
        <4> QED BY <2>3, <4>2, <4>3, <4>4, <4>5 DEF Stop
      <3>3. Tells(down[d].target)
        BY <3>1 DEF PidFilesTell
      <3> HIDE DEF TellsNext
      <3> QED BY <1>1, <3>2, <3>3
    <2>4. down'[d] = down[d] \/ Down(d) \/ Stop(d)
      BY Writers, DownShaped DEF Runs
    <2> HIDE DEF TellsNext
    <2> QED BY <2>1, <2>2, <2>3, <2>4
  <1> QED BY <1>2, <1>3 DEF PidFilesTell, Tells, Alive, Live

LEMMA RecordStep == ASSUME Runs, PidFilesTell, Recorded, [LNext]_lvars PROVE Recorded'
  <1> SUFFICES ASSUME NEW d \in Downs, down'[d].at = "done"
               PROVE  /\ down'[d].record = DownRecord(down'[d].proof, down'[d].stopped)
                      /\ down'[d].stopped /\ ~down'[d].late => ~Live(proc'[down'[d].target.by])
    BY DEF Recorded, Alive, Live
  <1>1. DOMAIN down = Downs /\ DOMAIN down[d] = DownFields
    BY DEF Runs, Shape
  <1>2. CASE down'[d] = down[d]
    <2>1. Tells(down[d].target)
      BY <1>2 DEF PidFilesTell
    <2>2. Evolves(proc[down[d].target.by], proc'[down[d].target.by])
      BY <2>1, EveryRun DEF Tells
    <2> QED BY <1>2, <2>1, <2>2 DEF Recorded, Evolves, Live, Alive, Tells
  <1>3. CASE DownPolls(d)
    <2>1. /\ down'[d].record = DownRecord(down'[d].proof, down'[d].stopped)
          /\ down'[d].target = down[d].target /\ proc' = proc
      BY <1>1, <1>3 DEF DownPolls, Report, DownFields
    <2>2. Tells(down[d].target) /\ \A p \in Procs : ~HasPid(p, down[d].target.pid)
      BY <1>3 DEF DownPolls, PidFilesTell
    <2> QED BY <2>1, <2>2 DEF Tells, HasPid, Alive, Live
  <1>4. CASE DeadlinePasses(d)
    <2> DEFINE r == [down[d] EXCEPT !.late = TRUE]
    <2>1. down' = [down EXCEPT ![d] = Report(r, down[d].stopped)]
      BY <1>4 DEF DeadlinePasses
    <2>2. DOMAIN r = DownFields /\ r.late = TRUE
      BY <1>1 DEF DownFields
    <2> HIDE DEF r
    <2> QED BY <1>1, <2>1, <2>2 DEF Report, DownFields
  <1>5. ASSUME Down(d) \/ DownReads(d) \/ DownSignals(d) PROVE FALSE
    <2>1. CASE Down(d)
      BY <1>1, <2>1 DEF Down, DownFields
    <2>2. CASE DownReads(d)
      BY <1>1, <2>2 DEF DownReads, DownFields
    <2>3. CASE DownSignals(d)
      <3>1. PICK reached \in BOOLEAN : down' = [down EXCEPT ![d].at = "polling", ![d].stopped = reached]
        BY <2>3 DEF DownSignals
      <3> QED BY <1>1, <3>1 DEF DownFields
    <2> QED BY <1>5, <2>1, <2>2, <2>3
  <1>6. down'[d] = down[d] \/ Down(d) \/ Stop(d)
    BY Writers, DownShaped DEF Runs
  <1> QED BY <1>2, <1>3, <1>4, <1>5, <1>6 DEF Stop

-----------------------------------------------------------------------------
(***************************************************************************)
(* Storages: what a run has published, or has read back, is in its storage *)
(* for good, whoever else is given the same one.                           *)
(***************************************************************************)
StoredOf(s, in, whole) == stored[s] = CoreOf(in, whole)

\* What a storage holds is of an object that its own storage has whole.
CopiesOfPublished ==
    \A s \in Storages : stored[s] # None =>
        \E in \in Ins, whole \in BOOLEAN : StoredOf(s, in, whole) /\ StoredOf(in.publisher, in, TRUE)

Backed ==
    \A p \in Procs :
        /\ "published" \in proc[p].observed => StoredOf(proc[p].in.publisher, proc[p].in, TRUE)
        /\ "consumerReadbackAfterFetchVerified" \in proc[p].observed =>
              StoredOf(proc[p].in.consumer, proc[p].in, TRUE)

LEMMA InsAreSound ==
    ASSUME NEW in \in Ins
    PROVE  in.publisher \in Storages /\ in.consumer \in Storages /\ \A whole \in BOOLEAN : CoreOf(in, whole) # None
  BY LanesAssumption DEF Ins

\* A run that fetches has published first.
LEMMA FetchesPublished ==
    ASSUME Runs, Backed, NEW p \in Procs, Replicate(p) \/ Fetched(p)
    PROVE  proc[p].in \in Ins /\ StoredOf(proc[p].in.publisher, proc[p].in, TRUE)
  <1>1. proc[p].at = "updating" /\ Live(proc[p])
    BY DEF Replicate, Fetched, Live
  <1> QED BY <1>1 DEF Runs, Sane, HoldsSoundly, Backed

\* What is in a storage a copy is fetched to is of the object that is fetched.
LEMMA FetchesTheSame ==
    ASSUME Runs, Backed, CopiesOfPublished, NEW p \in Procs, Fetched(p)
    PROVE  \E whole \in BOOLEAN : stored[proc[p].in.consumer] = CoreOf(proc[p].in, whole)
  <1> DEFINE in == proc[p].in
  <1>1. in \in Ins /\ StoredOf(in.publisher, in, TRUE)
    BY FetchesPublished
  <1>2. in.consumer \in Storages
    BY <1>1, InsAreSound
  <1>3. stored[in.consumer] # None /\ stored[in.consumer].key = in.publisher
    BY DEF Fetched, Copied
  <1>4. PICK in2 \in Ins, whole \in BOOLEAN : StoredOf(in.consumer, in2, whole) /\ StoredOf(in2.publisher, in2, TRUE)
    BY <1>2, <1>3 DEF CopiesOfPublished
  <1> HIDE DEF in
  <1>5. in2.publisher = in.publisher
    BY <1>3, <1>4 DEF StoredOf, CoreOf
  <1>6. in2.object = in.object
    BY <1>1, <1>4, <1>5 DEF StoredOf, CoreOf
  <1> QED BY <1>4, <1>5, <1>6 DEF StoredOf, CoreOf, in

LEMMA StoredKept ==
    ASSUME Runs, Backed, CopiesOfPublished, [LNext]_lvars, NEW s \in Storages, NEW in \in Ins, StoredOf(s, in, TRUE)
    PROVE  stored'[s] = CoreOf(in, TRUE)
  <1>1. stored[s] = CoreOf(in, TRUE) /\ stored[s] # None /\ DOMAIN stored = Storages
    BY InsAreSound DEF StoredOf, Runs, Shape
  <1>2. ASSUME NEW p \in Procs, Publish(p) PROVE stored'[s] = CoreOf(in, TRUE)
    BY <1>1, <1>2 DEF Publish
  <1>3. ASSUME NEW p \in Procs, Replicate(p) PROVE stored'[s] = CoreOf(in, TRUE)
    BY <1>1, <1>3 DEF Replicate
  <1>4. ASSUME NEW p \in Procs, Fetched(p) PROVE stored'[s] = CoreOf(in, TRUE)
    <2>1. PICK whole \in BOOLEAN : stored[proc[p].in.consumer] = CoreOf(proc[p].in, whole)
      BY <1>4, FetchesTheSame
    <2>2. stored' = [stored EXCEPT ![proc[p].in.consumer] = CoreOf(proc[p].in, TRUE)]
      BY <1>4 DEF Fetched
    <2>3. CASE s = proc[p].in.consumer
      <3>1. CoreOf(in, TRUE) = CoreOf(proc[p].in, TRUE)
        <4>1. CoreOf(in, TRUE) = CoreOf(proc[p].in, whole)
          BY <1>1, <2>1, <2>3
        <4>2. in.publisher = proc[p].in.publisher /\ in.object = proc[p].in.object
          BY <4>1 DEF CoreOf
        <4> QED BY <4>2 DEF CoreOf
      <3> QED BY <1>1, <2>2, <2>3, <3>1
    <2> QED BY <1>1, <2>2, <2>3
  <1> QED BY <1>1, <1>2, <1>3, <1>4, Writers

LEMMA CopiesStep ==
    ASSUME Runs, Backed, CopiesOfPublished, [LNext]_lvars PROVE CopiesOfPublished'
  <1> DEFINE Good(s) == \E in \in Ins, whole \in BOOLEAN :
                           stored'[s] = CoreOf(in, whole) /\ stored'[in.publisher] = CoreOf(in, TRUE)
  <1> SUFFICES ASSUME NEW s \in Storages, stored'[s] # None PROVE Good(s)
    BY DEF CopiesOfPublished, StoredOf
  <1>1. DOMAIN stored = Storages
    BY DEF Runs, Shape
  <1>2. CASE stored'[s] = stored[s]
    <2>1. PICK in \in Ins, whole \in BOOLEAN : StoredOf(s, in, whole) /\ StoredOf(in.publisher, in, TRUE)
      BY <1>2 DEF CopiesOfPublished
    <2>2. stored'[in.publisher] = CoreOf(in, TRUE)
      BY <2>1, InsAreSound, StoredKept
    <2> QED BY <1>2, <2>1, <2>2 DEF StoredOf
  <1>3. ASSUME NEW p \in Procs, Publish(p), stored'[s] # stored[s] PROVE Good(s)
    <2>1. proc[p].in \in Ins
      BY <1>3 DEF Publish, Runs, Sane, Live
    <2>2. s = proc[p].in.publisher /\ stored'[s] = CoreOf(proc[p].in, TRUE)
      BY <1>1, <1>3 DEF Publish
    <2> QED BY <2>1, <2>2
  <1>4. ASSUME NEW p \in Procs, Replicate(p) \/ Fetched(p), stored'[s] # stored[s] PROVE Good(s)
    <2> DEFINE in == proc[p].in
    <2>1. in \in Ins /\ StoredOf(in.publisher, in, TRUE)
      BY <1>4, FetchesPublished
    <2>2. stored'[in.publisher] = CoreOf(in, TRUE)
      BY <2>1, InsAreSound, StoredKept
    <2>3. \E whole \in BOOLEAN : stored'[s] = CoreOf(in, whole)
      BY <1>1, <1>4 DEF Replicate, Fetched
    <2> HIDE DEF in
    <2> QED BY <2>1, <2>2, <2>3
  <1> HIDE DEF Good
  <1> QED BY <1>2, <1>3, <1>4, Writers

LEMMA BackedStep ==
    ASSUME Runs, Backed, CopiesOfPublished, [LNext]_lvars PROVE Backed'
  <1> SUFFICES ASSUME NEW p \in Procs
               PROVE  /\ "published" \in proc'[p].observed =>
                            stored'[proc'[p].in.publisher] = CoreOf(proc'[p].in, TRUE)
                      /\ "consumerReadbackAfterFetchVerified" \in proc'[p].observed =>
                            stored'[proc'[p].in.consumer] = CoreOf(proc'[p].in, TRUE)
    BY DEF Backed, StoredOf
  <1> DEFINE r == proc[p]  q == proc'[p]
  <1>1. Sane(r) /\ Sane(q) /\ Evolves(r, q)
    BY EveryRun DEF Runs
  <1>2. ASSUME q.observed # {}, r.observed # {} PROVE q.in = r.in /\ r.in \in Ins
    <2>1. Live(q) /\ Live(r)
      BY <1>1, <1>2 DEF Sane
    <2> QED BY <1>1, <2>1 DEF Sane, Evolves, Live
  <1>3. ASSUME "published" \in q.observed PROVE stored'[q.in.publisher] = CoreOf(q.in, TRUE)
    <2>1. CASE "published" \in r.observed
      <3>1. q.in = r.in /\ r.in \in Ins
        BY <1>2, <1>3, <2>1
      <3>2. StoredOf(r.in.publisher, r.in, TRUE) /\ r.in.publisher \in Storages
        BY <2>1, <3>1, InsAreSound DEF Backed
      <3> QED BY <3>1, <3>2, StoredKept
    <2>2. CASE Publish(p)
      <3>1. q.in = r.in /\ Live(r)
        BY <2>2, PublishClaims
      <3>2. r.in.publisher \in Storages /\ stored' = [stored EXCEPT ![r.in.publisher] = CoreOf(r.in, TRUE)]
        BY <1>1, <2>2, <3>1, InsAreSound DEF Publish, Sane
      <3> HIDE DEF q, r
      <3> QED BY <3>1, <3>2 DEF Runs, Shape
    <2> QED BY <1>3, <2>1, <2>2, EveryRun
  <1>4. ASSUME "consumerReadbackAfterFetchVerified" \in q.observed
        PROVE  stored'[q.in.consumer] = CoreOf(q.in, TRUE)
    <2>1. CASE "consumerReadbackAfterFetchVerified" \in r.observed
      <3>1. q.in = r.in /\ r.in \in Ins
        BY <1>2, <1>4, <2>1
      <3>2. StoredOf(r.in.consumer, r.in, TRUE) /\ r.in.consumer \in Storages
        BY <2>1, <3>1, InsAreSound DEF Backed
      <3> QED BY <3>1, <3>2, StoredKept
    <2>2. CASE ReadBack(p)
      <3>1. q.in = r.in /\ stored' = stored /\ stored[r.in.consumer] = CoreOf(r.in, TRUE)
        <4>1. q.in = r.in
          BY <2>2, ReadBackClaims
        <4>2. stored' = stored /\ stored[r.in.consumer] = CoreOf(r.in, TRUE)
          BY <2>2 DEF ReadBack
        <4> QED BY <4>1, <4>2
      <3> QED BY <3>1
    <2> QED BY <1>4, <2>1, <2>2, EveryRun
  <1> QED BY <1>3, <1>4

-----------------------------------------------------------------------------
(***************************************************************************)
(* The proofs that are written, as the pure operators of LaneProofs build  *)
(* them from what a run has observed.                                      *)
(***************************************************************************)

\* A pathway proof that is complete is of a run that has observed all it needs,
\* and a validation has nothing to add to it.
LEMMA PathwayProofSound ==
    ASSUME NEW in, NEW observed, Told(observed)
    PROVE  LET proof == PathwayProof(in, observed) IN
           /\ PathwayProofIssues(proof) = {}
           /\ proof.status = "complete" => PathwayNeeds \subseteq observed
  <1> DEFINE issues == PathwayInputIssues(in)
             r == [lane |-> "pathway", in |-> in, status |-> Status("pathway", issues, observed),
                   operation |-> PathwayOperation(in, observed),
                   issues |-> issues \cup (observed \cap {Unresolved}), twice |-> issues, hash |-> NotHashed]
             proof == PathwayProof(in, observed)
  <1>1. proof.status = Status("pathway", issues, observed) /\ proof.operation = PathwayOperation(in, observed)
    BY DEF PathwayProof
  <1> HIDE DEF proof
  <1>2. ASSUME proof.status = "complete" PROVE issues = {} /\ PathwayNeeds \subseteq observed
    BY <1>1, <1>2 DEF Status, Complete
  <1>3. proof.operation \cap Overclaims = {}
    BY <1>1 DEF PathwayOperation, Told, Observations, Overclaims, PrivateNetwork, Unresolved
  <1>4. ASSUME proof.status = "complete"
        PROVE  {"published", "served", "fetched", "cleanupComplete", "independentStorageRootsUsed",
                "defaultPublicHyperDhtUsed"} \cup (PathwayNeeds \ {"publicSwarmFetchComplete"})
                    \subseteq proof.operation
    <2>1. in.fails \cap {"publisher_storage_required", "consumer_storage_required",
                         "independent_storage_roots_required"} = {}
      BY <1>2, <1>4 DEF PathwayInputIssues
    <2>2. {"published", "served", "fetched", "cleanupComplete"} \cup PathwayNeeds \subseteq observed
      BY <1>2, <1>4 DEF Told, PathwayNeeds
    <2> HIDE DEF issues
    <2> QED BY <1>1, <2>1, <2>2 DEF PathwayOperation, PathwayNeeds, Unresolved
  <1>5. PathwayProofIssues(proof) = {}
    BY <1>3, <1>4 DEF PathwayProofIssues
  <1> QED BY <1>2, <1>5 DEF proof

LEMMA SeederProofSound ==
    ASSUME NEW lane, NEW in, NEW observed, Told(observed)
    PROVE  SeederProofIssues(SeederProof(lane, in, observed)) = {}
  <1> DEFINE issues == InputIssues(lane, in)
             status == Status(lane, issues, observed)
             proof == SeederProof(lane, in, observed)
  <1>1. proof.status = status /\ proof.operation = SeederOperation(observed, status = "complete")
    BY DEF SeederProof
  <1> HIDE DEF proof
  <1>2. proof.operation \cap (Overclaims \ {"nodeModulesTransferObserved"}) = {}
    BY <1>1 DEF SeederOperation, Told, Observations, Overclaims, PrivateNetwork, Unresolved
  <1>3. ASSUME proof.status = "complete"
        PROVE  {"published", "served", "publicSeederStillRunning", "defaultPublicHyperDhtUsed",
                "processLeftRunning"} \subseteq proof.operation
    <2>1. {"published", "served"} \subseteq observed
      <3>1. CASE lane = "pathway"
        BY <1>1, <1>3, <3>1 DEF Status, Complete, Told, PathwayNeeds
      <3>2. CASE lane # "pathway"
        BY <1>1, <1>3, <3>2 DEF Status, Complete, SeederNeeds
      <3> QED BY <3>1, <3>2
    <2> HIDE DEF status
    <2> QED BY <1>1, <1>3, <2>1 DEF SeederOperation
  <1> QED BY <1>2, <1>3 DEF SeederProofIssues, proof

\* A proof as it is built has the hash of itself.
LEMMA BuiltProofVerifies ==
    ASSUME NEW lane \in Lanes, NEW in, NEW observed
    PROVE  LET proof == Proof(lane, in, observed) IN
           /\ HashMatches(proof) /\ proof.lane = lane /\ proof.in = in
           /\ DOMAIN proof = {"lane", "in", "status", "operation", "issues", "twice", "hash"}
           /\ lane # "pathway" => proof.issues = proof.twice
           /\ proof.hash.issues = proof.issues /\ proof.hash.twice = proof.twice
  <1> DEFINE proof == Proof(lane, in, observed)
  <1>1. ASSUME NEW r, DOMAIN r = {"lane", "in", "status", "operation", "issues", "twice", "hash"},
               r = [f \in DOMAIN r |-> r[f]], r.hash = NotHashed, proof = [r EXCEPT !.hash = Digest(r)]
        PROVE  /\ DOMAIN proof = DOMAIN r /\ proof.hash = r /\ Digest(proof) = r
               /\ proof.lane = r.lane /\ proof.in = r.in /\ proof.issues = r.issues /\ proof.twice = r.twice
    <2>1. Digest(r) = r
      BY <1>1 DEF Digest
    <2>2. proof = [r EXCEPT !.hash = r]
      BY <1>1, <2>1
    <2> HIDE DEF proof
    <2>3. [proof EXCEPT !.hash = NotHashed] = r
      BY <1>1, <2>2
    <2> QED BY <1>1, <2>2, <2>3 DEF Digest
  <1>2. CASE lane = "pathway"
    <2> DEFINE issues == PathwayInputIssues(in)
               r == [lane |-> "pathway", in |-> in, status |-> Status("pathway", issues, observed),
                     operation |-> PathwayOperation(in, observed),
                     issues |-> issues \cup (observed \cap {Unresolved}), twice |-> issues, hash |-> NotHashed]
    <2>1. proof = [r EXCEPT !.hash = Digest(r)]
      BY <1>2 DEF Proof, PathwayProof
    <2>2. /\ DOMAIN r = {"lane", "in", "status", "operation", "issues", "twice", "hash"} /\ r.hash = NotHashed
          /\ r = [f \in DOMAIN r |-> r[f]] /\ r.lane = lane /\ r.in = in
      BY <1>2
    <2> HIDE DEF r, proof
    <2> QED BY <1>1, <1>2, <2>1, <2>2 DEF HashMatches, proof
  <1>3. CASE lane # "pathway"
    <2> DEFINE issues == InputIssues(lane, in)
               status == Status(lane, issues, observed)
               r == [lane |-> lane, in |-> in, status |-> status,
                     operation |-> SeederOperation(observed, status = "complete"),
                     issues |-> issues, twice |-> issues, hash |-> NotHashed]
    <2>1. proof = [r EXCEPT !.hash = Digest(r)]
      BY <1>3 DEF Proof, BundleProof, SeederProof, Lanes
    <2>2. /\ DOMAIN r = {"lane", "in", "status", "operation", "issues", "twice", "hash"} /\ r.hash = NotHashed
          /\ r = [f \in DOMAIN r |-> r[f]] /\ r.lane = lane /\ r.in = in /\ r.issues = r.twice
      OBVIOUS
    <2> HIDE DEF r, proof
    <2> QED BY <1>1, <2>1, <2>2 DEF HashMatches, proof
  <1> QED BY <1>2, <1>3

\* What is written verifies, but for a bundle whose source has issues.
LEMMA WrittenVerifies ==
    ASSUME NEW lane \in Lanes, NEW in, NEW observed, Told(observed)
    PROVE  LET written == Written(Proof(lane, in, observed)) IN
           Readback(written).proofHashMatches = ~(written.lane = "bundle" /\ BundleSourceIssues(written.in) # {})
  <1> DEFINE proof == Proof(lane, in, observed)
  <1>1. /\ HashMatches(proof) /\ proof.lane = lane /\ proof.in = in
        /\ DOMAIN proof = {"lane", "in", "status", "operation", "issues", "twice", "hash"}
        /\ lane # "pathway" => proof.issues = proof.twice
        /\ proof.hash.issues = proof.issues /\ proof.hash.twice = proof.twice
    BY BuiltProofVerifies
  <1>2. ProofIssues(proof) = IF lane = "bundle" THEN BundleSourceIssues(in) ELSE {}
    <2>1. CASE lane = "pathway"
      <3>1. proof = PathwayProof(in, observed)
        BY <2>1 DEF Proof
      <3>2. PathwayProofIssues(proof) = {}
        BY <3>1, PathwayProofSound
      <3> QED BY <1>1, <2>1, <3>2 DEF ProofIssues
    <2>2. CASE lane # "pathway"
      <3>1. proof = SeederProof(lane, in, observed)
        BY <2>2 DEF Proof, BundleProof, Lanes
      <3>2. SeederProofIssues(proof) = {}
        BY <3>1, SeederProofSound
      <3> HIDE DEF proof
      <3> QED BY <1>1, <2>2, <3>2 DEF ProofIssues, BundleProofIssues, Lanes
    <2> QED BY <2>1, <2>2
  <1> HIDE DEF proof
  <1> DEFINE added == ProofIssues(proof)
             written == Written(proof)
  <1>3. CASE added = {}
    BY <1>1, <1>2, <1>3 DEF Written, Readback, proof
  <1>4. CASE added # {}
    <2>1. written = [proof EXCEPT !.issues = proof.issues \cup added, !.twice = {}]
      BY <1>4 DEF Written
    <2> HIDE DEF written, added
    <2>2. /\ written.lane = lane /\ written.in = in /\ written.hash = proof.hash
          /\ written.issues = proof.issues \cup added /\ written.twice = {}
          /\ DOMAIN written = DOMAIN proof
      BY <1>1, <2>1
    <2>3. lane = "bundle" /\ BundleSourceIssues(in) # {}
      BY <1>2, <1>4 DEF added
    <2>4. ~HashMatches(written)
      <3>1. SUFFICES ASSUME written.hash = Digest(written) PROVE FALSE
        BY DEF HashMatches
      <3>2. Digest(written).issues = written.issues /\ Digest(written).twice = {}
        BY <1>1, <2>2 DEF Digest
      <3> QED BY <1>1, <1>4, <2>2, <2>3, <3>1, <3>2
    <2> QED BY <2>2, <2>3, <2>4 DEF Readback, HashMatches, written, proof
  <1> QED BY <1>3, <1>4

ProofsWritten ==
    file["proof"] \notin {None, Torn} =>
        \E lane \in Lanes, in \in Ins, observed \in SUBSET Observations :
            Told(observed) /\ file["proof"].proof = Written(Proof(lane, in, observed))

LEMMA ProofsStep == ASSUME Runs, ProofsWritten, [LNext]_lvars PROVE ProofsWritten'
  <1> DEFINE Built(proof) == \E lane \in Lanes, in \in Ins, observed \in SUBSET Observations :
                                Told(observed) /\ proof = Written(Proof(lane, in, observed))
  <1> SUFFICES ASSUME file'["proof"] \notin {None, Torn} PROVE Built(file'["proof"].proof)
    BY DEF ProofsWritten
  <1>1. CASE file'["proof"] = file["proof"]
    BY <1>1 DEF ProofsWritten
  <1>2. ASSUME NEW p \in Procs, BeginWrite(p), file'["proof"] # file["proof"] PROVE FALSE
    <2>1. file'["proof"] = Torn
      BY <1>2 DEF BeginWrite, Runs, Shape
    <2> QED BY <2>1
  <1>3. ASSUME NEW p \in Procs, EndWrite(p), file'["proof"] # file["proof"] PROVE Built(file'["proof"].proof)
    <2> DEFINE f == Head(proc[p].writes)
    <2>1. PICK after \in {Content(p, f)} \cup (IF file[f] = Torn THEN {} ELSE {Torn}) :
             file' = [file EXCEPT ![f] = after]
      BY <1>3 DEF EndWrite
    <2>2. f = "proof" /\ file'["proof"] = after
      BY <1>3, <2>1 DEF Runs, Shape
    <2>3. after.proof = Written(proc[p].proof)
      BY <2>1, <2>2 DEF Content
    <2>4. proc[p].proof = Proof(proc[p].lane, proc[p].in, proc[p].observed) /\ Sane(proc[p]) /\ Live(proc[p])
      BY <1>3 DEF EndWrite, Runs, Sane, WritesSoundly, Live
    <2>5. proc[p].lane \in Lanes /\ proc[p].in \in Ins /\ Told(proc[p].observed)
             /\ proc[p].observed \in SUBSET Observations
      BY <2>4 DEF Sane, Told
    <2> HIDE DEF f
    <2> QED BY <2>2, <2>3, <2>4, <2>5
  <1> HIDE DEF Built
  <1> QED BY <1>1, <1>2, <1>3, Writers

LInv == Runs /\ PidsDistinct /\ PidFilesTell /\ Recorded /\ CopiesOfPublished /\ Backed /\ ProofsWritten

\* The inductive invariant that the theorems below are read off from.
LEMMA LInvHolds == LSpec => []LInv
  <1>1. LInit => Runs
    BY DEF LInit, Runs, Shape, Shaped, Sane, Live, Fresh, NotDown, Fields, DownFields, Closing, Told,
           HoldsSoundly, ClosesSoundly, WritesSoundly
  <1>2. LInit => PidsDistinct /\ PidFilesTell /\ Recorded /\ CopiesOfPublished /\ Backed /\ ProofsWritten
    <2> SUFFICES ASSUME LInit
                 PROVE  PidsDistinct /\ PidFilesTell /\ Recorded /\ CopiesOfPublished /\ Backed /\ ProofsWritten
      OBVIOUS
    <2>1. \A p \in Procs : proc[p].at = "idle" /\ proc[p].pid = None /\ proc[p].observed = {}
      BY DEF LInit, Fresh
    <2>2. \A d \in Downs : down[d].at = "idle"
      BY DEF LInit, NotDown
    <2>3. file["pid"] = None /\ file["proof"] = None /\ foreign = {} /\ \A s \in Storages : stored[s] = None
      BY DEF LInit, Files
    <2>4. PidsDistinct /\ Backed
      BY <2>1, <2>3 DEF PidsDistinct, Backed, Alive, HasPid
    <2> QED BY <2>2, <2>3, <2>4 DEF PidFilesTell, Recorded, CopiesOfPublished, ProofsWritten
  <1>3. LInv /\ [LNext]_lvars => LInv'
    BY RunsStep, PidsStep, FilesStep, RecordStep, CopiesStep, BackedStep, ProofsStep DEF LInv
  <1> QED BY <1>1, <1>2, <1>3, PTL DEF LSpec, LInv
-----------------------------------------------------------------------------
(***************************************************************************)
(* The theorems.                                                           *)
(***************************************************************************)

\* The state has its type: pids tell live processes apart, ours and foreign, and
\* a down record is built from what its command found.
THEOREM TypeCorrect == LSpec => []LTypeOK
  <1>1. ASSUME NEW p \in Procs, Sane(proc[p])
        PROVE  /\ proc[p].held \subseteq Held /\ proc[p].handlers \subseteq {"SIGTERM", "SIGINT"}
               /\ \A c \in Closing : proc[p].closers[c] \in Seq(Held)
               /\ proc[p].writes \in Seq(Files)
    <2>1. <<>> \in Seq(Held) /\ <<"publisherCore">> \in Seq(Held) /\ <<"publisherSession", "publisherCore">> \in Seq(Held)
      BY DEF Held
    <2>2. /\ <<"publisherSwarm">> \in Seq(Held) /\ <<"publisherSession", "publisherSwarm">> \in Seq(Held)
          /\ <<"consumerSwarm">> \in Seq(Held) /\ <<"consumerSession", "consumerSwarm">> \in Seq(Held)
      BY DEF Held, Swarms
    <2>3. \A c \in Closing : proc[p].closers[c] \in Seq(Held)
      BY <1>1, <2>1, <2>2 DEF Sane, ClosesSoundly, Closing
    <2>4. <<>> \in Seq(Files) /\ <<"proof">> \in Seq(Files) /\ <<"pid">> \in Seq(Files) /\ <<"proof", "pid">> \in Seq(Files)
      BY DEF Files
    <2>5. proc[p].writes \in Seq(Files)
      BY <1>1, <2>4 DEF Sane, WritesSoundly
    <2> QED BY <1>1, <2>3, <2>5 DEF Sane, HoldsSoundly
  <1>2. LInv => LTypeOK
    BY <1>1 DEF LInv, Runs, PidsDistinct, Recorded, LTypeOK
  <1> QED BY <1>2, LInvHolds, PTL

\* A down command that is answered in time and reports its seeder stopped is right,
\* whoever has been given the pid since, and whatever has become of the pid file.
THEOREM StoppedWhenAnswered == LSpec => []AnsweredMeansGone
  <1>1. LInv => AnsweredMeansGone
    BY DEF LInv, Recorded, AnsweredMeansGone
  <1> QED BY <1>1, LInvHolds, PTL

\* What a run announces is the object it published, however many runs are given
\* its storage.
THEOREM AnnouncedIsPublished == LSpec => []ServedAsPublished
  <1>1. LInv => ServedAsPublished
    BY DEF LInv, Runs, Sane, HoldsSoundly, Backed, StoredOf, ServedAsPublished
  <1> QED BY <1>1, LInvHolds, PTL

\* Whatever the closes of a run do, and in whatever order, its topic is announced
\* only while its core is open to answer.
THEOREM AnnouncementsAreOpen == LSpec => []AnnouncedWhileOpen
  <1>1. LInv => AnnouncedWhileOpen
    BY DEF LInv, Runs, Sane, HoldsSoundly, AnnouncedWhileOpen
  <1> QED BY <1>1, LInvHolds, PTL

\* A pathway proof that calls the pathway complete is backed by both storages.
THEOREM CompleteIsConsumed == LSpec => []CompleteMeansConsumed
  <1>1. ASSUME LInv, NEW p \in Procs,
               proc[p].lane = "pathway", proc[p].proof # None, proc[p].proof.status = "complete"
        PROVE  \A s \in {proc[p].in.publisher, proc[p].in.consumer} : stored[s] = CoreOf(proc[p].in, TRUE)
    <2>1. Sane(proc[p]) /\ Told(proc[p].observed)
      BY <1>1 DEF LInv, Runs, Sane
    <2>2. proc[p].proof = PathwayProof(proc[p].in, proc[p].observed)
      BY <1>1, <2>1 DEF Sane, WritesSoundly, Proof
    <2>3. PathwayNeeds \subseteq proc[p].observed
      BY <1>1, <2>1, <2>2, PathwayProofSound
    <2>4. "published" \in proc[p].observed /\ "consumerReadbackAfterFetchVerified" \in proc[p].observed
      BY <2>1, <2>3 DEF Told, PathwayNeeds
    <2> QED BY <1>1, <2>4 DEF LInv, Backed, StoredOf
  <1>2. LInv => CompleteMeansConsumed
    BY <1>1 DEF CompleteMeansConsumed
  <1> QED BY <1>2, LInvHolds, PTL

\* The hash of a proof on disk matches when it is read back, except for a bundle
\* whose own proof has issues, and for every such bundle it does not.
THEOREM ProofsVerify == LSpec => []WrittenProofVerifies
  <1>1. ASSUME LInv, file["proof"] \notin {None, Torn}
        PROVE  LET proof == file["proof"].proof IN
               Readback(proof).proofHashMatches = ~(proof.lane = "bundle" /\ BundleSourceIssues(proof.in) # {})
    <2>1. PICK lane \in Lanes, in \in Ins, observed \in SUBSET Observations :
             Told(observed) /\ file["proof"].proof = Written(Proof(lane, in, observed))
      BY <1>1 DEF LInv, ProofsWritten
    <2> QED BY <2>1, WrittenVerifies
  <1>2. LInv => WrittenProofVerifies
    BY <1>1 DEF WrittenProofVerifies
  <1> QED BY <1>2, LInvHolds, PTL
=============================================================================
