# Verification of mesh-ecology-bytes

TLA+ models of the byte layer under `src/src/`, the TLC runs that check them on
small instances, and TLAPS proofs of what matters most for every value of the
constants. The reference is the code; every definition that stands for code is
tied to its lines in `PROJECT.json` ("map"), every place where the code is hard
to test is listed there ("hazards") with the properties that watch it.

## 1. The system

The library publishes a payload as one immutable Hypercore, names it by a
reference, serves and fetches it over Hyperswarm, reads it back to a buffer or a
stream, and writes it to a file for a consumer. Everything runs in one event
loop: there are no threads, and every `await` is a point where other calls,
timers, abort listeners and network callbacks run. The example lanes under
`src/examples/` put the library to work in commands, which are processes of one
host and meet in files, storages and signals. What makes it hard is

- **calls that go on in the background**: an interrupted `waitFor` rejects, the
  promise behind it runs on (a core being opened, an `attachCore`, a `writeFile`);
- **time and aborts** that strike at any await, also at those that no scope guards;
- **shared state across awaits**: the transport's map of attached cores, a storage
  several calls name, a destination file several calls write;
- **partial data**: a core of which only some blocks are here, a foreign core that
  no publication of this library wrote;
- **snapshots reported later**: lifecycles, plans and evidence computed from an
  earlier state;
- **processes that outlive what is said of them**: a pid file names a process that
  may be gone and its pid another's, a record is written before what it tells has
  ended, a close may reject halfway.

| Component | State | Operations | Talks to | Correct when |
|---|---|---|---|---|
| operation scope `operation.js` | deadline; per wait: timer, abort listener, settled flag | `createOperationScope`, `waitFor`, `bindStream`, `throwIfAborted` | everyone that awaits | each wait settles once, leaks nothing, ends by its deadline; only an interrupt destroys a source |
| layout, completeness `object/layout.js`, `completeness.js` | none | chunking, hashing, validating bytes, lifecycle | publish, read | blocks and slices agree at every boundary |
| publication `object/publish.js` | the Hypercore of a storage path | `publishImmutableObject` | Hypercore | a storage holds nothing or one whole object, for good; references resolve |
| read `object/read.js` | open core, block stream, output stream | `readImmutableObject`, `collectPayload`, `createPayloadStream` | Hypercore, scope, consumer | ready means the whole payload, verified; the core is released |
| transport `transport/hyperswarm` | attachments, discovery sessions, connection listener | `attachCore`, `detachCore`, `close`, connection handler | Hyperswarm | every session is accounted for; close sweeps what there was |
| serve and fetch `transport/hyperswarm` | a core, an attachment, maybe a transport of its own | `serveImmutableObject`, `fetchImmutableObject` | transport, scope, read | what is held is released; timeouts hold |
| materialization `materialization` | a destination file | `materializeImmutableObject`, hint/request/plan resolution | read or fetch, file system | a file reported ready holds the object; the plan tells what was done |
| retention, readback proof `object/retention.js`, `integration/conduit-corestore-readback.js` | none | posture, proof creation and validation | results of read and publish | what is stated is true of what was read, and borrowed evidence is refused |
| descriptor, reference `descriptor`, `reference/index.js` | none | normalise, validate, encode, decode | all of the above | bad records are refused before any effect |
| external pointers, source pressure, visibility `reference/*.js` | none | normalisation of evidence records | none at run time | inconsistent records are refused |
| adjacent review `review/index.js` | none | review of a JSON fixture | none | the status follows from the checks |
| integration seams, errors, shared, index | none | copying, assertions, re-export | - | - |
| public pathway `examples/participation-distributable-public-pathway-proof.js` | a process: what it has open, what it has observed | publish, serve, fetch, read back, close all, write the proof | library, other lanes' storages | a complete proof was earned; what is announced is open |
| public seeders `examples/*-public-seeder-lifecycle.js` | a process, its handlers; the proof and pid files | `up` (publish, serve, write, wait for a signal, close), `down` (read files, signal, poll, report) | library, each other through files, pids and signals | a down that is answered is right; nothing of a command goes on for ever |

## 2. The modules

```
SettleOnce  <-- implemented by --  OperationScope  <-- OperationScopeProofs
WriteOnce   <-- implemented by --  ObjectStore     <-- ObjectStoreProofs
ObjectLayout <- ObjectStore
             <- ObjectRead <- ReadbackProof
                ObjectRead <- ObjectReadProofs
                ReadbackProof, ObjectReadProofs <- ReadbackProofs
             <- Materialization -> MaterializationPlan
                Materialization <- MaterializationProofs
HyperswarmTransport <- TransportProofs
FetchObject <- FetchProofs
LaneProofs <- PublicLanes <- PublicLanesProofs
```

A plain arrow points to the module that is extended; every component has an `MC...`
module with its instance. The scope is modelled in full
once, in `OperationScope`. The modules of its callers use what that module
establishes: an await through the scope is one program-counter value, refused on
entry if the signal has fired or the deadline has passed (`Await`, `TurnedAway`),
and left at once by a timer or an abort (`Expire`, `Abort`).

**OperationScope** (`operation.js`). `now` is `Date.now()`; `deadline[s]`,
`call[c]`, `timer[c]`, `listening`, `work[c]` and `destroyed` are the scope's
deadline, and a wait's settled flag, `setTimeout`, abort listener, promise and
`onTimeout`/`onAbort` call. `RefuseCall` and `WaitFor` are the two ways into
`waitFor`; `SettleFromWork`, `FireTimer` and `Abort` the three that race to
settle it, each with the whole `cleanup`. **SettleOnce** is the promise made to
callers: every call settles once, an abort settles all that listen in one step.

**ObjectLayout** (`layout.js`, `completeness.js`). Bytes are sequences; digests
are injective: a digest is its algorithm and the bytes it was computed from, and a
descriptor's hash is its block. An integrity hint names any algorithm, with any
digest; of those `createHash` knows three are told apart by what follows from them,
sha256, another one as long and a longer one, and any other makes the validation
throw (`Unhashable`). Chunking, validation, `HasAllBlocks` and `Lifecycle` are pure
operators used by all that follow.

**ObjectStore** (`publish.js`). `pc[p]` names the await a publication stands at,
`log[s]` the blocks stored, `holder[s]` Hypercore's storage lock. A crash loses
every call and every lock and keeps the logs. A core found non-empty is closed;
a bad `chunkSize`, or an append or an assessment that fails, leaves it open, as in
the code, and a close that rejects may (`CloseFails`).
**WriteOnce** is the promise made to readers: each storage is a register that is
written at most once, in one step, with bytes valid for their descriptor. The
refinement mapping `object` is what a reader puts together from a storage's log.

**ObjectRead** (`read.js`, `bindStream`). One read: `pc` the await, `source` the
block stream, `out` the output stream with its pump, `got`/`delivered` what was
written and consumed. The content of the core is chosen among intact and foreign
ones, `length` and `present` say how much of it is here, `Replicate` brings more,
to a core that the caller has provided. Options are independent of each other.

**ReadbackProof** (`conduit-corestore-readback.js`, `retention.js`). Pure
operators over what `ObjectRead` and a publication return: the artifact, its
validator, whether creation returns it or throws (`Created`), and the retention
posture. A proof takes the value of the descriptor's hint for a sha256 hash, whatever
algorithm the hint names, and looks only at its length (`Sha256Like`). Its properties
hold in every state of a read.

**HyperswarmTransport**. `entry[c]` is `_attachments.get(core)`; `session[k]` is
the discovery session that call `k` joined, `call[k]` where an `attachCore` or
`detachCore` stands with its local variables, `closing` the same for `close()`
with the snapshot it walks; `conn`, `replicated` and `listening` are connections,
their replication, and the swarm's listener.

**FetchObject** (`fetchImmutableObject`). `pc[f]` the await, `core`, `attach`,
`finding`, `transport` what the fetch holds; the promises behind the awaits
settle on their own. The read, whose effects `ObjectRead` describes, is four awaits:
the descriptor and the payload go through the scope that the read makes anew, the
assessment between them, and the last one with the closing of the core, do not, so
that no timer ends those.

**Materialization**, **MaterializationPlan** (`materialization/index.js`,
`reference/index.js`). A call's awaits, and its `fs.writeFile` as a `writer` of
its own that opens, truncates and writes block after block whatever becomes of
the call. Records are told apart by what their validators look at.

**PublicLanes** (the pathway and the two seeders, with `serveImmutableObject`).
`proc[p]` is a process: `at` is the await its command stands at, `held` the
swarms, cores and discovery sessions it has open, `observed` what its proof will
tell, `closers` what each of the closes that `finally` starts together has still
to release, `writes` the files left to write, `handlers` the signals it handles.
`down[d]` is a down command, with the pid file it read (`target`); `stored`, `file`
and `foreign` are the storages, the record files and the pids that have been given
to other processes, shared by all. The three lanes are one state machine:
they take the same steps in the same order and differ in their inputs and records
and in what follows the serving. A call of the library is one step here, with the
outcomes its own module gives it, and every awaited call may fail (`StepFails`).
**LaneProofs** holds what the commands compute: input checks, status, the proof
with its hash, its validation, what is written of it, and the down record.

The `Mutant:` operators stand beside the definitions they distort. Each is a
plausible slip in the code (a dropped guard, a missing reset, a stale lookup)
that makes one property fail, which shows that the property depends on that code.

## 3. The runs

| Run | Instance | What it shows |
|---|---|---|
| `scope` | 3 calls on 2 scopes, one with a signal, timeouts 1, 2 or none, clock to 3 | `ArmedWhileWaiting`, `DestroyedOnlyWhenInterrupted`, `DeadlineKept`, that the scope implements `SettleOnce`, and that every bounded call ends |
| `store` | 3 publishers, 2 storages, payloads of 0, 2 and 3 bytes, chunk sizes 0 and 2, right and wrong sizes and hints, appends, assessments and closes that fail | that storages implement `WriteOnce`, each holds one whole object or nothing, references resolve, a lock is left only by a failure |
| `read` | 9 contents (intact without a hint and with one of each algorithm, empty, wrong hint, unknown algorithm, wrong size, no descriptor), every combination of buffer or stream, opened or provided core, waiting or not, closing the core or not, signal and timeout | ready and a clean end of stream mean the whole payload; intact objects are readable; the core is released but for one named case; a ready read has a true, accepted readback proof, unless the digest of its hint is longer than sha256's; borrowed evidence is refused |
| `transport` | 3 overlapping calls, 2 cores, 2 roles, one peer, own or shared swarm | no orphan session, live attachments, no further replication from the call of `close()` on; `close()` returns, and the sessions it found are destroyed |
| `fetch` | 2 fetches, 5 option records (buffer/stream, own/shared transport, signal, timeout), clock to 3 | all is released from the update on, peers being looked for only until then; discovery and update share one timeout and the awaits of the read another (`TimeoutsAreShared`), and a fetch with a timeout ends |
| `materialization` | 2 calls, 1 file, objects of 1 and 2 blocks, a descriptor that prefers another mode and one that names a path, refused requests and references | a sole writer leaves the whole object, plans tell what was done and never fail a call that has loaded its object, timed calls end |
| `lanes` | 2 runs (a bundle seeder; a pathway that publishes elsewhere or fetches into the seeder's storage, another seeder on the same files, or a refused command), 1 down, 3 storages, 2 pids of which the second run may get the first one's | what is announced is open and was published, a complete proof is backed by both storages, written proofs verify but for one named case, an answered down is right, and whatever closes, writes or polls ends |
| `ready_after_abort` | as `read` | finding 1 |
| `availability_claimed` | as `read` | finding 2 |
| `ready_unwritten` | as `materialization` | finding 3 |
| `seeder_stopped` | as `lanes` | finding 4 |
| `read_times_anew` | as `fetch` | finding 5 |

**Why the bounds are enough.** Two calls of one scope and a third on another show
every race of work, timer and signal, and that scopes do not disturb each other.
Three publishers are one more than a race needs, so that one can come after a
crash or a failure; in chunks of two, three bytes have a full and a partial chunk, two
fill one exactly, and no bytes is the other boundary. Three algorithms are one of each
kind the library and the proof tell apart. Two payload blocks give a first block without the
last, and a last without the first. Three transport calls are an attach, the
attach or detach it overlaps, and one that comes between; two cores let `close()`
be interrupted between entries. Two fetches share a signal and nothing else. Two
writers are the least that can disturb each other, and an object longer than the
other one tells truncation and overwriting apart. Two runs and one down are the
least that let a pid be used again between two steps of a down, two records meet
in one file, and a storage be published to by one run and fetched into by another;
the three storages leave room for the runs to meet in either role or in none. The
theorems of section 5 say of all but `CommandsEnd` that more runs, downs, pids and
storages change nothing. A pid is taken by a foreign process only while a down is
after it, since no one else asks. Clocks are capped by `MaxTime`;
a fetch is only made when twice its timeout fits, so no deadline is cut off by
the bound. `store` uses symmetry over interchangeable publishers and storages, and
states safety only.

Deadlock is not checked: each instance makes a fixed number of calls, and when
they have all returned nothing is left to do.

**Fairness** is assumed of what the process itself owes and of nothing else. The
event loop runs what is runnable, timers fire, time passes (`EventLoop`,
`WF(Tick)`, `WF(Expire)`). In `read`, local steps of the call and of the pump are
fair, and a read without `wait` is answered by the local storage. In
`transport` Hyperswarm is assumed to settle `destroy`, `refresh` and `flush`. In
`lanes` a process that is closing, writing, registering or leaving goes on
(`Finish`), and so does a down command (`Stop`: files are read, signals sent, polls
and the five seconds pass); nothing makes an announcement be flushed, a peer answer
or a signal come, so `CommandsEnd` speaks only of what has begun to end. In `fetch` what no timer ends settles: the two assessments of the read, which ask the
local core, and the closes (`Local`, `CleanUp`). No peer has to answer, no consumer has
to read, no signal has to fire, and no await of a scope has to settle: from there on
`TimedFetchEnds` rests on the timer alone, as `TimedCallsEnd` does with a file system
that never answers.

## 4. Findings

1. **`ready` after an interrupt** (`read.js:104`). Once the payload is collected
   neither the signal nor the deadline is looked at again: an abort or timeout
   during the final assessment or while the core closes still returns `ready`.
   `docs/contracts.md:539` says it must not be reported then.
2. **Availability stated, not observed** (`conduit-corestore-readback.js:284`).
   `payloadBlocksAvailable` is a constant: a stream readback whose lifecycle says
   that blocks are missing yields a proof that claims them, and it validates.
   `docs/integration-seams.md:95` says it proves that posture.
3. **Ready, and the file holds something else** (`materialization/index.js:237`).
   With another write to the destination under way, which may be what is left of
   a call that has timed out, only sizes are compared; `docs/contracts.md:369`
   says that ready means validated. With a single writer it is true
   (`SoleWriterIsWhole`).
4. **Stopped, and the seeder is still there**
   (`participation-distributable-public-seeder-lifecycle.js:449`). `runDown` sets
   `stopped` once the signal is sent; when the five seconds pass with the process
   still closing, the record says that no process was left running, which is what
   `test/participation-distributable-public-seeder.js:80` takes stopping to mean.
   A down whose poll is answered is right (`AnsweredMeansGone`).
5. **A timeout for the read of its own** (`transport/hyperswarm/index.js:205`). The
   read of a fetch is given `timeoutMs` anew, after discovery and update have used
   theirs: `docs/contracts.md:547` has the fetch honor its timeout across discovery,
   update and read. What the code keeps is `TimeoutsAreShared`: one timeout up to the
   update, and one more for the awaits of the read.

Four more things a reader should know, which the runs check as they are.

- The proof of a bundle whose own proof has no `proofRef`, or fails what the validation
  looks at again, gets issues after it was hashed, so that its hash never matches when
  it is read back; this is the only exception (`WrittenProofVerifies`).
- Of a materialization's three file system steps only the write's failure becomes
  `ERR_MATERIALIZATION_WRITE_FAILED`; a failed `mkdir` or `stat` and a wrong size
  reject with what they throw (`PreparationFails`, `Verified`), where
  `docs/contracts.md:549` speaks of destination write failures.
- A hint may name any algorithm, and a read is ready when the payload has that digest.
  A readback proof wants a hash of 64 hex digits: an object with a sha512 hint is
  readable and ready and cannot be proved, as creating the proof throws, while the
  digest of another algorithm with 64 digits passes for a sha256 hash
  (`ReadyReadIsProvable` states both).
- A consumer that destroys a stream makes `bindStream` disarm the timer and the abort
  listener (`operation.js:120`). If the pump is just then waiting for a block that only
  a peer can deliver, nothing ends that wait, and the core stays open although the read
  was given a timeout (`Abandoned`). It is the only exception to `CoreIsReleased`.

## 5. The proofs

All are checked by TLAPS from the assumptions the modules name. They hold for
any sets of calls, scopes, publishers, storages, cores and peers, and for payloads
of any length. Every safety property that a passing run checks is a theorem.

**OperationScopeProofs** (`ScopeAssumption`: every call has a scope;
`TimeAssumption`: timeouts are positive naturals or absent). The invariant `IInv`
is the conjunction of `TypeOK`, `ArmedWhileWaiting`, `DestroyedOnlyWhenInterrupted`,
`DeadlineKept` and two facts they need: `CallsHaveScopes`, without which creating
a scope could change the deadline under a waiting call, and `NoneWaitsAfterAbort`,
which the refinement needs, since after an abort `SettleOnce` lets nothing that
listens still succeed. From it follow `TypeCorrect`, `NothingLeaks`, `OnlyInterruptsDestroy`, `DeadlinesAreKept`,
and `Implementation`: initial states map to initial states of `SettleOnce` and
every step to a step or a stutter of it.

**ObjectStoreProofs** (`StoreAssumption`: payloads are sequences, chunk sizes
integers, `None` is none of the values it is told apart from). `StoredWhole` is not
inductive alone: an append is safe only because the log is still empty when it runs.
`SInv` adds who holds which lock (`LockHeld`), that the holder about to append faces
an empty log (`LockOverEmptyLog`), what was validated on the way in (`Admitted`) and
that a publication past its append finds its own blocks (`Written`). It gives
`TypeCorrect`, `StorageIsWhole`, `LogsAreImmutable` and `LocksAreReleased`.

The others speak of what a log reads back as. `Concat` is a recursive function, which
`ConcatIs` unfolds by one block; that chunks concatenate to the payload
(`ChunksConcatenate`) is proved by a least counterexample, a number of chunks after
which what was read back is not the payload so far (`LeastNatural`, from the
well-foundedness of the naturals). With `Reported`, that a result names the log it
was taken from, this gives `ReferencesKeepResolving`, `StoredObjectsAreValid`, and
`PublicationIsAtomic`: the step of `AppendBlocks` is the one write of `WriteOnce`,
and every other step changes nothing a reader can see, crashes included.

**ObjectReadProofs** (`ReadAssumption`: a core is a non-empty sequence of blocks,
options have the fields the code reads, and `None` is no lifecycle; `NoneIsNoCode`).
Nothing is assumed of what a core holds. `RInv` says why the source may have ended:
at the length it was made for, or at a block that is not here, which without `wait`
stays away (`Over`, in `Returned` and `Streamed`); that what was collected is a prefix
of the payload (`Collecting`); that nothing exists before the descriptor was accepted
(`Untouched`, `Described`); that the lifecycle never says more than there is
(`LifecycleHolds`), blocks only being added; and what each error code was caused by
(`CauseOf`), which stays so. `ReadyMeansIntact` needs the first two together: that
all blocks are local rules out that the source stopped early, and a prefix as long
as the core is the payload. Gives `ObjectReadTypes`, `ReadyReadsAreIntact`,
`EndedStreamsAreWhole`, `IntactObjectsAreReadable`, and `CoresAreClosed`: no read that
owns its core settles, and no pump stops, with the core open, which is what of
`CoreIsReleased` does not need fairness.

**ReadbackProofs** (`ReadbackAssumption`: `None` is none of the values it is told
apart from). The proof record is a pure function of a state of a read, so its
theorems follow from `RInv` and two lemmas about the operators: `FixtureFields`, where
each field of the record comes from, and `EvidenceFits`, that the evidence of a
topology is accepted under that topology and no other. Gives `ReadyReadsAreProvable`,
`BorrowedEvidenceRefused` and `PrunableIsHere`. The first says when a ready read can be
proved and when it cannot: by the algorithm of its hint, and by nothing else.

**TransportProofs** (`TransportAssumption`: roles are roles, `None` is no call and
no entry). `TInv` ties each call's local variables to the shared map: what a
waiting call knows (`CallsKnow`), that a call's session is unused until it has
joined (`NotYetJoined`), that an entry's session was joined for that core
(`EntriesWereJoined`), that a session being destroyed is no entry's any more
(`DestroyedWasDetached`) and when the listener is on (`ListensWhileOpen`). It gives
`TypeCorrect`, `SessionsAreAccountedFor`, `AttachmentsAreLive` and
`CloseStopsReplication`. The argument turns on the map being read and written
without an await in between, in `AttachReady` as in `DetachCore`. With `LeftToClose`,
that an entry `close()` found is still on its list while a later one has a session of
its own, it gives `CloseIsThorough`, what of `CloseEndsSessions` needs no fairness.

**FetchProofs** (`FetchTimeAssumption`, `FetchOptionsAssumption`: options have the
fields the code reads). `TimeoutsAreShared` needs `InTime`: until the read the deadline
is the start plus the timeout, so the read, which makes a scope anew, begins no later
than that, and its deadline, once taken, outlives the assessment that no timer ends. `ReleasedAfterUpdate` needs that
only the search is finding peers (`FindsWhileSearching`), that a transport of the
call's own exists from the start (`OwnTransport`) and that a core is closed before
its transport (`CoreFirst`). Gives `TypeCorrect`, `AwaitsAreBounded`,
`NothingIsLeftBehind`.

**MaterializationProofs** (`MaterializationAssumption`: options and objects have the
fields the code reads; `NoneAssumption`: undefined is none of the values it is told
apart from). `Given` keeps what the validators let in, from which
`PlansResolve` shows that the plan is never refused; `WriterFollows` where
`fs.writeFile` stands at each await; `PrefixWritten` that a file only one call has
written holds that call's payload up to its position, so that it is the payload when
the writer is done. A second writer never leaves `Writers`, so a sole writer has been
one all along. Gives `TypeCorrect`, `FilesAreWhole`, `PlansTellWhatWasDone`,
`RefusalsAreEarly`.

**PublicLanesProofs** (`LanesAssumption`: commands are of the three lanes, on
storages there are, and a core is not `None`). It holds for any number of runs and
downs, any pids, and storages shared in any way. A run is first taken by itself:
`Sane` says what its record of itself is worth (what it holds was published by it,
the order in which its closes release, that what it writes is the proof of what it
has observed), `Evolves` that it keeps its pid and inputs until it is gone for
good, and one lemma per action that the action keeps both (`Goes`). Then what runs
share: `PidsDistinct`; `PidFilesTell`, that a pid file names the pid its writer has
for as long as that lives, so that a poll that finds nobody means that the writer is
gone, whoever was given the pid; `CopiesOfPublished`, that what a storage holds is
of an object that its own storage has whole, without which a fetch could replace what
another run has published; `Backed`, that what a run claims is in its storages; and
`ProofsWritten`, that a file has what some run could have observed. Together they
are `LInv`, and give `TypeCorrect`, `StoppedWhenAnswered`, `AnnouncedIsPublished`,
`AnnouncementsAreOpen`, `CompleteIsConsumed` and `ProofsVerify`, the last two with
lemmas about the operators of LaneProofs, which hold for every input and observation.

**Only model-checked.** Liveness (`EveryBoundedCallEnds`, `CoreIsReleased`,
`CloseEndsSessions`, `TimedFetchEnds`, `TimedCallsEnd`, `CommandsEnd`): liveness under
fairness and ENABLED are beyond the prover.

## 6. What is left out

- JSON text, hex case and key sets of descriptors and references; the integrity
  hint of a reference. Descriptors are told apart by size, hint and kind.
- Backpressure and memory: the pump ignores `write`'s answer, so it never waits.
- Hypercore, Hyperswarm and `fs` are external, modelled from how they are used:
  atomic batches, storage locks, blocks present or not, sessions that are joined,
  refreshed and destroyed, `writeFile` as open, truncate, blocks. `destroy()` is
  taken to succeed.
- Serving with a transport of the handle's own, and two fetches over one transport;
  what a connection makes of a closed core that is still attached, and a `destroy`
  that rejects, have no stated promise to check (see their hazards).
- The readback and down files of the lanes, which no command reads, and what the
  commands print.
- The evidence modules (external pointers, source pressure, visibility, adjacent
  review): each is a list of independent checks of the fields of one record, with no
  state, no order that matters and nothing shared; a model would restate the checks
  and no property of it could fail without contradicting one of them.
- The integration seams, which copy fields validated by their own parts;
  `validateReadinessState`; the retained proof example, one call after the other in
  a directory of its own, and the other example scripts.

## 7. Plan

Done: the scope and its abstract promise; publication and its abstract promise; read;
readback proof and retention; transport; fetch; materialization with its plan; the
lanes, with their processes, files and signals; proofs of every safety property the
passing runs check.

Next, in this order:

1. **Proofs**: abstract promises of the read and of the transport, as `SettleOnce`
   and `WriteOnce` are of the scope and of publication, implemented step by step.
2. **Descriptor normalisation**: encoding, decoding and normalising agree for
   every accepted descriptor.
