----------------------------- MODULE ObjectRead -----------------------------
(***************************************************************************)
(* readImmutableObject (src/object/read.js): reading one object as a       *)
(* buffer or as a stream, from local storage or from a core that a fetch   *)
(* is still replicating, under an abort signal and a timeout.              *)
(*                                                                         *)
(* Each await is a program counter value.  The awaits that go through the  *)
(* operation scope are interrupted by an abort or a timeout as             *)
(* OperationScope promises; the others - the two lifecycle assessments and *)
(* closing the core - are not.  The stream's pump, the stream itself and   *)
(* its consumer then run on their own.                                     *)
(*                                                                         *)
(* External: Hypercore hands out a block it has; for one it lacks, get     *)
(* returns null without `wait` and waits for a peer with it, and a read    *)
(* stream without `wait` ends early or fails.                              *)
(***************************************************************************)
EXTENDS ObjectLayout, FiniteSets

CONSTANTS Contents,  \* what the core may hold: the block sequences
          Hashes,    \* the values reference.descriptorHash may have
          Options,   \* the option records a call may be made with
          None       \* undefined, no result, no error

\* A core a reference leads to has at least the block read as descriptor.
ASSUME ReadAssumption ==
    /\ \A c \in Contents : c # <<>> /\ c \in Seq({c[i] : i \in 1..Len(c)})
    /\ Options \subseteq [as : {"buffer", "stream"}, provided : BOOLEAN, wait : BOOLEAN,
                          closeCore : BOOLEAN, signal : BOOLEAN, timed : BOOLEAN]
    /\ None \notin Lifecycles

VARIABLES opts,       \* the options of the call
          hash,       \* reference.descriptorHash
          content,    \* the blocks the core's key stands for
          length,     \* core.length
          present,    \* the blocks available locally, from 0
          open,       \* the core is not closed
          aborted, expired,  \* the signal fired, the deadline passed
          pc,         \* where the call stands
          error,      \* the code it rejected with
          source,     \* the core's read stream
          next,       \* the block the source delivers next
          end,        \* core.length when the source was made
          got,        \* the payload blocks collected or written to the stream
          lifecycle,  \* the lifecycle returned
          out,        \* the stream handed out
          delivered,  \* how many of its blocks the consumer has read
          bound       \* bindStream's timer and listener are armed

core == <<length, present>>
stream == <<source, next, end, got>>
output == <<out, delivered, bound>>
input == <<opts, hash, content>>
vars == <<input, core, open, aborted, expired, pc, error, stream, lifecycle, output>>

Codes == {"ERR_OPERATION_ABORTED", "ERR_OPERATION_TIMEOUT", "ERR_DESCRIPTOR_MISSING",
          "ERR_DESCRIPTOR_UNAVAILABLE", "ERR_INVALID_DESCRIPTOR",
          "ERR_DESCRIPTOR_HASH_MISMATCH", "ERR_INTEGRITY_MISMATCH"}
ASSUME NoneIsNoCode == None \notin Codes \cup {"other"}

Waits == {"opening", "getting", "collecting"}   \* awaits through the scope
Settled == {"done", "streaming", "failed"}      \* the call has returned or thrown

Payload(blocks) == SubSeq(blocks, 2, Len(blocks))

Init == /\ opts \in Options
        /\ hash \in Hashes
        /\ content \in Contents
        /\ length \in {0, Len(content)}
        /\ present \in SUBSET (0..(length - 1))
        /\ open = TRUE
        /\ aborted = FALSE /\ expired = FALSE
        /\ pc = "start" /\ error = None
        /\ source = "none" /\ next = 1 /\ end = 0 /\ got = <<>>
        /\ lifecycle = None
        /\ out = "none" /\ delivered = 0 /\ bound = FALSE

Interrupted == (opts.signal /\ aborted) \/ expired
InterruptCode == IF opts.signal /\ aborted THEN "ERR_OPERATION_ABORTED"
                                           ELSE "ERR_OPERATION_TIMEOUT"

Fail(code) == pc' = "failing" /\ error' = code

\* scope.waitFor: the call waits at label, unless it is refused on entry.
Await(label) == IF Interrupted THEN Fail(InterruptCode)
                               ELSE pc' = label /\ UNCHANGED error

\* What follows once the core is ready.
ReadDescriptor == IF length < 1 /\ ~opts.wait THEN Fail("ERR_DESCRIPTOR_MISSING")
                                              ELSE Await("getting")

Start == /\ pc = "start"
         /\ IF opts.provided THEN ReadDescriptor ELSE Await("opening")
         /\ UNCHANGED <<input, core, open, aborted, expired, stream, lifecycle, output>>

\* core.ready() settles; it rejects with an error of its own.
Opened == /\ pc = "opening"
          /\ ReadDescriptor \/ Fail("other")
          /\ UNCHANGED <<input, core, open, aborted, expired, stream, lifecycle, output>>

\* Mutant: reference.descriptorHash is not compared.
GotAnyDescriptor ==
    /\ pc = "getting"
    /\ IF 0 \in present
       THEN IF content[1].kind # "descriptor" THEN Fail("ERR_INVALID_DESCRIPTOR")
            ELSE pc' = "assessing" /\ UNCHANGED error
       ELSE ~opts.wait /\ Fail("ERR_DESCRIPTOR_UNAVAILABLE")
    /\ UNCHANGED <<input, core, open, aborted, expired, stream, lifecycle, output>>

GotDescriptor ==
    /\ pc = "getting"
    /\ IF 0 \in present
       THEN IF content[1].kind # "descriptor" THEN Fail("ERR_INVALID_DESCRIPTOR")
            ELSE IF hash # None /\ hash # content[1]
                 THEN Fail("ERR_DESCRIPTOR_HASH_MISMATCH")
                 ELSE pc' = "assessing" /\ UNCHANGED error
       ELSE ~opts.wait /\ Fail("ERR_DESCRIPTOR_UNAVAILABLE")
    /\ UNCHANGED <<input, core, open, aborted, expired, stream, lifecycle, output>>

Complete == HasAllBlocks(length, present)

\* Mutant: the read stream ends one block early.
OpenSourceShort == source' = "reading" /\ end' = length - 1 /\ UNCHANGED <<next, got>>

OpenSource == source' = "reading" /\ end' = length /\ UNCHANGED <<next, got>>

\* The fetched lifecycle is known.  A buffer read starts collecting; a stream
\* read binds its stream to the scope, which may refuse, and returns.
Assessed ==
    /\ pc = "assessing"
    /\ OpenSource
    /\ IF opts.as = "buffer" THEN Await("collecting") /\ UNCHANGED <<lifecycle, output>>
       ELSE IF Interrupted THEN Fail(InterruptCode) /\ UNCHANGED <<lifecycle, output>>
       ELSE /\ pc' = "streaming"
            /\ lifecycle' = Lifecycle(Complete, FALSE, FALSE)
            /\ out' = "open" /\ bound' = (opts.signal \/ opts.timed)
            /\ UNCHANGED <<error, delivered>>
    /\ UNCHANGED <<input, core, open, aborted, expired>>

NextBlock == content[next + 1]

CollectBlock ==
    /\ pc = "collecting" /\ next < end /\ next \in present
    /\ got' = Append(got, NextBlock) /\ next' = next + 1
    /\ UNCHANGED <<input, core, open, aborted, expired, pc, error, source, end, lifecycle, output>>

\* A source that must not wait meets a block that is not there.
SourceStuck == next < end /\ next \notin present /\ ~opts.wait

CollectFails == /\ pc = "collecting" /\ SourceStuck
                /\ Fail("other")
                /\ source' = "destroyed"
                /\ UNCHANGED <<input, core, open, aborted, expired, next, end, got, lifecycle, output>>

Collected ==
    /\ pc = "collecting" /\ (next = end \/ SourceStuck)
    /\ IF ValidBytes(content[1], Concat(got)) THEN pc' = "finishing" /\ UNCHANGED error
       ELSE Fail(IF Unhashable(content[1], Concat(got)) THEN "other"
                 ELSE "ERR_INTEGRITY_MISMATCH")
    /\ source' = "destroyed"
    /\ UNCHANGED <<input, core, open, aborted, expired, next, end, got, lifecycle, output>>

\* The second assessment; its answer is what a buffer read reports.
Finish ==
    /\ pc = "finishing"
    /\ lifecycle' = Lifecycle(Complete, TRUE, ValidBytes(content[1], Concat(got)))
    /\ pc' = IF opts.closeCore THEN "closing" ELSE "done"
    /\ UNCHANGED <<input, core, open, aborted, expired, error, stream, output>>

Close == /\ pc = "closing"
         /\ open' = FALSE
         /\ pc' = "done"
         /\ UNCHANGED <<input, core, aborted, expired, error, stream, lifecycle, output>>

\* Mutant: the catch block rethrows without closing the core.
ThrowWithoutClosing ==
    /\ pc = "failing"
    /\ pc' = "failed"
    /\ UNCHANGED <<input, core, open, aborted, expired, error, stream, lifecycle, output>>

\* Mutant: the error is not given its code.
ThrowUncoded ==
    /\ pc = "failing"
    /\ pc' = "failed" /\ error' = "unknown"
    /\ UNCHANGED <<input, core, open, aborted, expired, stream, lifecycle, output>>

\* The catch block: the core is closed if it is ours to close.
Throw == /\ pc = "failing"
         /\ open' = (open /\ opts.provided /\ ~opts.closeCore)
         /\ pc' = "failed"
         /\ UNCHANGED <<input, core, aborted, expired, error, stream, lifecycle, output>>
-----------------------------------------------------------------------------
(* createPayloadStream: the pump, the stream bound to the scope, a consumer *)

\* The finally of the pump, with what it does to the stream first.
StopPump(how, o) == /\ source' = how
                    /\ out' = IF out = "open" THEN o ELSE out
                    /\ open' = (open /\ ~opts.closeCore)

\* A block is written, into nothing when the stream is already destroyed.
PumpBlock ==
    /\ pc = "streaming" /\ source = "reading" /\ next < end /\ next \in present
    /\ ~(opts.signal /\ aborted)
    /\ got' = IF out = "open" THEN Append(got, NextBlock) ELSE got
    /\ next' = next + 1
    /\ UNCHANGED <<input, core, open, aborted, expired, pc, error, source, end, lifecycle, output>>

\* stream.end() after the last block, or after an early end of the source.
PumpEnds ==
    /\ pc = "streaming" /\ source = "reading" /\ (next = end \/ SourceStuck)
    /\ StopPump("drained", "ending")
    /\ UNCHANGED <<input, core, aborted, expired, pc, error, next, end, got, lifecycle, delivered, bound>>

\* The source was destroyed or failed, or throwIfAborted threw in the loop.
PumpFails ==
    /\ pc = "streaming"
    /\ \/ source = "destroyed"
       \/ source = "reading" /\ (SourceStuck \/ (opts.signal /\ aborted /\ next < end /\ next \in present))
    /\ StopPump("failed", "destroyed")
    /\ UNCHANGED <<input, core, aborted, expired, pc, error, next, end, got, lifecycle, delivered, bound>>

Consume ==
    /\ out \in {"open", "ending"} /\ delivered < Len(got)
    /\ delivered' = delivered + 1
    /\ UNCHANGED <<input, core, open, aborted, expired, pc, error, stream, lifecycle, out, bound>>

\* The consumer sees 'end', on which bindStream cleans up.
ConsumeEnd ==
    /\ out = "ending" /\ delivered = Len(got)
    /\ out' = "ended" /\ bound' = FALSE
    /\ UNCHANGED <<input, core, open, aborted, expired, pc, error, stream, lifecycle, delivered>>

\* The consumer gives the stream up.
ConsumerDestroys ==
    /\ out \in {"open", "ending"}
    /\ out' = "destroyed"
    /\ UNCHANGED <<input, core, open, aborted, expired, pc, error, stream, lifecycle, delivered, bound>>

\* 'close' or 'error' is emitted, on which bindStream cleans up.
StreamClosed ==
    /\ out = "destroyed" /\ bound
    /\ bound' = FALSE
    /\ UNCHANGED <<input, core, open, aborted, expired, pc, error, stream, lifecycle, out, delivered>>
-----------------------------------------------------------------------------
\* An interrupt ends the await in progress, or destroys source and stream.
Interrupt(code) ==
    /\ IF pc \in Waits THEN Fail(code) ELSE UNCHANGED <<pc, error>>
    /\ source' = IF (bound \/ pc = "collecting") /\ source = "reading" THEN "destroyed" ELSE source
    /\ out' = IF bound THEN "destroyed" ELSE out
    /\ bound' = FALSE
    /\ UNCHANGED <<input, core, open, next, end, got, lifecycle, delivered>>

Abort == /\ opts.signal /\ ~aborted
         /\ aborted' = TRUE
         /\ Interrupt("ERR_OPERATION_ABORTED")
         /\ UNCHANGED expired

Expire == /\ opts.timed /\ ~expired
          /\ expired' = TRUE
          /\ Interrupt("ERR_OPERATION_TIMEOUT")
          /\ UNCHANGED aborted

\* A peer the caller replicates the core with delivers the block asked for,
\* and with it the core's length.
Wanted == CASE pc = "getting" -> {0}
            [] pc \in {"collecting", "streaming"} /\ source = "reading" /\ next < end -> {next}
            [] OTHER -> {}

Replicate ==
    /\ opts.provided /\ opts.wait /\ open
    /\ Wanted \ present # {}
    /\ present' = present \cup Wanted
    /\ length' = Len(content)
    /\ UNCHANGED <<input, open, aborted, expired, pc, error, stream, lifecycle, output>>

Call == Start \/ Opened \/ GotDescriptor \/ Assessed \/ CollectBlock \/ CollectFails
        \/ Collected \/ Finish \/ Close \/ Throw
Pump == PumpBlock \/ PumpEnds \/ PumpFails
Consumer == Consume \/ ConsumeEnd \/ ConsumerDestroys

Next == Call \/ Pump \/ Consumer \/ StreamClosed \/ Abort \/ Expire \/ Replicate

Spec == Init /\ [][Next]_vars

\* Local I/O answers and a timer fires; neither a peer nor the consumer nor
\* the holder of the signal has to do anything.
FairSpec == Spec /\ WF_vars(Call) /\ WF_vars(Pump) /\ WF_vars(Expire)
-----------------------------------------------------------------------------
TypeOK ==
    /\ opts \in Options /\ hash \in Hashes /\ content \in Contents
    /\ length \in {0, Len(content)}
    /\ present \subseteq 0..(length - 1)
    /\ open \in BOOLEAN /\ aborted \in BOOLEAN /\ expired \in BOOLEAN /\ bound \in BOOLEAN
    /\ pc \in Waits \cup Settled \cup {"start", "assessing", "finishing", "closing", "failing"}
    /\ error \in Codes \cup {"other", None}
    /\ source \in {"none", "reading", "destroyed", "drained", "failed"}
    /\ next \in 1..(Len(content) + 1) /\ end \in 0..Len(content)
    /\ lifecycle \in Lifecycles \cup {None}
    /\ out \in {"none", "open", "ending", "ended", "destroyed"}
    /\ delivered \in 0..Len(got)

\* A buffer read that reports ready returned the whole payload of the core,
\* in order, matching its descriptor, whose block the reference names.
ReadyMeansIntact ==
    pc = "done" /\ lifecycle.ready =>
        /\ got = Payload(content)
        /\ ValidBytes(content[1], Concat(Payload(content)))
        /\ hash # None => hash = content[1]
        /\ 0..(Len(content) - 1) \subseteq present

\* A consumer that reads to a clean end of a stream has the whole payload, if
\* the lifecycle said complete or the read could wait for missing blocks.
EndedStreamIsWhole ==
    out = "ended" /\ (lifecycle.complete \/ opts.wait)
        => SubSeq(got, 1, delivered) = Payload(content)

\* An intact object that is all there is never refused: without an interrupt
\* a read of it fails only if the core cannot be opened.
IntactObjectIsReadable ==
    (/\ error # None /\ ~Interrupted
     /\ length > 0 /\ 0..(length - 1) \subseteq present
     /\ content[1].kind = "descriptor" /\ hash \in {None, content[1]}
     /\ ValidBytes(content[1], Concat(Payload(content))))
        => error = "other"

\* The consumer destroyed a stream whose next block only a peer can deliver.
\* On 'close' bindStream disarmed the timer and the listener that could have
\* destroyed the source, which the pump goes on reading.
Abandoned ==
    /\ pc = "streaming" /\ out = "destroyed" /\ ~bound
    /\ opts.wait /\ source = "reading" /\ next < end /\ next \notin present

\* A core the read has to close is closed in the end, whichever way the call
\* went and whether or not a consumer reads the stream, if no peer is waited
\* for or there is a timeout - but for a stream that is given up while its
\* pump waits for a peer: the timeout no longer ends that wait.
CoreIsReleased ==
    opts.closeCore /\ (opts.timed \/ ~opts.wait) ~> (~open \/ []Abandoned)

\* docs/contracts.md: ready must not be reported after timeout or abort.
NotReadyAfterInterrupt ==
    [][pc # "done" /\ pc' = "done" /\ lifecycle'.ready => ~Interrupted]_vars
=============================================================================
