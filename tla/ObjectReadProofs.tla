-------------------------- MODULE ObjectReadProofs --------------------------
(***************************************************************************)
(* Theorems about ObjectRead, for any contents of the core, any hashes and *)
(* any options.  None of its invariants is inductive.  The strengthening   *)
(* RInv says what was established about the core when it was (the          *)
(* descriptor is there and is the one asked for), that what was collected  *)
(* is a prefix of the payload, and why a source ended: it is at the end,   *)
(* or it may not wait and the next block is not there, which then stays    *)
(* so, since only a read that may wait receives blocks.                    *)
(***************************************************************************)
EXTENDS ObjectRead, SequenceTheorems, TLAPS

Block == UNION {{c[i] : i \in 1..Len(c)} : c \in Contents}
Before == {"start", "opening", "getting"}           \* no descriptor yet

Flags == open \in BOOLEAN /\ aborted \in BOOLEAN /\ expired \in BOOLEAN /\ bound \in BOOLEAN
Types == TypeOK /\ got \in Seq(Block)

\* Until the source is opened nothing was collected or returned.
Untouched ==
    /\ source = "none" => /\ pc \in Before \cup {"assessing", "failing", "failed"}
                          /\ next = 1 /\ got = <<>> /\ end = 0
                          /\ lifecycle = None /\ out = "none"
    /\ out = "none" => ~bound
    /\ pc \in Before \cup {"assessing"} => source = "none"

\* Past "getting" the descriptor is here and accepted; with it came the length.
Accepted == /\ 0 \in present /\ length = Len(content)
            /\ content[1].kind = "descriptor" /\ hash \in {None, content[1]}
Described == /\ pc = "assessing" \/ source # "none" => Accepted
             /\ source # "none" => end = length

\* What was collected, or is in the stream, is a prefix of the payload.
Prefix == /\ Len(got) = next - 1
          /\ \A i \in 1..Len(got) : got[i] = content[i + 1]
Collecting == out # "destroyed" => Prefix

\* Why a source has ended.
Over == next = end \/ SourceStuck
Returned ==
    /\ pc \in {"finishing", "closing", "done"} => out = "none" /\ Over
    /\ pc \in {"collecting", "failing", "failed"} => out = "none"
    /\ pc = "streaming" => out # "none" /\ lifecycle # None /\ ~lifecycle.ready
    /\ pc \in {"closing", "done"} => lifecycle # None
    /\ lifecycle # None => pc \in {"closing", "done", "streaming"}

Streamed ==
    /\ out = "open" => source \in {"reading", "destroyed"}
    /\ out \in {"ending", "ended"} => source = "drained" /\ Over
    /\ out = "ended" => delivered = Len(got)

\* The lifecycle never says more than there is.
LifecycleHolds ==
    lifecycle # None =>
        /\ lifecycle.fetched
        /\ lifecycle.complete => 0..(length - 1) \subseteq present
        /\ lifecycle.ready => lifecycle.complete /\ ValidBytes(content[1], Concat(got))

\* The cause of an error, which stays.
CauseOf ==
    /\ error # None => pc \in {"failing", "failed"}
    /\ error \in {"ERR_OPERATION_ABORTED", "ERR_OPERATION_TIMEOUT"} => Interrupted
    /\ error = "ERR_DESCRIPTOR_MISSING" => ~opts.wait /\ length < 1
    /\ error = "ERR_DESCRIPTOR_UNAVAILABLE" => ~opts.wait /\ 0 \notin present
    /\ error = "ERR_INVALID_DESCRIPTOR" => content[1].kind # "descriptor"
    /\ error = "ERR_DESCRIPTOR_HASH_MISMATCH" => hash \notin {None, content[1]}
    /\ error = "ERR_INTEGRITY_MISMATCH" =>
          source # "none" /\ Over /\ ~ValidBytes(content[1], Concat(got))

RInv == /\ Types /\ Untouched /\ Described /\ Collecting
        /\ Returned /\ Streamed /\ LifecycleHolds /\ CauseOf

LEMMA ContentIs ==
  ASSUME content \in Contents
  PROVE  /\ content \in Seq(Block) /\ Len(content) \in Nat /\ Len(content) >= 1
         /\ \A i \in 1..Len(content) : content[i] \in Block
  <1> DEFINE B == {content[i] : i \in 1..Len(content)}
  <1>1. content # <<>> /\ content \in Seq(B)
    BY ReadAssumption
  <1>2. B \subseteq Block
    BY DEF Block
  <1> HIDE DEF B
  <1>3. content \in Seq(Block)
    BY <1>1, <1>2, SeqMonotonic
  <1> HIDE DEF Block
  <1> QED BY <1>1, <1>3

LEMMA OptionsAre ==
  ASSUME opts \in Options
  PROVE  /\ opts.as \in {"buffer", "stream"} /\ opts.wait \in BOOLEAN
         /\ opts.provided \in BOOLEAN /\ opts.closeCore \in BOOLEAN
         /\ opts.signal \in BOOLEAN /\ opts.timed \in BOOLEAN
  BY ReadAssumption

LEMMA LifecycleSays ==
  \A c, m, v \in BOOLEAN :
      /\ Lifecycle(c, m, v) \in Lifecycles /\ Lifecycle(c, m, v) # None
      /\ Lifecycle(c, m, v).fetched = TRUE
      /\ Lifecycle(c, m, v).complete = c
      /\ Lifecycle(c, m, v).ready = (c /\ m /\ v)
  <1> SUFFICES ASSUME NEW c \in BOOLEAN, NEW m \in BOOLEAN, NEW v \in BOOLEAN
               PROVE  /\ Lifecycle(c, m, v) \in Lifecycles /\ Lifecycle(c, m, v) # None
                      /\ Lifecycle(c, m, v).fetched = TRUE
                      /\ Lifecycle(c, m, v).complete = c
                      /\ Lifecycle(c, m, v).ready = (c /\ m /\ v)
    OBVIOUS
  <1>1. Lifecycle(c, m, v) \in Lifecycles
    BY DEF Lifecycles
  <1>2. Lifecycle(c, m, v) # None
    BY <1>1, ReadAssumption
  <1> QED BY <1>1, <1>2 DEF Lifecycle

LEMMA ValidBytesIsBoolean ==
  \A d, bytes : ValidBytes(d, bytes) \in BOOLEAN
  BY DEF ValidBytes

LEMMA CompleteIs ==
  /\ Complete \in BOOLEAN
  /\ Complete => 0..(length - 1) \subseteq present
  BY DEF Complete, HasAllBlocks

LEMMA StreamLifecycle ==
  /\ Lifecycle(Complete, FALSE, FALSE) \in Lifecycles \ {None}
  /\ Lifecycle(Complete, FALSE, FALSE).fetched
  /\ ~Lifecycle(Complete, FALSE, FALSE).ready
  /\ Lifecycle(Complete, FALSE, FALSE).complete => 0..(length - 1) \subseteq present
  BY LifecycleSays, CompleteIs

LEMMA BufferLifecycle ==
  LET v == ValidBytes(content[1], Concat(got)) IN
  /\ Lifecycle(Complete, TRUE, v) \in Lifecycles \ {None}
  /\ Lifecycle(Complete, TRUE, v).fetched
  /\ Lifecycle(Complete, TRUE, v).complete => 0..(length - 1) \subseteq present
  /\ Lifecycle(Complete, TRUE, v).ready => Lifecycle(Complete, TRUE, v).complete /\ v
  <1> DEFINE v == ValidBytes(content[1], Concat(got))
             c == Complete
  <1>1. v \in BOOLEAN /\ c \in BOOLEAN /\ TRUE \in BOOLEAN
    BY ValidBytesIsBoolean, CompleteIs
  <1>2. c => 0..(length - 1) \subseteq present
    BY CompleteIs
  <1> HIDE DEF v, c
  <1>3. /\ Lifecycle(c, TRUE, v) \in Lifecycles \ {None}
        /\ Lifecycle(c, TRUE, v).fetched = TRUE
        /\ Lifecycle(c, TRUE, v).complete = c
        /\ Lifecycle(c, TRUE, v).ready = (c /\ TRUE /\ v)
    BY <1>1, LifecycleSays
  <1>4. /\ Lifecycle(c, TRUE, v).fetched
        /\ Lifecycle(c, TRUE, v).complete => 0..(length - 1) \subseteq present
        /\ Lifecycle(c, TRUE, v).ready => Lifecycle(c, TRUE, v).complete /\ v
    BY <1>2, <1>3
  <1> QED BY <1>3, <1>4 DEF v, c

-----------------------------------------------------------------------------
LEMMA InitEstablishesRInv == Init => RInv
  <1> SUFFICES ASSUME Init PROVE RInv
    OBVIOUS
  <1>0. Flags
    BY Zenon DEF Init, Flags
  <1>1. Types
    BY <1>0, ContentIs DEF Init, Flags, Types, TypeOK, Waits, Settled
  <1>2. Untouched /\ Described /\ Collecting
    BY DEF Init, Untouched, Described, Collecting, Prefix, Before
  <1>3. Returned /\ Streamed /\ LifecycleHolds /\ CauseOf
    BY NoneIsNoCode DEF Init, Returned, Streamed, LifecycleHolds, CauseOf, Codes
  <1> QED BY <1>1, <1>2, <1>3 DEF RInv

-----------------------------------------------------------------------------
(* Type correctness, one step per action.                                  *)

LEMMA NextKeepsFlags == RInv /\ [Next]_vars => Flags'
  <1> SUFFICES ASSUME RInv, [Next]_vars PROVE Flags'
    OBVIOUS
  <1>0. Flags /\ opts.signal \in BOOLEAN /\ opts.timed \in BOOLEAN
    BY OptionsAre DEF RInv, Types, TypeOK, Flags
  <1> USE <1>0 DEF Flags, core, stream, output, input, Await, Fail
  <1>1. CASE Start
    BY <1>1 DEF Start, ReadDescriptor, Await, Fail, InterruptCode
  <1>2. CASE Opened
    BY <1>2 DEF Opened, ReadDescriptor, Await, Fail, InterruptCode
  <1>3. CASE GotDescriptor
    BY <1>3 DEF GotDescriptor, Fail
  <1>4. CASE Assessed
    BY <1>4 DEF Assessed, OpenSource, Await, Fail, InterruptCode
  <1>5. CASE CollectBlock
    BY <1>5 DEF CollectBlock, NextBlock
  <1>6. CASE CollectFails
    BY <1>6 DEF CollectFails, SourceStuck, Fail
  <1>7. CASE Collected
    BY <1>7 DEF Collected, SourceStuck, Fail
  <1>8. CASE Finish
    BY <1>8 DEF Finish
  <1>9. CASE Close
    BY <1>9 DEF Close
  <1>10. CASE Throw
    BY <1>10 DEF Throw
  <1>11. CASE PumpBlock
    BY <1>11 DEF PumpBlock, NextBlock
  <1>12. CASE PumpEnds
    BY <1>12 DEF PumpEnds, StopPump, SourceStuck
  <1>13. CASE PumpFails
    BY <1>13 DEF PumpFails, StopPump, SourceStuck
  <1>14. CASE Consume
    BY <1>14 DEF Consume
  <1>15. CASE ConsumeEnd
    BY <1>15 DEF ConsumeEnd
  <1>16. CASE ConsumerDestroys
    BY <1>16 DEF ConsumerDestroys
  <1>17. CASE StreamClosed
    BY <1>17 DEF StreamClosed
  <1>18. CASE Abort
    BY <1>18 DEF Abort, Interrupt, Fail
  <1>19. CASE Expire
    BY <1>19 DEF Expire, Interrupt, Fail
  <1>20. CASE Replicate
    BY <1>20 DEF Replicate, Wanted
  <1>21. CASE UNCHANGED vars
    BY <1>21 DEF vars
  <1> QED BY <1>1, <1>2, <1>3, <1>4, <1>5, <1>6, <1>7, <1>8, <1>9, <1>10,
             <1>11, <1>12, <1>13, <1>14, <1>15, <1>16, <1>17, <1>18, <1>19, <1>20, <1>21
          DEF Next, Call, Pump, Consumer

LEMMA NextKeepsTypes == RInv /\ [Next]_vars => Types'
  <1> SUFFICES ASSUME RInv, [Next]_vars PROVE Types'
    OBVIOUS
  <1>0. Types /\ Untouched /\ Described /\ Returned /\ Flags'
    BY NextKeepsFlags DEF RInv
  <1> USE <1>0, ContentIs, OptionsAre DEF Types, TypeOK, Flags, Waits, Settled, Codes,
          core, stream, output, input
  <1>1. CASE Start
    BY <1>1 DEF Start, ReadDescriptor, Await, Fail, InterruptCode
  <1>2. CASE Opened
    BY <1>2 DEF Opened, ReadDescriptor, Await, Fail, InterruptCode
  <1>3. CASE GotDescriptor
    BY <1>3 DEF GotDescriptor, Fail
  <1>4. CASE Assessed
    <2>1. end' \in 0..Len(content) /\ source' = "reading"
      BY <1>4 DEF Assessed, OpenSource
    <2>2. pc' \in {"collecting", "failing", "streaming"}
      BY <1>4 DEF Assessed, OpenSource, Await, Fail, InterruptCode
    <2>3. error' \in {error, InterruptCode} /\ InterruptCode \in Codes
      BY <1>4 DEF Assessed, OpenSource, Await, Fail, InterruptCode
    <2>4. out' \in {out, "open"} /\ lifecycle' \in {lifecycle, Lifecycle(Complete, FALSE, FALSE)}
          /\ UNCHANGED <<delivered, got, next>>
      BY <1>4 DEF Assessed, OpenSource
    <2>5. UNCHANGED <<opts, hash, content, length, present>>
      BY <1>4 DEF Assessed
    <2> QED BY <2>1, <2>2, <2>3, <2>4, <2>5, StreamLifecycle
  <1>5. CASE CollectBlock
    BY <1>5 DEF CollectBlock, NextBlock, Described
  <1>6. CASE CollectFails
    BY <1>6 DEF CollectFails, SourceStuck, Fail
  <1>7. CASE Collected
    BY <1>7 DEF Collected, SourceStuck, Fail
  <1>8. CASE Finish
    BY <1>8, BufferLifecycle DEF Finish
  <1>9. CASE Close
    BY <1>9 DEF Close
  <1>10. CASE Throw
    BY <1>10 DEF Throw
  <1>11. CASE PumpBlock
    BY <1>11 DEF PumpBlock, NextBlock, Described
  <1>12. CASE PumpEnds
    BY <1>12 DEF PumpEnds, StopPump, SourceStuck
  <1>13. CASE PumpFails
    BY <1>13 DEF PumpFails, StopPump, SourceStuck
  <1>14. CASE Consume
    BY <1>14 DEF Consume
  <1>15. CASE ConsumeEnd
    BY <1>15 DEF ConsumeEnd
  <1>16. CASE ConsumerDestroys
    BY <1>16 DEF ConsumerDestroys
  <1>17. CASE StreamClosed
    BY <1>17 DEF StreamClosed
  <1>18. CASE Abort
    BY <1>18 DEF Abort, Interrupt, Fail
  <1>19. CASE Expire
    BY <1>19 DEF Expire, Interrupt, Fail
  <1>20. CASE Replicate
    BY <1>20 DEF Replicate, Wanted, Described, Accepted
  <1>21. CASE UNCHANGED vars
    BY <1>21 DEF vars
  <1> QED BY <1>1, <1>2, <1>3, <1>4, <1>5, <1>6, <1>7, <1>8, <1>9, <1>10,
             <1>11, <1>12, <1>13, <1>14, <1>15, <1>16, <1>17, <1>18, <1>19, <1>20, <1>21
          DEF Next, Call, Pump, Consumer

-----------------------------------------------------------------------------
(* The other conjuncts, action by action.                                  *)

LEMMA OpeningKeeps == RInv /\ (Start \/ Opened) /\ Types' => RInv'
  <1> SUFFICES ASSUME RInv, Start \/ Opened, Types' PROVE RInv'
    OBVIOUS
  <1> USE ContentIs DEF RInv, Before, core, stream, output, input, Start, Opened,
              ReadDescriptor, Await, Fail, InterruptCode
  <1>1. Untouched'
    BY DEF Untouched
  <1>2. Described'
    BY DEF Described, Untouched
  <1>3. Collecting'
    BY DEF Collecting, Prefix
  <1>4. Returned'
    BY DEF Returned, Untouched
  <1>5. Streamed'
    BY DEF Streamed, Untouched
  <1>6. LifecycleHolds'
    BY DEF LifecycleHolds
  <1>7. CauseOf'
    BY DEF CauseOf, Interrupted, Untouched
  <1> QED BY <1>1, <1>2, <1>3, <1>4, <1>5, <1>6, <1>7

LEMMA GotDescriptorKeeps == RInv /\ GotDescriptor /\ Types' => RInv'
  <1> SUFFICES ASSUME RInv, GotDescriptor, Types' PROVE RInv'
    OBVIOUS
  <1> USE ContentIs DEF RInv, Types, TypeOK, Before, core, stream, output, input,
              GotDescriptor, Fail
  <1>1. Untouched'
    BY DEF Untouched
  <1>2. Described'
    BY DEF Described, Accepted
  <1>3. Collecting'
    BY DEF Collecting, Prefix
  <1>4. Returned'
    BY DEF Returned, Untouched
  <1>5. Streamed'
    BY DEF Streamed, Untouched
  <1>6. LifecycleHolds'
    BY DEF LifecycleHolds
  <1>7. CauseOf'
    BY DEF CauseOf, Interrupted, Untouched
  <1> QED BY <1>1, <1>2, <1>3, <1>4, <1>5, <1>6, <1>7

LEMMA AssessedKeeps == RInv /\ Assessed /\ Types' => RInv'
  <1> SUFFICES ASSUME RInv, Assessed, Types' PROVE RInv'
    OBVIOUS
  <1> USE ContentIs DEF RInv, Before, core, output, input, Assessed, OpenSource, Await, Fail,
              InterruptCode
  <1>1. Untouched'
    BY DEF Untouched
  <1>2. Described'
    BY DEF Described, Accepted
  <1>3. Collecting'
    BY DEF Collecting, Prefix, Untouched
  <1>4. Returned'
    BY StreamLifecycle DEF Returned, Untouched
  <1>5. Streamed'
    BY DEF Streamed, Untouched
  <1>6. LifecycleHolds'
    BY StreamLifecycle DEF LifecycleHolds
  <1>7. CauseOf'
    BY DEF CauseOf, Interrupted, Untouched
  <1> QED BY <1>1, <1>2, <1>3, <1>4, <1>5, <1>6, <1>7

LEMMA CollectBlockKeeps == RInv /\ CollectBlock /\ Types' => RInv'
  <1> SUFFICES ASSUME RInv, CollectBlock, Types' PROVE RInv'
    OBVIOUS
  <1> USE ContentIs DEF RInv, Types, TypeOK, core, output, input, CollectBlock, NextBlock
  <1>1. Untouched'
    BY DEF Untouched
  <1>2. Described'
    BY DEF Described, Accepted
  <1>3. Collecting'
    BY DEF Collecting, Prefix
  <1>4. Returned'
    BY DEF Returned
  <1>5. Streamed'
    BY DEF Streamed, Returned
  <1>6. LifecycleHolds'
    BY DEF LifecycleHolds, Returned
  <1>7. CauseOf'
    BY DEF CauseOf, Interrupted, Over, SourceStuck
  <1> QED BY <1>1, <1>2, <1>3, <1>4, <1>5, <1>6, <1>7

LEMMA CollectFailsKeeps == RInv /\ CollectFails /\ Types' => RInv'
  <1> SUFFICES ASSUME RInv, CollectFails, Types' PROVE RInv'
    OBVIOUS
  <1> USE ContentIs DEF RInv, Before, core, output, input, CollectFails, Fail
  <1>1. Untouched'
    BY DEF Untouched
  <1>2. Described'
    BY DEF Described, Accepted, Untouched
  <1>3. Collecting'
    BY DEF Collecting, Prefix
  <1>4. Returned'
    BY DEF Returned
  <1>5. Streamed'
    BY DEF Streamed, Returned
  <1>6. LifecycleHolds'
    BY DEF LifecycleHolds
  <1>7. CauseOf'
    BY DEF CauseOf
  <1> QED BY <1>1, <1>2, <1>3, <1>4, <1>5, <1>6, <1>7

LEMMA CollectedKeeps == RInv /\ Collected /\ Types' => RInv'
  <1> SUFFICES ASSUME RInv, Collected, Types' PROVE RInv'
    OBVIOUS
  <1> USE ContentIs DEF RInv, Before, core, output, input, Collected, Fail
  <1>1. Untouched'
    BY DEF Untouched
  <1>2. Described'
    BY DEF Described, Accepted, Untouched
  <1>3. Collecting'
    BY DEF Collecting, Prefix
  <1>4. Returned'
    BY DEF Returned, Over, SourceStuck
  <1>5. Streamed'
    BY DEF Streamed, Returned
  <1>6. LifecycleHolds'
    BY DEF LifecycleHolds
  <1>7. CauseOf'
    BY DEF CauseOf, Interrupted, Over, SourceStuck
  <1> QED BY <1>1, <1>2, <1>3, <1>4, <1>5, <1>6, <1>7

LEMMA FinishKeeps == RInv /\ Finish /\ Types' => RInv'
  <1> SUFFICES ASSUME RInv, Finish, Types' PROVE RInv'
    OBVIOUS
  <1> USE ContentIs DEF RInv, Before, core, stream, output, input, Finish
  <1>1. Untouched'
    BY DEF Untouched
  <1>2. Described'
    BY DEF Described, Accepted
  <1>3. Collecting'
    BY DEF Collecting, Prefix
  <1>4. Returned'
    BY BufferLifecycle DEF Returned, Over, SourceStuck
  <1>5. Streamed'
    BY DEF Streamed, Returned
  <1>6. LifecycleHolds'
    BY BufferLifecycle DEF LifecycleHolds
  <1>7. CauseOf'
    BY DEF CauseOf, Interrupted, Over, SourceStuck
  <1> QED BY <1>1, <1>2, <1>3, <1>4, <1>5, <1>6, <1>7

LEMMA ReturningKeeps == RInv /\ (Close \/ Throw) /\ Types' => RInv'
  <1> SUFFICES ASSUME RInv, Close \/ Throw, Types' PROVE RInv'
    OBVIOUS
  <1> USE ContentIs DEF RInv, Before, core, stream, output, input, Close, Throw
  <1>1. Untouched'
    BY DEF Untouched
  <1>2. Described'
    BY DEF Described, Accepted
  <1>3. Collecting'
    BY DEF Collecting, Prefix
  <1>4. Returned'
    BY DEF Returned, Over, SourceStuck
  <1>5. Streamed'
    BY DEF Streamed, Returned
  <1>6. LifecycleHolds'
    BY DEF LifecycleHolds
  <1>7. CauseOf'
    BY DEF CauseOf, Interrupted, Over, SourceStuck
  <1> QED BY <1>1, <1>2, <1>3, <1>4, <1>5, <1>6, <1>7

LEMMA PumpBlockKeeps == RInv /\ PumpBlock /\ Types' => RInv'
  <1> SUFFICES ASSUME RInv, PumpBlock, Types' PROVE RInv'
    OBVIOUS
  <1> USE ContentIs DEF RInv, Types, TypeOK, core, output, input, PumpBlock, NextBlock
  <1>1. Untouched'
    BY DEF Untouched
  <1>2. Described'
    BY DEF Described, Accepted
  <1>3. Collecting'
    BY DEF Collecting, Prefix, Returned, Streamed
  <1>4. Returned'
    BY DEF Returned
  <1>5. Streamed'
    BY DEF Streamed
  <1>6. LifecycleHolds'
    BY DEF LifecycleHolds, Returned
  <1>7. CauseOf'
    BY DEF CauseOf, Interrupted, Over, SourceStuck
  <1> QED BY <1>1, <1>2, <1>3, <1>4, <1>5, <1>6, <1>7

LEMMA PumpStopsKeeps == RInv /\ (PumpEnds \/ PumpFails) /\ Types' => RInv'
  <1> SUFFICES ASSUME RInv, PumpEnds \/ PumpFails, Types' PROVE RInv'
    OBVIOUS
  <1> USE ContentIs DEF RInv, core, input, PumpEnds, PumpFails, StopPump
  <1>1. Untouched'
    BY DEF Untouched
  <1>2. Described'
    BY DEF Described, Accepted
  <1>3. Collecting'
    BY DEF Collecting, Prefix
  <1>4. Returned'
    BY DEF Returned
  <1>5. Streamed'
    BY DEF Streamed, Over, SourceStuck
  <1>6. LifecycleHolds'
    BY DEF LifecycleHolds
  <1>7. CauseOf'
    BY DEF CauseOf, Interrupted, Over, SourceStuck
  <1> QED BY <1>1, <1>2, <1>3, <1>4, <1>5, <1>6, <1>7

LEMMA ConsumerKeeps == RInv /\ (Consumer \/ StreamClosed) /\ Types' => RInv'
  <1> SUFFICES ASSUME RInv, Consumer \/ StreamClosed, Types' PROVE RInv'
    OBVIOUS
  <1> USE ContentIs DEF RInv, core, stream, input, Consumer, Consume, ConsumeEnd,
              ConsumerDestroys, StreamClosed
  <1>1. Untouched'
    BY DEF Untouched
  <1>2. Described'
    BY DEF Described, Accepted
  <1>3. Collecting'
    BY DEF Collecting, Prefix
  <1>4. Returned'
    BY DEF Returned
  <1>5. Streamed'
    BY DEF Streamed, Over, SourceStuck
  <1>6. LifecycleHolds'
    BY DEF LifecycleHolds
  <1>7. CauseOf'
    BY DEF CauseOf, Interrupted, Over, SourceStuck
  <1> QED BY <1>1, <1>2, <1>3, <1>4, <1>5, <1>6, <1>7

LEMMA InterruptKeeps == RInv /\ (Abort \/ Expire) /\ Types' => RInv'
  <1> SUFFICES ASSUME RInv, Abort \/ Expire, Types' PROVE RInv'
    OBVIOUS
  <1> USE ContentIs DEF RInv, Before, Waits, core, input, Abort, Expire, Interrupt, Fail
  <1>1. Untouched'
    BY DEF Untouched
  <1>2. Described'
    BY DEF Described, Accepted
  <1>3. Collecting'
    BY DEF Collecting, Prefix
  <1>4. Returned'
    BY DEF Returned, Over, SourceStuck, Untouched
  <1>5. Streamed'
    BY DEF Streamed, Over, SourceStuck
  <1>6. LifecycleHolds'
    BY DEF LifecycleHolds
  <1>7. CauseOf'
    BY DEF CauseOf, Interrupted, Over, SourceStuck
  <1> QED BY <1>1, <1>2, <1>3, <1>4, <1>5, <1>6, <1>7

LEMMA ReplicateKeeps == RInv /\ Replicate /\ Types' => RInv'
  <1> SUFFICES ASSUME RInv, Replicate, Types' PROVE RInv'
    OBVIOUS
  <1> USE ContentIs DEF RInv, stream, output, input, Replicate
  <1>1. Untouched'
    BY DEF Untouched
  <1>2. Described'
    BY DEF Described, Accepted
  <1>3. Collecting'
    BY DEF Collecting, Prefix
  <1>4. Returned'
    BY DEF Returned, Over, SourceStuck
  <1>5. Streamed'
    BY DEF Streamed, Over, SourceStuck
  <1>6. LifecycleHolds'
    BY DEF LifecycleHolds, Untouched, Described, Accepted
  <1>7. CauseOf'
    BY DEF CauseOf, Interrupted, Over, SourceStuck
  <1> QED BY <1>1, <1>2, <1>3, <1>4, <1>5, <1>6, <1>7

-----------------------------------------------------------------------------
LEMMA NextKeepsRInv == RInv /\ [Next]_vars => RInv'
  <1> SUFFICES ASSUME RInv, [Next]_vars PROVE RInv'
    OBVIOUS
  <1>1. Types'
    BY NextKeepsTypes
  <1>2. CASE UNCHANGED vars
    BY <1>1, <1>2 DEF vars, core, stream, output, input, RInv, Untouched, Described,
          Accepted, Collecting, Prefix, Returned, Over, SourceStuck, Streamed,
          LifecycleHolds, CauseOf, Interrupted
  <1> QED BY <1>1, <1>2, OpeningKeeps, GotDescriptorKeeps, AssessedKeeps, CollectBlockKeeps,
             CollectFailsKeeps, CollectedKeeps, FinishKeeps, ReturningKeeps, PumpBlockKeeps,
             PumpStopsKeeps, ConsumerKeeps, InterruptKeeps, ReplicateKeeps
          DEF Next, Call, Pump

LEMMA RInvAlways == Spec => []RInv
  BY InitEstablishesRInv, NextKeepsRInv, PTL DEF Spec

\* A prefix of the payload that is as long is the payload.
LEMMA WholePayload ==
  ASSUME Types, Prefix, next = Len(content) PROVE got = Payload(content)
  <1>1. /\ content \in Seq(Block) /\ Len(content) \in Nat /\ Len(content) >= 1
        /\ got \in Seq(Block)
    BY ContentIs DEF Types, TypeOK
  <1> DEFINE n == Len(content)
  <1>2. /\ Payload(content) \in Seq(Block) /\ Len(Payload(content)) = n - 1
        /\ \A i \in 1..(n - 1) : Payload(content)[i] = content[i + 1]
    BY <1>1 DEF Payload
  <1>3. Len(got) = n - 1 /\ \A i \in 1..(n - 1) : got[i] = content[i + 1]
    BY DEF Prefix
  <1> QED BY <1>1, <1>2, <1>3, SeqEqual

\* A source that may wait, or lacks nothing, ends only at the end.
LEMMA OverAtTheEnd ==
  ASSUME RInv, source # "none", Over, opts.wait \/ 0..(length - 1) \subseteq present
  PROVE  next = Len(content) /\ 0..(length - 1) = 0..(Len(content) - 1)
  <1>1. end = length /\ length = Len(content) /\ next >= 1 /\ next \in Nat /\ Len(content) \in Nat
    BY ContentIs DEF RInv, Types, TypeOK, Described, Accepted
  <1>2. next = end
    BY <1>1 DEF Over, SourceStuck
  <1> QED BY <1>1, <1>2

LEMMA ReadyMeansIntactHolds ==
  ASSUME RInv, lifecycle # None, lifecycle.ready
  PROVE  /\ got = Payload(content)
         /\ ValidBytes(content[1], Concat(Payload(content)))
         /\ Accepted
         /\ 0..(Len(content) - 1) \subseteq present
  <1>1. /\ source # "none" /\ Accepted /\ out = "none" /\ Over
        /\ 0..(length - 1) \subseteq present /\ ValidBytes(content[1], Concat(got))
    BY DEF RInv, Untouched, Described, Returned, LifecycleHolds
  <1>2. next = Len(content) /\ length = Len(content)
    BY <1>1, OverAtTheEnd DEF Accepted
  <1>3. got = Payload(content)
    BY <1>1, <1>2, WholePayload DEF RInv, Collecting
  <1> QED BY <1>1, <1>2, <1>3

-----------------------------------------------------------------------------
\* Type correctness: every variable keeps to its type, the stream's
\* position and the consumer's included (src/object/read.js).
THEOREM ObjectReadTypes == Spec => []TypeOK
  <1>1. RInv => TypeOK
    BY DEF RInv, Types
  <1> QED BY <1>1, RInvAlways, PTL

\* A buffer read that reports ready returned the whole payload of the core
\* in order, matching the descriptor the reference names, and every block
\* is local: whatever arrived while it was read (src/object/read.js).
THEOREM ReadyReadsAreIntact == Spec => []ReadyMeansIntact
  <1>1. ASSUME RInv PROVE ReadyMeansIntact
    <2> SUFFICES ASSUME pc = "done", lifecycle.ready
                 PROVE  /\ got = Payload(content)
                        /\ ValidBytes(content[1], Concat(Payload(content)))
                        /\ hash # None => hash = content[1]
                        /\ 0..(Len(content) - 1) \subseteq present
      BY DEF ReadyMeansIntact
    <2>1. lifecycle # None
      BY <1>1 DEF RInv, Returned
    <2> QED BY <1>1, <2>1, ReadyMeansIntactHolds DEF Accepted
  <1> QED BY <1>1, RInvAlways, PTL

\* A stream read to a clean end gave its consumer the whole payload, if
\* the lifecycle said complete or the read could wait for blocks
\* (createPayloadStream and writePayloadToStream in src/object/read.js).
THEOREM EndedStreamsAreWhole == Spec => []EndedStreamIsWhole
  <1>1. ASSUME RInv PROVE EndedStreamIsWhole
    <2> SUFFICES ASSUME out = "ended", lifecycle.complete \/ opts.wait
                 PROVE  SubSeq(got, 1, delivered) = Payload(content)
      BY DEF EndedStreamIsWhole
    <2>1. /\ source = "drained" /\ Over /\ delivered = Len(got) /\ Prefix
          /\ got \in Seq(Block)
      BY <1>1 DEF RInv, Types, Streamed, Collecting
    <2>2. lifecycle # None
      BY <1>1, <2>1 DEF RInv, Returned, Untouched, Types, TypeOK, Before, Waits, Settled
    <2>3. opts.wait \/ 0..(length - 1) \subseteq present
      BY <1>1, <2>2 DEF RInv, LifecycleHolds
    <2>4. got = Payload(content)
      BY <1>1, <2>1, <2>3, OverAtTheEnd, WholePayload DEF RInv
    <2> QED BY <2>1, <2>4, SubSeqFull
  <1> QED BY <1>1, RInvAlways, PTL

\* A read of an intact object that is all there fails, without an
\* interrupt, only if the core cannot be opened (src/object/read.js).
THEOREM IntactObjectsAreReadable == Spec => []IntactObjectIsReadable
  <1>1. ASSUME RInv PROVE IntactObjectIsReadable
    <2> SUFFICES ASSUME error # None, ~Interrupted,
                        length > 0, 0..(length - 1) \subseteq present,
                        content[1].kind = "descriptor", hash \in {None, content[1]},
                        ValidBytes(content[1], Concat(Payload(content)))
                 PROVE  error = "other"
      BY DEF IntactObjectIsReadable
    <2>1. length \in Nat /\ 0 \in present /\ error \in Codes \cup {"other"}
      BY <1>1, ContentIs DEF RInv, Types, TypeOK
    <2>2. error # "ERR_INTEGRITY_MISMATCH"
      <3> SUFFICES ASSUME error = "ERR_INTEGRITY_MISMATCH" PROVE FALSE
        OBVIOUS
      <3>1. source # "none" /\ Over /\ out = "none" /\ ~ValidBytes(content[1], Concat(got))
        BY <1>1, NoneIsNoCode DEF RInv, CauseOf, Returned, Codes
      <3>2. next = Len(content) /\ Prefix
        BY <1>1, <3>1, OverAtTheEnd DEF RInv, Collecting
      <3>3. got = Payload(content)
        BY <1>1, <3>2, WholePayload DEF RInv
      <3> QED BY <3>1, <3>3
    <2> QED BY <1>1, <2>1, <2>2 DEF RInv, CauseOf, Codes
  <1> QED BY <1>1, RInvAlways, PTL

\* A core that is to be closed is closed once the call has settled without
\* a stream, or its stream's pump has stopped.
ClosedWhenOver ==
    opts.closeCore /\ (pc \in {"done", "failed"} \/ source \in {"drained", "failed"}) => ~open

\* The safety behind CoreIsReleased: no read that owns its core returns or
\* throws with the core open, and no pump stops without closing it.
THEOREM CoresAreClosed == Spec => []ClosedWhenOver
  <1>1. Init => ClosedWhenOver
    BY DEF Init, ClosedWhenOver
  <1>2. ClosedWhenOver /\ RInv /\ [Next]_vars => ClosedWhenOver'
    <2> SUFFICES ASSUME ClosedWhenOver, RInv, [Next]_vars PROVE ClosedWhenOver'
      OBVIOUS
    <2> USE DEF ClosedWhenOver, vars, core, stream, output, input, Fail, Await
    <2>1. CASE Start \/ Opened
      BY <2>1 DEF Start, Opened, ReadDescriptor
    <2>2. CASE GotDescriptor \/ Assessed
      BY <2>2 DEF GotDescriptor, Assessed, OpenSource
    <2>3. CASE CollectBlock \/ CollectFails \/ Collected
      BY <2>3 DEF CollectBlock, CollectFails, Collected
    <2>4. CASE Finish
      BY <2>4 DEF Finish, RInv, Returned, Streamed
    <2>5. CASE Close \/ Throw
      BY <2>5 DEF Close, Throw
    <2>6. CASE Pump
      BY <2>6 DEF Pump, PumpBlock, PumpEnds, PumpFails, StopPump
    <2>7. CASE Consumer \/ StreamClosed
      BY <2>7 DEF Consumer, Consume, ConsumeEnd, ConsumerDestroys, StreamClosed
    <2>8. CASE Abort \/ Expire
      BY <2>8 DEF Abort, Expire, Interrupt
    <2>9. CASE Replicate
      BY <2>9 DEF Replicate
    <2>10. CASE UNCHANGED vars
      BY <2>10
    <2> QED BY <2>1, <2>2, <2>3, <2>4, <2>5, <2>6, <2>7, <2>8, <2>9, <2>10 DEF Next, Call
  <1> QED BY <1>1, <1>2, RInvAlways, PTL DEF Spec
=============================================================================
