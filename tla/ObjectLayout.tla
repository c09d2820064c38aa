---------------------------- MODULE ObjectLayout ----------------------------
(***************************************************************************)
(* How one immutable object is laid out as blocks of a Hypercore           *)
(* (src/object/layout.js) and what the library concludes from the blocks   *)
(* it has (src/object/completeness.js, src/object/retention.js).           *)
(*                                                                         *)
(* Bytes are sequences over a set of byte values.  Digests are injective   *)
(* on what is hashed here: a digest is an algorithm and the bytes it was   *)
(* computed from, and the hash of a descriptor block is the block.         *)
(***************************************************************************)
EXTENDS Integers, Sequences

CONSTANT NoHint   \* a descriptor without an integrityHint

\* The algorithms createHash knows, with the hex digits of their digests: the
\* default, another one as long, and a longer one.
HexDigits == [algorithm \in {"sha256", "sha3-256", "sha512"} |->
                IF algorithm = "sha512" THEN 128 ELSE 64]
Algorithms == DOMAIN HexDigits
Digest(algorithm, bytes) == [algorithm |-> algorithm, of |-> bytes]

\* normalizeIntegrityHint: any algorithm may be named, with any digest.
Hint(algorithm, value) == [algorithm |-> algorithm, value |-> value]
HintOf(algorithm, bytes) == Hint(algorithm, Digest(algorithm, bytes))

Descriptor(size, hint) == [kind |-> "descriptor", size |-> size, hint |-> hint]
PayloadBlock(bytes) == [kind |-> "payload", bytes |-> bytes]

\* getPayloadBlockCount: Math.ceil(size / chunkSize), 0 for no bytes.
PayloadBlockCount(size, chunkSize) == (size + chunkSize - 1) \div chunkSize

\* chunkPayload: the slices from every multiple of chunkSize on; subarray
\* stops at the end of the buffer.
ChunkPayload(bytes, chunkSize) ==
    [i \in 1..PayloadBlockCount(Len(bytes), chunkSize) |->
        LET last == i * chunkSize IN
        PayloadBlock(SubSeq(bytes, last - chunkSize + 1,
                            IF last < Len(bytes) THEN last ELSE Len(bytes)))]

\* The blocks of an object: its descriptor, then its payload.
Layout(descriptor, bytes, chunkSize) ==
    <<descriptor>> \o ChunkPayload(bytes, chunkSize)

\* Buffer.concat of the payload blocks.
Concat(blocks) ==
    LET joined[i \in 0..Len(blocks)] ==
            IF i = 0 THEN <<>> ELSE joined[i - 1] \o blocks[i].bytes
    IN joined[Len(blocks)]

\* validateMaterializedBytes throws: the size is right, but createHash does
\* not know the algorithm of the hint.
Unhashable(descriptor, bytes) ==
    /\ Len(bytes) = descriptor.size
    /\ descriptor.hint # NoHint /\ descriptor.hint.algorithm \notin Algorithms

\* validateMaterializedBytes is true: the size first, then the digest by the
\* algorithm of the hint if there is one.
ValidBytes(descriptor, bytes) ==
    /\ Len(bytes) = descriptor.size
    /\ descriptor.hint # NoHint =>
          /\ descriptor.hint.algorithm \in Algorithms
          /\ descriptor.hint.value = Digest(descriptor.hint.algorithm, bytes)

\* Mutant: the descriptor block alone makes an object complete.
HasFirstBlock(length, present) == length >= 1 /\ 0 \in present

\* hasAllBlocks, of a core of this length with these blocks (from 0) present.
HasAllBlocks(length, present) == length >= 1 /\ 0..(length - 1) \subseteq present

ReadinessStates == <<"fetched", "complete", "materialized", "ready">>

\* assessObjectLifecycle with selectReadinessState; fetched is always true.
Lifecycle(complete, materialized, valid) ==
    LET ready == complete /\ materialized /\ valid IN
    [fetched |-> TRUE, complete |-> complete, materialized |-> materialized,
     ready |-> ready,
     state |-> ReadinessStates[IF ready THEN 4 ELSE IF materialized THEN 3
                               ELSE IF complete THEN 2 ELSE 1]]

Lifecycles == {Lifecycle(c, m, v) : c, m, v \in BOOLEAN}
=============================================================================
