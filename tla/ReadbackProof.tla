---------------------------- MODULE ReadbackProof ----------------------------
(***************************************************************************)
(* What is said about an object once it was read: the readback proof       *)
(* handed to Conduit (src/integration/conduit-corestore-readback.js) and   *)
(* the retention posture (src/object/retention.js), both computed from the *)
(* lifecycle and the records that ObjectRead and a publication return.     *)
(*                                                                         *)
(* The constant fields of a proof and its hash over itself are left out.   *)
(* Evidence supplied by a caller is the set of facts it states; nonClaims  *)
(* are the set of claims a record fails to deny, and embedded the fields   *)
(* with raw bytes in them.                                                 *)
(***************************************************************************)
EXTENDS ObjectRead

Topologies == {"single_store_local_reopen", "local_two_store_hyperswarm_testnet_readback",
               "retained_store_process_readback"}
ReplicationFacts == {"local_testnet", "separate_stores", "readback_after_fetch"}
RetentionFacts == {"local_runtime_store", "separate_process", "closed_then_reopened",
                   "proof_window_commitment"}
Overclaims == {"retention_beyond_proof_window", "authority_granted"}
ForbiddenClaims == {"conduit_published", "conduit_fetched", "conduit_pinned", "conduit_stored",
                    "conduit_materialized", "acceptance", "platform_action"}

\* The cores a publication can have written.
Publishable(blocks) == /\ blocks[1].kind = "descriptor"
                       /\ ValidBytes(blocks[1], Concat(Payload(blocks)))

\* What publishing the object of a core returned, and what the read returned.
\* The key of a core stands for its blocks.
Published(blocks) ==
    [key |-> blocks, descriptor |-> blocks[1], lifecycle |-> Lifecycle(TRUE, FALSE, FALSE),
     totalBlockCount |-> Len(blocks), payloadIntegrity |-> Digest("sha256", Concat(Payload(blocks)))]
ReadResult ==
    [key |-> content, descriptor |-> content[1], lifecycle |-> lifecycle,
     totalBlockCount |-> None, payloadIntegrity |-> None]

\* a ?? b, of two sources that give a field.
OrElse(a, b) == IF a # None THEN a ELSE b

\* Mutant: only the descriptor's own hint is taken for the hash.
HashFromHintOnly(descriptor, published) ==
    IF descriptor.hint # NoHint THEN descriptor.hint.value ELSE None

\* The expected hash: the value of the descriptor's hint, whatever algorithm
\* the hint names, or else the publication's sha256 digest.
ExpectedHash(descriptor, published) ==
    IF descriptor.hint # NoHint THEN descriptor.hint.value ELSE published.payloadIntegrity

\* What a proof takes for a sha256 hash: any 64 hex digits.
Sha256Like(value) == value # None /\ HexDigits[value.algorithm] = 64

\* The records a proof is created from: the readback's before the
\* publication's.  Fields given outright would only replace these.
Subject(readback, published) ==
    [key |-> OrElse(readback.key, published.key),
     descriptor |-> OrElse(readback.descriptor, published.descriptor),
     lifecycle |-> OrElse(readback.lifecycle, published.lifecycle),
     totalBlockCount |-> published.totalBlockCount]

\* createAvailabilityEvidence: it states what it is given, and availability.
AvailabilityEvidence(key, expected, version) ==
    [referenceKey |-> key, expectedHash |-> expected, hypercoreLength |-> version,
     payloadBlocksAvailable |-> TRUE, claims |-> {}]

\* A field that is given is not undefined.
ASSUME ReadbackAssumption ==
    /\ None \notin Nat /\ None # ReplicationFacts /\ None # RetentionFacts
    /\ \A c \in Contents :
          LET bytes == Concat(Payload(c)) IN
          /\ \A algorithm \in Algorithms : Digest(algorithm, bytes) # None
          /\ AvailabilityEvidence(c, Digest("sha256", bytes), Len(c)) # None

\* createCorestoreReadbackFixture.
Fixture(subject, expected, supplied) ==
    [key |-> subject.key, version |-> subject.totalBlockCount, expectedHash |-> expected,
     topology |-> supplied.topology, replication |-> supplied.replication,
     retention |-> supplied.retention,
     availability |-> OrElse(supplied.availability,
                             AvailabilityEvidence(subject.key, expected, subject.totalBlockCount)),
     bytesReadable |-> subject.lifecycle.fetched \/ subject.lifecycle.complete
                                                 \/ subject.lifecycle.ready,
     embedded |-> {}]

ValidReplication(fixture) ==
    CASE fixture.topology = "single_store_local_reopen" -> fixture.replication = None
      [] fixture.topology = "local_two_store_hyperswarm_testnet_readback" ->
            fixture.replication # None /\ ReplicationFacts \subseteq fixture.replication
      [] OTHER -> TRUE

ValidRetention(fixture) ==
    IF fixture.topology # "retained_store_process_readback" THEN fixture.retention = None
    ELSE /\ fixture.retention # None /\ RetentionFacts \subseteq fixture.retention
         /\ fixture.retention \cap Overclaims = {}

\* Of the claims availability evidence could make, device-boundary
\* availability is not looked at.
ValidClaims(evidence) == evidence.claims \subseteq {"device_boundary"}

\* Mutant: the evidence is not compared with the key of the reference.
ValidAvailabilityOfAnyKey(fixture) ==
    LET evidence == fixture.availability IN
    /\ evidence.expectedHash = fixture.expectedHash
    /\ evidence.hypercoreLength = fixture.version
    /\ evidence.payloadBlocksAvailable /\ ValidClaims(evidence)

\* validateAvailabilityEvidence: it is about this reference, hash and length.
ValidAvailability(fixture) ==
    LET evidence == fixture.availability IN
    /\ evidence.referenceKey = fixture.key
    /\ evidence.expectedHash = fixture.expectedHash
    /\ evidence.hypercoreLength = fixture.version
    /\ evidence.payloadBlocksAvailable /\ ValidClaims(evidence)

\* validateReadbackFixture.
ValidFixture(fixture) ==
    /\ fixture.topology \in Topologies
    /\ ValidReplication(fixture) /\ ValidRetention(fixture) /\ ValidAvailability(fixture)
    /\ Sha256Like(fixture.expectedHash)
    /\ fixture.version # None /\ fixture.version >= 1
    /\ fixture.bytesReadable /\ fixture.embedded = {}

\* validateConduitCorestoreReadbackProof: no issue is found.
ValidProof(proof) == /\ ValidFixture(proof.readback)
                     /\ proof.embedded = {}
                     /\ proof.claims \cap ForbiddenClaims = {}

\* The artifact of createConduitCorestoreReadbackProof.
Artifact(readback, published, supplied) ==
    LET s == Subject(readback, published) IN
    [readback |-> Fixture(s, ExpectedHash(s.descriptor, published), supplied),
     claims |-> {}, embedded |-> {}]

\* createConduitCorestoreReadbackProof returns its artifact, for an expected
\* hash and a length it accepts, if the artifact validates; or else it throws.
Created(readback, published, supplied) ==
    LET s == Subject(readback, published) IN
    /\ Sha256Like(ExpectedHash(s.descriptor, published))
    /\ s.totalBlockCount # None /\ s.totalBlockCount >= 1
    /\ ValidProof(Artifact(readback, published, supplied))

\* Mutant: a lifecycle that is not given counts as a local copy.
PostureOfAnything(snapshot, pinned, stale) ==
    [pinned |-> pinned, ephemeral |-> ~pinned, stale |-> stale, prunable |-> ~pinned]

\* assessRetentionPosture; the lifecycle may be left out.
RetentionPosture(snapshot, pinned, stale) ==
    LET local == snapshot # None /\ snapshot.fetched IN
    [pinned |-> pinned, ephemeral |-> ~pinned, stale |-> stale, prunable |-> local /\ ~pinned]
-----------------------------------------------------------------------------
\* The evidence that goes with each topology, and the proof created with it.
Evidence(topology) ==
    [topology |-> topology, availability |-> None,
     replication |-> IF topology = "local_two_store_hyperswarm_testnet_readback"
                     THEN ReplicationFacts ELSE None,
     retention |-> IF topology = "retained_store_process_readback"
                   THEN RetentionFacts ELSE None]
ProofWith(supplied) == Artifact(ReadResult, Published(content), supplied)
Provable(supplied) == Created(ReadResult, Published(content), supplied)
PlainEvidence == Evidence("single_store_local_reopen")

\* A read that reported ready, with the publication of what it read and the
\* evidence of its topology, yields a proof, and every word of it is true: the
\* hash is the digest of the payload behind the key and the blocks counted are
\* all there.  Only a hint with a digest of another length than sha256's is no
\* obstacle to ready but one to the proof, whose creation then throws.
ReadyReadIsProvable ==
    lifecycle # None /\ lifecycle.ready =>
        LET hint == content[1].hint
            algorithm == IF hint # NoHint THEN hint.algorithm ELSE "sha256" IN
        \A topology \in Topologies :
            LET proof == ProofWith(Evidence(topology)) IN
            IF HexDigits[algorithm] # 64 THEN ~Provable(Evidence(topology))
            ELSE /\ Provable(Evidence(topology))
                 /\ proof.readback.expectedHash = Digest(algorithm, Concat(Payload(content)))
                 /\ 0..(proof.readback.version - 1) \subseteq present

\* Evidence cannot be borrowed: neither availability evidence of another
\* published object, be its payload the same, nor the evidence that goes with
\* one topology under another, makes a proof that validates.
BorrowedEvidenceIsRefused ==
    lifecycle # None =>
        /\ \A other \in {c \in Contents \ {content} : Publishable(c)} :
              LET p == Published(other)
                  borrowed == AvailabilityEvidence(other, p.payloadIntegrity, p.totalBlockCount) IN
              ~Provable([PlainEvidence EXCEPT !.availability = borrowed])
        /\ \A t \in Topologies : \A u \in Topologies \ {t} :
              ~Provable([Evidence(t) EXCEPT !.topology = u])

\* What is reported prunable has a local copy: a read has reported on it, and
\* at least its descriptor is here.
PrunableIsLocal ==
    \A stale \in BOOLEAN : RetentionPosture(lifecycle, FALSE, stale).prunable => 0 \in present

\* docs/integration-seams.md: the availability evidence proves the payload
\* block posture of the readback.  So a proof of an object that was published
\* calls its blocks available only when they are here.
AvailabilityWasObserved ==
    (/\ lifecycle # None
     /\ Publishable(content)
     /\ Provable(PlainEvidence)
     /\ ProofWith(PlainEvidence).readback.availability.payloadBlocksAvailable)
        => HasAllBlocks(length, present)
=============================================================================
