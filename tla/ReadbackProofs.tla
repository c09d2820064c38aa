--------------------------- MODULE ReadbackProofs ---------------------------
(***************************************************************************)
(* Theorems about what is said of an object once it was read               *)
(* (ReadbackProof): the readback proof and the retention posture are only  *)
(* computed, so each theorem follows from the invariant RInv of the read   *)
(* that their inputs come from (ObjectReadProofs).                         *)
(***************************************************************************)
EXTENDS ReadbackProof, ObjectReadProofs

TheReadback(supplied) == ProofWith(supplied).readback

\* The fixture made for the core that was read and published.
LEMMA FixtureFields ==
  ASSUME lifecycle # None, NEW supplied
  PROVE  LET f == TheReadback(supplied)
             hint == content[1].hint
             digest == Digest("sha256", Concat(Payload(content))) IN
         /\ f.key = content /\ f.version = Len(content)
         /\ f.expectedHash = IF hint # NoHint THEN hint.value ELSE digest
         /\ f.topology = supplied.topology
         /\ f.replication = supplied.replication /\ f.retention = supplied.retention
         /\ f.availability = OrElse(supplied.availability,
                                    AvailabilityEvidence(content, f.expectedHash, Len(content)))
         /\ f.bytesReadable = (lifecycle.fetched \/ lifecycle.complete \/ lifecycle.ready)
         /\ f.embedded = {}
         /\ Provable(supplied) <=>
               Sha256Like(f.expectedHash) /\ f.version # None /\ f.version >= 1
               /\ ValidFixture(f)
  <1> DEFINE s == Subject(ReadResult, Published(content))
             e == ExpectedHash(s.descriptor, Published(content))
  <1>1. /\ s.key = content /\ s.descriptor = content[1] /\ s.lifecycle = lifecycle
        /\ s.totalBlockCount = Len(content)
    BY DEF Subject, ReadResult, Published, OrElse
  <1>2. e = IF content[1].hint # NoHint THEN content[1].hint.value
            ELSE Digest("sha256", Concat(Payload(content)))
    BY <1>1 DEF ExpectedHash, Published
  <1>3. /\ TheReadback(supplied) = Fixture(s, e, supplied)
        /\ ProofWith(supplied).embedded = {} /\ ProofWith(supplied).claims = {}
    BY DEF TheReadback, ProofWith, Artifact
  <1>4. Provable(supplied) <=> /\ Sha256Like(e)
                               /\ s.totalBlockCount # None /\ s.totalBlockCount >= 1
                               /\ ValidFixture(TheReadback(supplied))
    BY <1>3 DEF Provable, Created, ProofWith, TheReadback, ValidProof
  <1> HIDE DEF s, e
  <1> QED BY <1>1, <1>2, <1>3, <1>4 DEF Fixture

\* The evidence of a topology is accepted under it and under no other.
LEMMA EvidenceFits ==
  ASSUME NEW t \in Topologies
  PROVE  /\ Evidence(t).topology = t /\ Evidence(t).availability = None
         /\ ValidReplication(Evidence(t)) /\ ValidRetention(Evidence(t))
         /\ \A u \in Topologies \ {t} :
               LET e == [Evidence(t) EXCEPT !.topology = u] IN
               ~(ValidReplication(e) /\ ValidRetention(e))
  <1>1. RetentionFacts \cap Overclaims = {}
    BY DEF RetentionFacts, Overclaims
  <1>2. None # ReplicationFacts /\ None # RetentionFacts
    BY ReadbackAssumption
  <1> QED BY <1>1, <1>2 DEF Evidence, Topologies, ValidReplication, ValidRetention

LEMMA ReadyReadIsProvableHolds == RInv => ReadyReadIsProvable
  <1> SUFFICES ASSUME RInv, lifecycle # None, lifecycle.ready, NEW t \in Topologies
               PROVE  LET hint == content[1].hint
                          algorithm == IF hint # NoHint THEN hint.algorithm ELSE "sha256"
                          proof == ProofWith(Evidence(t)) IN
                      IF HexDigits[algorithm] # 64 THEN ~Provable(Evidence(t))
                      ELSE /\ Provable(Evidence(t))
                           /\ proof.readback.expectedHash
                                 = Digest(algorithm, Concat(Payload(content)))
                           /\ 0..(proof.readback.version - 1) \subseteq present
    BY DEF ReadyReadIsProvable
  <1> DEFINE f == TheReadback(Evidence(t))
             hint == content[1].hint
             algorithm == IF hint # NoHint THEN hint.algorithm ELSE "sha256"
             digest == Digest(algorithm, Concat(Payload(content)))
  <1>1. /\ ValidBytes(content[1], Concat(Payload(content)))
        /\ 0..(Len(content) - 1) \subseteq present
    BY ReadyMeansIntactHolds
  <1>2. content \in Contents /\ Len(content) \in Nat /\ Len(content) >= 1
    BY ContentIs DEF RInv, Types, TypeOK
  <1>3. f.expectedHash = digest /\ f.version = Len(content) /\ algorithm \in Algorithms
    BY <1>1, FixtureFields DEF ValidBytes, Algorithms, HexDigits
  <1>4. /\ f.topology = t /\ f.replication = Evidence(t).replication
        /\ f.retention = Evidence(t).retention
        /\ f.availability = AvailabilityEvidence(f.key, f.expectedHash, f.version)
        /\ f.embedded = {}
    BY <1>3, FixtureFields, EvidenceFits DEF OrElse
  <1>5. f.bytesReadable
    <2>1. f.bytesReadable = (lifecycle.fetched \/ lifecycle.complete \/ lifecycle.ready)
      BY FixtureFields
    <2> HIDE DEF f
    <2> QED BY <2>1
  <1> HIDE DEF f
  <1>6. ValidReplication(f) /\ ValidRetention(f)
    BY <1>4, EvidenceFits DEF ValidReplication, ValidRetention
  <1>7. ValidAvailability(f)
    BY <1>4 DEF ValidAvailability, AvailabilityEvidence, ValidClaims
  <1>8. f.expectedHash # None /\ f.version # None /\ f.version >= 1
    BY <1>2, <1>3, ReadbackAssumption
  <1>9. digest.algorithm = algorithm
    BY DEF Digest
  <1> HIDE DEF hint, algorithm, digest
  <1>10. Sha256Like(f.expectedHash) <=> HexDigits[algorithm] = 64
    BY <1>3, <1>8, <1>9 DEF Sha256Like
  <1>11. Provable(Evidence(t)) <=> HexDigits[algorithm] = 64
    <2>1. Provable(Evidence(t)) <=> Sha256Like(f.expectedHash) /\ f.version # None
                                    /\ f.version >= 1 /\ ValidFixture(f)
      BY FixtureFields DEF f
    <2> QED BY <2>1, <1>4, <1>5, <1>6, <1>7, <1>8, <1>10 DEF ValidFixture
  <1> QED BY <1>1, <1>3, <1>11 DEF f, TheReadback, hint, algorithm, digest

LEMMA BorrowedEvidenceIsRefusedHolds == RInv => BorrowedEvidenceIsRefused
  <1> SUFFICES ASSUME RInv, lifecycle # None PROVE BorrowedEvidenceIsRefused
    BY DEF BorrowedEvidenceIsRefused
  <1>1. ASSUME NEW other \in Contents \ {content}
        PROVE  LET p == Published(other)
                   borrowed == AvailabilityEvidence(other, p.payloadIntegrity, p.totalBlockCount) IN
               ~Provable([PlainEvidence EXCEPT !.availability = borrowed])
    <2> DEFINE p == Published(other)
               borrowed == AvailabilityEvidence(other, p.payloadIntegrity, p.totalBlockCount)
               supplied == [PlainEvidence EXCEPT !.availability = borrowed]
    <2>1. borrowed # None /\ borrowed.referenceKey = other
      BY ReadbackAssumption DEF Published, AvailabilityEvidence
    <2>2. supplied.availability = borrowed
      BY DEF PlainEvidence, Evidence
    <2> HIDE DEF borrowed, supplied
    <2>3. TheReadback(supplied).availability = borrowed /\ TheReadback(supplied).key = content
      BY <2>1, <2>2, FixtureFields DEF OrElse
    <2>4. ~ValidAvailability(TheReadback(supplied))
      BY <2>1, <2>3 DEF ValidAvailability
    <2> QED BY <2>4, FixtureFields DEF ValidFixture, supplied, borrowed
  <1>2. ASSUME NEW t \in Topologies, NEW u \in Topologies \ {t}
        PROVE  ~Provable([Evidence(t) EXCEPT !.topology = u])
    <2> DEFINE supplied == [Evidence(t) EXCEPT !.topology = u]
    <2>1. ~(ValidReplication(supplied) /\ ValidRetention(supplied))
      BY EvidenceFits
    <2> HIDE DEF supplied
    <2>2. ~(ValidReplication(TheReadback(supplied)) /\ ValidRetention(TheReadback(supplied)))
      BY <2>1, FixtureFields DEF ValidReplication, ValidRetention
    <2> QED BY <2>2, FixtureFields DEF ValidFixture, supplied
  <1> QED BY <1>1, <1>2 DEF BorrowedEvidenceIsRefused

-----------------------------------------------------------------------------
\* A read that reported ready yields a proof that validates, under each topology
\* with its evidence, whose hash is the digest of the payload behind the key and
\* whose blocks are all local - unless the descriptor's hint has a digest of
\* another length than sha256's: then createConduitCorestoreReadbackProof throws,
\* under every topology.
THEOREM ReadyReadsAreProvable == Spec => []ReadyReadIsProvable
  BY ReadyReadIsProvableHolds, RInvAlways, PTL

\* Neither availability evidence of another object, be its payload the same,
\* nor the evidence of another topology makes a proof that validates
\* (validateReadbackFixture, validateAvailabilityEvidence).
THEOREM BorrowedEvidenceRefused == Spec => []BorrowedEvidenceIsRefused
  BY BorrowedEvidenceIsRefusedHolds, RInvAlways, PTL

\* What assessRetentionPosture reports prunable has its descriptor here: the
\* lifecycle it is computed from is returned only by a read that had it.
THEOREM PrunableIsHere == Spec => []PrunableIsLocal
  <1>1. ASSUME RInv PROVE PrunableIsLocal
    <2>1. lifecycle # None => 0 \in present
      BY <1>1 DEF RInv, Untouched, Described, Accepted
    <2> QED BY <2>1 DEF PrunableIsLocal, RetentionPosture
  <1> QED BY <1>1, RInvAlways, PTL
=============================================================================
