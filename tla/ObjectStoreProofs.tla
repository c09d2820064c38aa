-------------------------- MODULE ObjectStoreProofs --------------------------
(***************************************************************************)
(* Theorems about ObjectStore, for any publishers, storages, payloads and  *)
(* chunk sizes.  StoredWhole is not inductive: that an append meets an     *)
(* empty log rests on the storage lock, which its publisher holds from the *)
(* check that the log is empty until it closes the core.                   *)
(*                                                                         *)
(* That a reference keeps resolving to the published bytes rests on a fact *)
(* about every payload and chunk size: the chunks concatenate to the bytes *)
(* they were cut from.  Concat is a recursive function, so that needs an   *)
(* induction; it is a least counterexample, which the well-foundedness of  *)
(* the naturals gives (WFMin), found in the set of the indexes where two   *)
(* functions differ.                                                       *)
(***************************************************************************)
EXTENDS ObjectStore, SequenceTheorems, WellFoundedInduction, TLAPS

Locking == {"appending", "assessing", "closing", "discarding"}
Wrote == {"assessing", "closing", "published"}

\* A call past core.ready() holds the lock of its storage.
LockHeld == \A p \in Publishers : pc[p] \in Locking => holder[request[p].storage] = p

\* A lock is held for the storage asked for; over an empty log until the
\* append, and by a call that was rejected before it.
LockOverEmptyLog ==
    \A s \in Storages : \A p \in Publishers :
        holder[s] = p =>
            /\ request[p].storage = s
            /\ pc[p] \in Locking \cup {"rejected", "failed"}
            /\ pc[p] \in {"appending", "rejected"} => log[s] = <<>>

\* What a call appends was admitted and can be chunked.
Admitted ==
    \A p \in Publishers :
        /\ pc[p] \in {"opening", "appending"} \cup Wrote =>
              ValidBytes(request[p].descriptor, request[p].bytes)
        /\ pc[p] \in {"appending"} \cup Wrote => request[p].chunkSize >= 1

\* A call that appended finds its blocks in its storage.
Written == \A p \in Publishers :
              pc[p] \in Wrote => log[request[p].storage] = Blocks(request[p])

Types == /\ DOMAIN log = Storages
         /\ holder \in [Storages -> Publishers \cup {None}]
         /\ pc \in [Publishers -> {"idle"} \cup InFlight \cup Ended]
         /\ request \in [Publishers -> Requests \cup {None}]
         /\ \A p \in Publishers : (request[p] = None) = (pc[p] = "idle")

Results == /\ DOMAIN result = Publishers
           /\ \A p \in Publishers :
                 result[p] # None => /\ result[p].storage \in Storages
                                     /\ result[p].lifecycle \in Lifecycles

SInv == /\ Types /\ Results
        /\ LockHeld /\ LockOverEmptyLog /\ Admitted /\ Written
        /\ StoredWhole

-----------------------------------------------------------------------------
(* The layout: chunks and their concatenation.                             *)

\* A non-empty set of naturals has a least element.
LEMMA LeastNatural ==
  ASSUME NEW T, T \subseteq Nat, T # {}
  PROVE  \E n \in T : \A m \in T : n <= m
  <1>1. PICK n \in T : \A m \in T : ~(<<m, n>> \in OpToRel(<, Nat))
    BY NatLessThanWellFounded, WFMin
  <1>2. n \in Nat
    OBVIOUS
  <1> SUFFICES ASSUME NEW m \in T, m < n PROVE FALSE
    BY <1>2
  <1>3. m \in Nat /\ <<m, n>> \in Nat \X Nat
    BY <1>2
  <1>4. <<m, n>> \in OpToRel(<, Nat)
    BY <1>3 DEF OpToRel
  <1> QED BY <1>1, <1>4

\* Whatever satisfies the recursion of Concat is what it computes.
LEMMA ConcatIs ==
  ASSUME NEW blocks, NEW n \in Nat, n = Len(blocks), NEW J, DOMAIN J = 0..n,
         J = [i \in 0..n |-> IF i = 0 THEN <<>> ELSE J[i - 1] \o blocks[i].bytes]
  PROVE  Concat(blocks) = J[n]
  <1> DEFINE Joined(f) == f = [i \in 0..n |-> IF i = 0 THEN <<>> ELSE f[i - 1] \o blocks[i].bytes]
             F == CHOOSE f : Joined(f)
  <1>1. Joined(F)
    <2>1. Joined(J)
      OBVIOUS
    <2> HIDE DEF Joined
    <2> QED BY <2>1
  <1>2. Concat(blocks) = F[n]
    BY DEF Concat
  <1>3. DOMAIN F = 0..n /\ \A i \in 0..n : F[i] = IF i = 0 THEN <<>> ELSE F[i - 1] \o blocks[i].bytes
    <2> HIDE DEF F
    <2> QED BY <1>1
  <1> HIDE DEF F, Joined
  <1>4. \A i \in 0..n : J[i] = IF i = 0 THEN <<>> ELSE J[i - 1] \o blocks[i].bytes
    OBVIOUS
  <1> DEFINE T == {i \in 0..n : F[i] # J[i]}
  <1>5. T = {}
    <2> SUFFICES ASSUME T # {} PROVE FALSE
      OBVIOUS
    <2>1. T \subseteq Nat
      OBVIOUS
    <2> HIDE DEF T
    <2>2. PICK i \in T : \A m \in T : i <= m
      BY <2>1, LeastNatural
    <2> USE DEF T
    <2>3. i \in 0..n /\ F[i] # J[i]
      BY <2>2
    <2>4. i # 0
      BY <2>3, <1>3, <1>4
    <2>5. i - 1 \in 0..n /\ i - 1 \notin T
      BY <2>2, <2>3, <2>4
    <2>6. F[i - 1] = J[i - 1]
      BY <2>5
    <2> QED BY <1>3, <1>4, <2>3, <2>4, <2>6
  <1> QED BY <1>2, <1>5

\* The quotient of two naturals.
LEMMA DivIs ==
  ASSUME NEW x \in Nat, NEW c \in Nat, c >= 1
  PROVE  /\ x \div c \in Nat
         /\ (x \div c) * c <= x /\ x < (x \div c) * c + c
  OBVIOUS

\* As many chunks as it takes for all bytes, and none too many.
LEMMA CountCovers ==
  ASSUME NEW size \in Nat, NEW c \in Nat, c >= 1
  PROVE  /\ PayloadBlockCount(size, c) \in Nat
         /\ size <= PayloadBlockCount(size, c) * c
         /\ PayloadBlockCount(size, c) * c <= size + c - 1
  <1> DEFINE x == size + c - 1
  <1>1. x \in Nat
    OBVIOUS
  <1> HIDE DEF x
  <1>2. /\ x \div c \in Nat
        /\ (x \div c) * c <= x /\ x < (x \div c) * c + c
    BY <1>1, DivIs
  <1> QED BY <1>2 DEF x, PayloadBlockCount

\* The payload blocks of some bytes concatenate to those bytes.
LEMMA ChunksConcatenate ==
  ASSUME NEW S, NEW bytes \in Seq(S), NEW c \in Nat, c >= 1
  PROVE  Concat(ChunkPayload(bytes, c)) = bytes
  <1> DEFINE size == Len(bytes)
             n == PayloadBlockCount(size, c)
             chunks == ChunkPayload(bytes, c)
             upto(i) == IF i * c < size THEN i * c ELSE size
             J == [i \in 0..n |-> SubSeq(bytes, 1, upto(i))]
  <1>1. size \in Nat /\ n \in Nat /\ size <= n * c
    BY CountCovers
  <1>2. Len(chunks) = n
    <2>1. chunks = [i \in 1..n |-> chunks[i]]
      BY DEF ChunkPayload
    <2> HIDE DEF chunks, n
    <2> QED BY <1>1, <2>1
  <1>3. ASSUME NEW i \in 1..n
        PROVE  chunks[i].bytes = SubSeq(bytes, i * c - c + 1, upto(i))
    BY DEF ChunkPayload, PayloadBlock
  <1>4. ASSUME NEW i \in 1..n
        PROVE  SubSeq(bytes, 1, upto(i)) = SubSeq(bytes, 1, upto(i - 1)) \o SubSeq(bytes, i * c - c + 1, upto(i))
    <2> DEFINE k == i * c - c
    <2>1. k \in Nat /\ (i - 1) * c = k /\ i * c = k + c
      OBVIOUS
    <2> HIDE DEF k
    <2>2. CASE k <= size
      <3> DEFINE m == IF k + c < size THEN k + c ELSE size
      <3>1. upto(i) = m /\ upto(i - 1) = k
        BY <2>1, <2>2, <1>1
      <3>2. m \in k..size
        BY <1>1, <2>1, <2>2
      <3>3. 1 \in 1..(size + 1) /\ k \in 0..size
        BY <1>1, <2>1, <2>2
      <3> HIDE DEF m, upto, size
      <3>4. SubSeq(bytes, 1, k) \o SubSeq(bytes, k + 1, m) = SubSeq(bytes, 1, m)
        BY <3>2, <3>3, ConcatAdjacentSubSeq DEF size
      <3> QED BY <2>1, <3>1, <3>4 DEF k
    <2>3. CASE k > size
      <3>1. upto(i) = size /\ upto(i - 1) = size
        BY <1>1, <2>1, <2>3
      <3>2. k + 1 \in Int /\ size \in Int /\ size < k + 1 /\ k + 1 = i * c - c + 1
        BY <1>1, <2>1, <2>3 DEF k
      <3> HIDE DEF upto, size
      <3>3. SubSeq(bytes, i * c - c + 1, size) = <<>>
        BY <3>2, SubSeqEmpty
      <3>4. SubSeq(bytes, 1, size) = bytes /\ bytes \o <<>> = bytes
        BY SubSeqFull, ConcatEmptySeq DEF size
      <3> QED BY <3>1, <3>3, <3>4
    <2> HIDE DEF upto, size
    <2>4. k <= size \/ k > size
      BY <1>1, <2>1
    <2> QED BY <2>2, <2>3, <2>4
  <1>5. upto(0) = 0 /\ SubSeq(bytes, 1, 0) = <<>> /\ upto(n) = size
    BY <1>1, SubSeqEmpty
  <1> HIDE DEF size, n, chunks, upto
  <1>6. \A i \in 0..n : J[i] = IF i = 0 THEN <<>> ELSE J[i - 1] \o chunks[i].bytes
    <2> SUFFICES ASSUME NEW i \in 0..n
                 PROVE  J[i] = IF i = 0 THEN <<>> ELSE J[i - 1] \o chunks[i].bytes
      OBVIOUS
    <2>1. CASE i = 0
      BY <1>5, <2>1
    <2>2. CASE i # 0
      <3>1. i \in 1..n /\ i - 1 \in 0..n
        BY <1>1, <2>2
      <3>2. J[i] = SubSeq(bytes, 1, upto(i)) /\ J[i - 1] = SubSeq(bytes, 1, upto(i - 1))
        BY <3>1
      <3> QED BY <1>3, <1>4, <2>2, <3>1, <3>2
    <2> QED BY <2>1, <2>2
  <1>7. J = [i \in 0..n |-> IF i = 0 THEN <<>> ELSE J[i - 1] \o chunks[i].bytes]
    BY <1>6
  <1>8. J[n] = bytes
    BY <1>1, <1>5, SubSeqFull DEF size
  <1>9. DOMAIN J = 0..n
    OBVIOUS
  <1> HIDE DEF J
  <1> QED BY <1>1, <1>2, <1>7, <1>8, <1>9, ConcatIs DEF chunks

-----------------------------------------------------------------------------

LEMMA RequestFields ==
  ASSUME NEW r \in Requests
  PROVE  /\ r.bytes \in Payloads /\ r.storage \in Storages
         /\ r.chunkSize \in ChunkSizes /\ r # None
  <1> DEFINE D == {Descriptor(n, h) : n \in Sizes, h \in Hints}
  <1>1. r \in [storage : Storages, bytes : Payloads, chunkSize : ChunkSizes, descriptor : D]
    BY DEF Requests
  <1> HIDE DEF D
  <1> QED BY <1>1, StoreAssumption

\* What a request is laid out as: a sequence that starts with its descriptor.
LEMMA BlocksOfARequest ==
  ASSUME NEW r \in Requests, r.chunkSize >= 1
  PROVE  /\ Blocks(r) # <<>>
         /\ <<>> \o Blocks(r) = Blocks(r)
         /\ Head(Blocks(r)) = r.descriptor
         /\ Len(Blocks(r)) \in Nat /\ Len(Blocks(r)) >= 1
         /\ Tail(Blocks(r)) = ChunkPayload(r.bytes, r.chunkSize)
  <1> DEFINE n == PayloadBlockCount(Len(r.bytes), r.chunkSize)
             tail == ChunkPayload(r.bytes, r.chunkSize)
             any == {r.descriptor} \cup {tail[i] : i \in 1..n}
  <1>1. r.bytes \in Payloads /\ r.chunkSize \in Int
    BY RequestFields, StoreAssumption
  <1>2. Len(r.bytes) \in Nat
    BY <1>1, StoreAssumption
  <1>3. n \in Nat
    <2>1. Len(r.bytes) + r.chunkSize - 1 \in Nat
      BY <1>1, <1>2
    <2> HIDE DEF n
    <2>2. \A a \in Nat, b \in Nat \ {0} : a \div b \in Nat
      OBVIOUS
    <2> QED BY <1>1, <2>1, <2>2 DEF n, PayloadBlockCount
  <1>4. tail \in Seq(any)
    <2>1. tail = [i \in 1..n |-> tail[i]]
      BY DEF ChunkPayload
    <2> HIDE DEF tail, n
    <2>2. [i \in 1..n |-> tail[i]] \in [1..n -> any]
      OBVIOUS
    <2>3. tail \in [1..n -> any]
      BY <2>1, <2>2
    <2> QED BY <1>3, <2>3
  <1>5. Blocks(r) = <<r.descriptor>> \o tail
    BY DEF Blocks, Layout
  <1> HIDE DEF tail, n
  <1>6. r.descriptor \in any
    OBVIOUS
  <1> HIDE DEF any
  <1>7. Tail(Blocks(r)) = tail
    <2>1. /\ Blocks(r) \in Seq(any) /\ Blocks(r) # <<>> /\ Len(Blocks(r)) = Len(tail) + 1
          /\ \A i \in 1..Len(tail) : Blocks(r)[i + 1] = tail[i]
      BY <1>4, <1>5, <1>6
    <2>2. /\ Tail(Blocks(r)) \in Seq(any) /\ Len(Tail(Blocks(r))) = Len(tail)
          /\ \A i \in 1..Len(tail) : Tail(Blocks(r))[i] = tail[i]
      BY <2>1, HeadTailProperties, <1>4
    <2> QED BY <1>4, <2>2, SeqEqual
  <1> QED BY <1>4, <1>5, <1>6, <1>7 DEF tail

-----------------------------------------------------------------------------
LEMMA InitEstablishesSInv == Init => SInv
  <1> SUFFICES ASSUME Init PROVE SInv
    OBVIOUS
  <1> USE DEF Init
  <1>1. Types
    BY StoreAssumption DEF Types
  <1>2. Results /\ LockHeld /\ LockOverEmptyLog /\ Admitted /\ Written /\ StoredWhole
    BY StoreAssumption DEF Results, LockHeld, Locking, LockOverEmptyLog, Admitted, Written, Wrote, StoredWhole
  <1> QED BY <1>1, <1>2 DEF SInv

LEMMA PublishKeepsSInv ==
  ASSUME SInv, NEW p \in Publishers, Publish(p) PROVE SInv'
  <1> USE DEF SInv, Publish, Goto
  <1> PICK r \in Requests :
         /\ request' = [request EXCEPT ![p] = r]
         /\ pc' = [pc EXCEPT ![p] = IF ValidBytes(r.descriptor, r.bytes) THEN "opening" ELSE "rejected"]
    OBVIOUS
  <1>1. Types'
    BY StoreAssumption DEF Types, InFlight, Ended
  <1>2. Results'
    BY DEF Results
  <1>3. LockHeld'
    BY DEF Types, LockHeld, Locking
  <1>4. LockOverEmptyLog'
    BY StoreAssumption DEF Types, LockOverEmptyLog, Locking
  <1>5. Admitted' /\ Written'
    BY DEF Types, Admitted, Written, Wrote, Blocks
  <1>6. StoredWhole'
    BY DEF Types, StoredWhole, Blocks
  <1> QED BY <1>1, <1>2, <1>3, <1>4, <1>5, <1>6

LEMMA OpenCoreKeepsSInv ==
  ASSUME SInv, NEW p \in Publishers, OpenCore(p) PROVE SInv'
  <1> USE DEF SInv, OpenCore, Goto
  <1>0. request[p] \in Requests /\ request[p].storage \in Storages /\ request[p].chunkSize \in Int
    BY RequestFields, StoreAssumption DEF Types
  <1>1. Types'
    BY <1>0 DEF Types, InFlight, Ended
  <1>2. Results'
    BY DEF Results
  <1>3. LockHeld'
    BY <1>0, StoreAssumption DEF Types, LockHeld, Locking, LockOverEmptyLog
  <1>4. LockOverEmptyLog'
    BY <1>0, StoreAssumption DEF Types, LockOverEmptyLog, Locking
  <1>5. Admitted' /\ Written'
    BY <1>0 DEF Types, Admitted, Written, Wrote, Blocks
  <1>6. StoredWhole'
    BY DEF Types, StoredWhole, Blocks
  <1> QED BY <1>1, <1>2, <1>3, <1>4, <1>5, <1>6

\* A call gives up, before or after core.ready(); a lock it has it keeps.
LEMMA FailureKeepsSInv ==
  ASSUME SInv, NEW p \in Publishers, OpenFails(p) \/ AppendFails(p) \/ AssessFails(p)
  PROVE  SInv'
  <1> USE DEF SInv, OpenFails, AppendFails, AssessFails, Goto
  <1>1. Types'
    BY DEF Types, InFlight, Ended
  <1>2. Results'
    BY DEF Results
  <1>3. LockHeld'
    BY DEF Types, LockHeld, Locking
  <1>4. LockOverEmptyLog'
    BY DEF Types, LockOverEmptyLog, Locking
  <1>5. Admitted' /\ Written'
    BY DEF Types, Admitted, Written, Wrote, Blocks
  <1>6. StoredWhole'
    BY DEF Types, StoredWhole, Blocks
  <1> QED BY <1>1, <1>2, <1>3, <1>4, <1>5, <1>6

\* What an append does: the log it extends is empty, by LockHeld and
\* LockOverEmptyLog, so it becomes the blocks of the request.
LEMMA AppendWritesAll ==
  ASSUME SInv, NEW p \in Publishers, AppendBlocks(p)
  PROVE  LET s == request[p].storage IN
         /\ s \in Storages
         /\ log[s] = <<>>
         /\ log' = [log EXCEPT ![s] = Blocks(request[p])]
         /\ Blocks(request[p]) # <<>>
         /\ Head(Blocks(request[p])) = request[p].descriptor
         /\ request[p].chunkSize >= 1
  <1> USE DEF SInv, AppendBlocks
  <1>1. request[p] \in Requests /\ request[p].storage \in Storages
    BY RequestFields DEF Types
  <1>2. log[request[p].storage] = <<>>
    BY <1>1 DEF LockHeld, Locking, LockOverEmptyLog
  <1>3. request[p].chunkSize >= 1
    BY DEF Admitted
  <1>4. /\ Blocks(request[p]) # <<>>
        /\ <<>> \o Blocks(request[p]) = Blocks(request[p])
        /\ Head(Blocks(request[p])) = request[p].descriptor
    BY <1>1, <1>3, BlocksOfARequest
  <1> QED BY <1>1, <1>2, <1>3, <1>4 DEF Types

LEMMA AppendBlocksKeepsSInv ==
  ASSUME SInv, NEW p \in Publishers, AppendBlocks(p) PROVE SInv'
  <1> DEFINE s == request[p].storage
  <1>0. /\ s \in Storages /\ log[s] = <<>>
        /\ log' = [log EXCEPT ![s] = Blocks(request[p])]
        /\ Blocks(request[p]) # <<>>
        /\ Head(Blocks(request[p])) = request[p].descriptor
        /\ request[p].chunkSize >= 1
    BY AppendWritesAll
  <1>a. /\ pc[p] = "appending" /\ pc' = [pc EXCEPT ![p] = "assessing"]
        /\ UNCHANGED <<holder, request, result>>
    BY DEF AppendBlocks, Goto
  <1> USE DEF SInv
  <1>b. \A q \in Publishers : Blocks(request'[q]) = Blocks(request[q])
    BY <1>a DEF Blocks
  <1>c. holder[s] = p
    BY <1>a DEF LockHeld, Locking
  <1>1. Types'
    BY <1>0, <1>a DEF Types, InFlight
  <1>2. Results'
    BY <1>a DEF Results
  <1>3. LockHeld'
    BY <1>a DEF Types, LockHeld, Locking
  <1>4. LockOverEmptyLog'
    BY <1>0, <1>a, <1>c DEF Types, LockOverEmptyLog, Locking
  <1>5. Admitted'
    BY <1>a DEF Types, Admitted, Wrote
  <1>6. Written'
    <2>1. \A q \in Publishers : pc[q] \in Wrote => request[q].storage # s
      BY <1>0, <1>c, RequestFields, BlocksOfARequest DEF Types, Written, Wrote, Admitted, InFlight, Ended
    <2> QED BY <1>0, <1>a, <1>b, <2>1 DEF Types, Written, Wrote
  <1>7. StoredWhole'
    <2> SUFFICES ASSUME NEW t \in Storages, log'[t] # <<>>
                 PROVE  \E q \in Publishers :
                          /\ pc'[q] \in {"assessing", "closing", "published", "failed", "crashed"}
                          /\ request'[q].storage = t /\ request'[q].chunkSize >= 1
                          /\ log'[t] = Blocks(request'[q])
                          /\ ValidBytes(Head(log'[t]), request'[q].bytes)
      BY <1>b DEF StoredWhole, Blocks
    <2>1. CASE t = s
      <3>1. ValidBytes(request[p].descriptor, request[p].bytes)
        BY <1>a DEF Admitted
      <3>2. log'[t] = Blocks(request[p])
        BY <1>0, <2>1 DEF Types
      <3> QED BY <1>0, <1>a, <1>b, <2>1, <3>1, <3>2 DEF Types
    <2>2. CASE t # s
      <3>1. log'[t] = log[t]
        BY <1>0, <2>2 DEF Types
      <3>2. PICK q \in Publishers :
               /\ pc[q] \in {"assessing", "closing", "published", "failed", "crashed"}
               /\ request[q].storage = t /\ request[q].chunkSize >= 1
               /\ log[t] = Blocks(request[q])
               /\ ValidBytes(Head(log[t]), request[q].bytes)
        BY <3>1 DEF StoredWhole
      <3> QED BY <1>a, <1>b, <3>1, <3>2 DEF Types
    <2> QED BY <2>1, <2>2
  <1> QED BY <1>1, <1>2, <1>3, <1>4, <1>5, <1>6, <1>7

LEMMA LifecycleOfBooleans ==
  ASSUME NEW c \in BOOLEAN, NEW m \in BOOLEAN, NEW v \in BOOLEAN
  PROVE  Lifecycle(c, m, v) \in Lifecycles
  BY DEF Lifecycles

LEMMA AssessKeepsSInv ==
  ASSUME SInv, NEW p \in Publishers, Assess(p) PROVE SInv'
  <1> USE DEF SInv, Assess, Goto
  <1>1. Types'
    BY DEF Types, InFlight
  <1>2. Results'
    <2>1. request[p].storage \in Storages
      BY RequestFields DEF Types
    <2>2. \A c \in BOOLEAN : Lifecycle(c, FALSE, FALSE) \in Lifecycles
      BY LifecycleOfBooleans
    <2>3. HasAllBlocks(Len(log[request[p].storage]), 0..(Len(log[request[p].storage]) - 1)) \in BOOLEAN
      BY DEF HasAllBlocks
    <2> QED BY <2>1, <2>2, <2>3 DEF Results
  <1>3. LockHeld'
    BY DEF Types, LockHeld, Locking
  <1>4. LockOverEmptyLog'
    BY DEF Types, LockOverEmptyLog, Locking
  <1>5. Admitted' /\ Written'
    BY DEF Types, Admitted, Written, Wrote, Blocks
  <1>6. StoredWhole'
    BY DEF Types, StoredWhole, Blocks
  <1> QED BY <1>1, <1>2, <1>3, <1>4, <1>5, <1>6

LEMMA CloseCoreKeepsSInv ==
  ASSUME SInv, NEW p \in Publishers, CloseCore(p) PROVE SInv'
  <1> USE DEF SInv, CloseCore, Goto
  <1>0. request[p].storage \in Storages /\ holder[request[p].storage] = p
    BY RequestFields DEF Types, LockHeld, Locking
  <1>1. Types'
    BY <1>0 DEF Types, Ended
  <1>2. Results'
    BY DEF Results
  <1>3. LockHeld'
    BY <1>0 DEF Types, LockHeld, Locking
  <1>4. LockOverEmptyLog'
    BY <1>0, StoreAssumption DEF Types, LockOverEmptyLog, Locking
  <1>5. Admitted' /\ Written'
    BY DEF Types, Admitted, Written, Wrote, Blocks
  <1>6. StoredWhole'
    BY DEF Types, StoredWhole, Blocks
  <1> QED BY <1>1, <1>2, <1>3, <1>4, <1>5, <1>6

LEMMA CloseFailsKeepsSInv ==
  ASSUME SInv, NEW p \in Publishers, CloseFails(p) PROVE SInv'
  <1> USE DEF SInv, Goto
  <1>0. /\ request[p].storage \in Storages /\ holder[request[p].storage] = p
        /\ pc[p] \in {"closing", "discarding"} /\ pc' = [pc EXCEPT ![p] = "failed"]
        /\ UNCHANGED <<log, request, result>>
    BY RequestFields DEF CloseFails, Types, LockHeld, Locking
  <1>a. PICK h \in {p, None} : holder' = [holder EXCEPT ![request[p].storage] = h]
    BY DEF CloseFails
  <1>1. Types'
    BY <1>0, <1>a DEF Types, Ended
  <1>2. Results'
    BY <1>0 DEF Results
  <1>3. LockHeld'
    BY <1>0, <1>a DEF Types, LockHeld, Locking
  <1>4. LockOverEmptyLog'
    BY <1>0, <1>a, StoreAssumption DEF Types, LockOverEmptyLog, Locking
  <1>5. Admitted' /\ Written'
    BY <1>0 DEF Types, Admitted, Written, Wrote, Blocks
  <1>6. StoredWhole'
    BY <1>0 DEF Types, StoredWhole, Blocks
  <1> QED BY <1>1, <1>2, <1>3, <1>4, <1>5, <1>6

LEMMA CrashKeepsSInv == ASSUME SInv, Crash PROVE SInv'
  <1> USE DEF SInv, Crash
  <1>1. Types'
    BY DEF Types, InFlight, Ended
  <1>2. Results'
    BY DEF Results
  <1>3. LockHeld' /\ LockOverEmptyLog'
    BY StoreAssumption DEF Types, LockHeld, Locking, LockOverEmptyLog, InFlight
  <1>4. Admitted' /\ Written'
    BY DEF Types, Admitted, Written, Wrote, Blocks
  <1>5. StoredWhole'
    BY DEF Types, StoredWhole, Blocks, InFlight
  <1> QED BY <1>1, <1>2, <1>3, <1>4, <1>5

LEMMA NextKeepsSInv == SInv /\ [Next]_vars => SInv'
  <1> SUFFICES ASSUME SInv, [Next]_vars PROVE SInv'
    OBVIOUS
  <1>1. CASE Crash
    BY <1>1, CrashKeepsSInv
  <1>2. CASE \E p \in Publishers : Publish(p)
    BY <1>2, PublishKeepsSInv
  <1>3. CASE \E p \in Publishers : OpenCore(p)
    BY <1>3, OpenCoreKeepsSInv
  <1>4. CASE \E p \in Publishers : OpenFails(p) \/ AppendFails(p) \/ AssessFails(p)
    BY <1>4, FailureKeepsSInv
  <1>5. CASE \E p \in Publishers : AppendBlocks(p)
    BY <1>5, AppendBlocksKeepsSInv
  <1>6. CASE \E p \in Publishers : Assess(p)
    BY <1>6, AssessKeepsSInv
  <1>7. CASE \E p \in Publishers : CloseCore(p)
    BY <1>7, CloseCoreKeepsSInv
  <1>8. CASE \E p \in Publishers : CloseFails(p)
    BY <1>8, CloseFailsKeepsSInv
  <1>9. CASE UNCHANGED vars
    BY <1>9 DEF vars, SInv, Types, Results, LockHeld, LockOverEmptyLog, Admitted, Written, StoredWhole, Blocks
  <1> QED BY <1>1, <1>2, <1>3, <1>4, <1>5, <1>6, <1>7, <1>8, <1>9 DEF Next

LEMMA SInvHolds == Spec => []SInv
  BY InitEstablishesSInv, NextKeepsSInv, PTL DEF Spec

-----------------------------------------------------------------------------
\* Every variable of the publications keeps its type (publishImmutableObject).
THEOREM TypeCorrect == Spec => []TypeOK
  <1>1. SInv => TypeOK
    BY DEF SInv, Types, Results, TypeOK
  <1> QED BY <1>1, SInvHolds, PTL

\* A storage holds nothing or the whole of one admitted object, whoever else
\* named it, whatever failed, and wherever the process died (publish.js).
THEOREM StorageIsWhole == Spec => []StoredWhole
  <1>1. SInv => StoredWhole
    BY DEF SInv
  <1> QED BY <1>1, SInvHolds, PTL

\* No step changes a log that holds something: the emptiness check and the
\* append are one, thanks to the storage lock (publish.js lines 39 and 47).
THEOREM LogsAreImmutable == Spec => Immutable
  <1>1. SInv /\ [Next]_vars => [\A s \in Storages : log[s] # <<>> => log'[s] = log[s]]_vars
    <2> SUFFICES ASSUME SInv, Next, NEW s \in Storages, log[s] # <<>>
                 PROVE  log'[s] = log[s]
      OBVIOUS
    <2>1. CASE \E p \in Publishers : AppendBlocks(p)
      <3> PICK p \in Publishers : AppendBlocks(p)
        BY <2>1
      <3>1. /\ log[request[p].storage] = <<>>
            /\ log' = [log EXCEPT ![request[p].storage] = Blocks(request[p])]
        BY AppendWritesAll
      <3> QED BY <3>1 DEF SInv, Types
    <2>2. CASE UNCHANGED log
      BY <2>2
    <2> QED BY <2>1, <2>2 DEF Next, Crash, Publish, OpenCore, OpenFails, AppendFails, Assess,
                              AssessFails, CloseCore, CloseFails
  <1> QED BY <1>1, SInvHolds, PTL DEF Spec, Immutable

\* A storage is kept locked only by a call at work, by one that failed with the
\* log still empty or by one that failed to assess or to close its core, never
\* by one that published (publish.js lines 37-71).
THEOREM LocksAreReleased == Spec => []HeldOnlyByWorkOrFailure
  <1>1. SInv => HeldOnlyByWorkOrFailure
    BY DEF SInv, LockOverEmptyLog, Locking, HeldOnlyByWorkOrFailure, InFlight
  <1> QED BY <1>1, SInvHolds, PTL

-----------------------------------------------------------------------------
(* What publications report, and that it stays true.                       *)

\* What an assessment reports is what was asked for.
Reported ==
    \A p \in Publishers :
        pc[p] \in {"closing", "published"} =>
            /\ result[p].storage = request[p].storage
            /\ result[p].descriptorHash = request[p].descriptor
            /\ result[p].totalBlockCount = Len(Blocks(request[p]))
            /\ result[p].lifecycle.state = "complete"

LEMMA CompleteState ==
  ASSUME NEW c, c PROVE Lifecycle(c, FALSE, FALSE).state = "complete"
  <1>1. Lifecycle(c, FALSE, FALSE).state =
          ReadinessStates[IF c /\ FALSE /\ FALSE THEN 4 ELSE IF FALSE THEN 3 ELSE IF c THEN 2 ELSE 1]
    BY DEF Lifecycle
  <1>2. ReadinessStates[2] = "complete"
    BY DEF ReadinessStates
  <1> QED BY <1>1, <1>2

LEMMA NextKeepsReported == SInv /\ Reported /\ [Next]_vars => Reported'
  <1> SUFFICES ASSUME SInv, Reported, [Next]_vars PROVE Reported'
    OBVIOUS
  <1>0. Types /\ DOMAIN result = Publishers
    BY DEF SInv, Results
  <1> USE <1>0 DEF Types, Goto, Blocks, Reported
  <1>1. CASE Crash
    BY <1>1 DEF Crash
  <1>2. ASSUME NEW p \in Publishers, Publish(p) \/ OpenCore(p) \/ OpenFails(p)
                                     \/ AppendBlocks(p) \/ AppendFails(p) \/ AssessFails(p)
        PROVE  Reported'
    <2>1. CASE Publish(p)
      BY <2>1 DEF Publish
    <2>2. CASE OpenCore(p) \/ OpenFails(p)
      BY <2>2 DEF OpenCore, OpenFails
    <2>3. CASE AppendBlocks(p) \/ AppendFails(p) \/ AssessFails(p)
      BY <2>3 DEF AppendBlocks, AppendFails, AssessFails
    <2> QED BY <1>2, <2>1, <2>2, <2>3
  <1>3. ASSUME NEW p \in Publishers, Assess(p) PROVE Reported'
    <2> DEFINE r == request[p]
               n == Len(log[r.storage])
    <2>1. r \in Requests /\ r.chunkSize >= 1 /\ log[r.storage] = Blocks(r)
      BY <1>3 DEF SInv, Assess, Written, Admitted, Wrote
    <2>2. n \in Nat /\ n >= 1
      BY <2>1, BlocksOfARequest
    <2>3. HasAllBlocks(n, 0..(n - 1))
      <3> HIDE DEF n
      <3> QED BY <2>2 DEF HasAllBlocks
    <2>4. Lifecycle(HasAllBlocks(n, 0..(n - 1)), FALSE, FALSE).state = "complete"
      <3> HIDE DEF n
      <3> QED BY <2>3, CompleteState
    <2>5. /\ request' = request /\ pc' = [pc EXCEPT ![p] = "closing"]
          /\ result' = [result EXCEPT ![p] =
                [storage |-> r.storage, descriptorHash |-> r.descriptor, totalBlockCount |-> n,
                 lifecycle |-> Lifecycle(HasAllBlocks(n, 0..(n - 1)), FALSE, FALSE)]]
      BY <1>3 DEF Assess
    <2>6. n = Len(Blocks(r))
      BY <2>1
    <2> HIDE DEF n, Blocks
    <2> QED BY <2>4, <2>5, <2>6 DEF r
  <1>4. ASSUME NEW p \in Publishers, CloseCore(p) \/ CloseFails(p) PROVE Reported'
    BY <1>4 DEF CloseCore, CloseFails
  <1>5. CASE UNCHANGED vars
    BY <1>5 DEF vars
  <1> QED BY <1>1, <1>2, <1>3, <1>4, <1>5 DEF Next

LEMMA ReportedHolds == Spec => []Reported
  <1>1. Init => Reported
    BY DEF Init, Reported
  <1> QED BY <1>1, NextKeepsReported, SInvHolds, PTL DEF Spec

\* The blocks of a request read back as its bytes.
LEMMA RequestReadsBack ==
  ASSUME NEW r \in Requests, r.chunkSize >= 1
  PROVE  Concat(Tail(Blocks(r))) = r.bytes
  <1> DEFINE B == {r.bytes[i] : i \in 1..Len(r.bytes)}
             chunks == ChunkPayload(r.bytes, r.chunkSize)
  <1>0. r.bytes \in Payloads /\ r.chunkSize \in Int
    BY RequestFields, StoreAssumption
  <1>1. r.bytes \in Seq(B) /\ r.chunkSize \in Nat
    BY <1>0, StoreAssumption
  <1>2. Concat(chunks) = r.bytes
    <2> HIDE DEF B
    <2> QED BY <1>1, ChunksConcatenate
  <1>3. Tail(Blocks(r)) = chunks
    BY BlocksOfARequest
  <1> QED BY <1>2, <1>3

\* A reference once returned keeps resolving, in whatever other calls and
\* crashes followed: the log it names starts with the block of its hash, is as
\* long as reported and reads back as the bytes published
\* (publishImmutableObject, chunkPayload).
THEOREM ReferencesKeepResolving == Spec => []ReferencesResolve
  <1>1. ASSUME SInv, Reported PROVE ReferencesResolve
    <2> SUFFICES ASSUME NEW p \in Publishers, pc[p] = "published"
                 PROVE  LET l == log[result[p].storage] IN
                        /\ Head(l) = result[p].descriptorHash
                        /\ Len(l) = result[p].totalBlockCount
                        /\ Concat(Tail(l)) = request[p].bytes
                        /\ result[p].lifecycle.state = "complete"
      BY DEF ReferencesResolve
    <2>1. /\ request[p] \in Requests /\ request[p].chunkSize >= 1
          /\ log[request[p].storage] = Blocks(request[p])
      BY <1>1 DEF SInv, Types, Admitted, Written, Wrote
    <2>2. /\ result[p].storage = request[p].storage
          /\ result[p].descriptorHash = request[p].descriptor
          /\ result[p].totalBlockCount = Len(Blocks(request[p]))
          /\ result[p].lifecycle.state = "complete"
      BY <1>1 DEF Reported
    <2> QED BY <2>1, <2>2, BlocksOfARequest, RequestReadsBack
  <1> QED BY <1>1, SInvHolds, ReportedHolds, PTL

\* What a storage holds starts with a descriptor that is valid for the bytes
\* read back from it.
StoredIsValid ==
    \A s \in Storages :
        log[s] # <<>> => /\ Head(log[s]).kind = "descriptor"
                         /\ ValidBytes(Head(log[s]), Concat(Tail(log[s])))

\* No storage ever holds blocks that a reader would have to refuse: what the
\* publisher validated as bytes is valid when read back from the blocks
\* (validateMaterializedBytes on both sides).
THEOREM StoredObjectsAreValid == Spec => []StoredIsValid
  <1>1. ASSUME SInv PROVE StoredIsValid
    <2> SUFFICES ASSUME NEW s \in Storages, log[s] # <<>>
                 PROVE  /\ Head(log[s]).kind = "descriptor"
                        /\ ValidBytes(Head(log[s]), Concat(Tail(log[s])))
      BY DEF StoredIsValid
    <2>1. PICK p \in Publishers :
             /\ pc[p] \in {"assessing", "closing", "published", "failed", "crashed"}
             /\ request[p].storage = s /\ request[p].chunkSize >= 1
             /\ log[s] = Blocks(request[p])
             /\ ValidBytes(Head(log[s]), request[p].bytes)
      BY <1>1 DEF SInv, StoredWhole
    <2>2. request[p] \in Requests
      BY <1>1, <2>1 DEF SInv, Types
    <2>3. Head(log[s]) = request[p].descriptor /\ Concat(Tail(log[s])) = request[p].bytes
      BY <2>1, <2>2, BlocksOfARequest, RequestReadsBack
    <2>4. request[p].descriptor.kind = "descriptor"
      BY <2>2 DEF Requests, Descriptor
    <2> QED BY <2>1, <2>3, <2>4
  <1> QED BY <1>1, SInvHolds, PTL

\* Publication implements WriteOnce: an append is the one write of a valid
\* object to its storage, and no other step of a publisher, no failure and no
\* crash can be seen by a reader (publishImmutableObject).
THEOREM PublicationIsAtomic == Spec => ImplementsWriteOnce
  <1>1. Init => Promise!Init
    BY DEF Init, Promise!Init, object
  <1>2. SInv /\ [Next]_vars => [Promise!Next]_object
    <2> SUFFICES ASSUME SInv, [Next]_vars PROVE Promise!Next \/ UNCHANGED object
      OBVIOUS
    <2>1. CASE UNCHANGED log
      BY <2>1 DEF object
    <2>2. CASE \E p \in Publishers : AppendBlocks(p)
      <3> PICK p \in Publishers : AppendBlocks(p)
        BY <2>2
      <3> DEFINE r == request[p]
                 o == [descriptor |-> r.descriptor, bytes |-> r.bytes]
      <3>1. /\ r \in Requests /\ r.chunkSize >= 1 /\ r.storage \in Storages
            /\ ValidBytes(r.descriptor, r.bytes)
        BY RequestFields DEF AppendBlocks, SInv, Types, Admitted
      <3>2. /\ log[r.storage] = <<>>
            /\ log' = [log EXCEPT ![r.storage] = Blocks(r)]
        BY AppendWritesAll
      <3>3. o \in Objects
        BY <3>1 DEF Objects
      <3>4. /\ Blocks(r) # <<>> /\ Head(Blocks(r)) = r.descriptor
            /\ Concat(Tail(Blocks(r))) = r.bytes
        BY <3>1, BlocksOfARequest, RequestReadsBack
      <3> HIDE DEF r
      <3>5. object[r.storage] = None
        BY <3>1, <3>2 DEF object
      <3>6. object' = [object EXCEPT ![r.storage] = o]
        <4>1. DOMAIN log = Storages
          BY DEF SInv, Types
        <4>2. ASSUME NEW s \in Storages
              PROVE  object'[s] = [object EXCEPT ![r.storage] = o][s]
          <5>1. CASE s = r.storage
            BY <3>1, <3>2, <3>4, <4>1, <5>1 DEF object
          <5>2. CASE s # r.storage
            BY <3>2, <4>1, <5>2 DEF object
          <5> QED BY <5>1, <5>2
        <4> QED BY <4>2 DEF object
      <3> QED BY <3>1, <3>3, <3>5, <3>6 DEF Promise!Next, Promise!Put
    <2> QED BY <2>1, <2>2 DEF Next, vars, Crash, Publish, OpenCore, OpenFails, AppendFails,
                              Assess, AssessFails, CloseCore, CloseFails
  <1> QED BY <1>1, <1>2, SInvHolds, PTL DEF Spec, ImplementsWriteOnce, Promise!Spec
=============================================================================
