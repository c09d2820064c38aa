----------------------------- MODULE ObjectStore ----------------------------
(***************************************************************************)
(* Publication of immutable objects (src/object/publish.js) into storage   *)
(* targets that several publishers may name at once, in a process that may *)
(* die at any point and be started again.                                  *)
(*                                                                         *)
(* External: Hypercore.  Opening a core takes the lock of its storage or   *)
(* fails; append makes a batch durable as a whole or not at all; the log   *)
(* and its key pair survive the process, the lock does not.                *)
(***************************************************************************)
EXTENDS ObjectLayout

CONSTANTS Publishers,  \* the calls to publishImmutableObject
          Storages,    \* the storage paths they may be given
          Payloads,    \* the byte sequences they may be given
          Sizes,       \* the sizes a descriptor may declare
          Hints,       \* the integrity hints a descriptor may carry
          ChunkSizes,  \* the values of options.chunkSize, bad ones included
          None

VARIABLES log,      \* the blocks of the core in each storage
          holder,   \* which call has the core of a storage open
          pc,       \* where each call stands
          request,  \* the options of each call
          result    \* what each call returned

vars == <<log, holder, pc, request, result>>

Requests == [storage : Storages, bytes : Payloads, chunkSize : ChunkSizes,
             descriptor : {Descriptor(n, h) : n \in Sizes, h \in Hints}]

ASSUME StoreAssumption == /\ \A bytes \in Payloads : bytes \in Seq({bytes[i] : i \in 1..Len(bytes)})
                          /\ ChunkSizes \subseteq Int
                          /\ None \notin Publishers /\ None \notin Requests

InFlight == {"opening", "appending", "assessing", "closing", "discarding"}
Ended == {"published", "rejected", "failed", "crashed"}

Init == /\ log = [s \in Storages |-> <<>>]
        /\ holder = [s \in Storages |-> None]
        /\ pc = [p \in Publishers |-> "idle"]
        /\ request = [p \in Publishers |-> None]
        /\ result = [p \in Publishers |-> None]

Goto(p, label) == pc' = [pc EXCEPT ![p] = label]
Blocks(r) == Layout(r.descriptor, r.bytes, r.chunkSize)

\* Mutant: the bytes are not validated, and an invalid request is dropped.
PublishForgetsRequest(p) ==
    /\ pc[p] = "idle"
    /\ Goto(p, "opening")
    /\ UNCHANGED <<log, holder, request, result>>

\* Bytes that do not fit their descriptor are rejected before any storage is
\* touched; otherwise the core is opened.
Publish(p) ==
    /\ pc[p] = "idle"
    /\ \E r \in Requests :
          /\ request' = [request EXCEPT ![p] = r]
          /\ Goto(p, IF ValidBytes(r.descriptor, r.bytes) THEN "opening" ELSE "rejected")
    /\ UNCHANGED <<log, holder, result>>

\* Mutant: the storage is not required to be empty.
OpenAnyLog(p) ==
    LET r == request[p] IN
    /\ pc[p] = "opening"
    /\ holder[r.storage] = None
    /\ holder' = [holder EXCEPT ![r.storage] = p]
    /\ Goto(p, IF r.chunkSize < 1 THEN "rejected" ELSE "appending")
    /\ UNCHANGED <<log, request, result>>

\* Mutant: a core found not to be empty is left open.
OpenAndForget(p) ==
    LET r == request[p] IN
    /\ pc[p] = "opening"
    /\ holder[r.storage] = None
    /\ holder' = [holder EXCEPT ![r.storage] = p]
    /\ Goto(p, IF log[r.storage] # <<>> \/ r.chunkSize < 1 THEN "rejected" ELSE "appending")
    /\ UNCHANGED <<log, request, result>>

\* core.ready() took the lock.  A log that holds something is closed again; a
\* bad chunkSize is noticed only now and leaves the core open.
OpenCore(p) ==
    LET r == request[p] IN
    /\ pc[p] = "opening"
    /\ holder[r.storage] = None
    /\ holder' = [holder EXCEPT ![r.storage] = p]
    /\ Goto(p, IF log[r.storage] # <<>> THEN "discarding"
               ELSE IF r.chunkSize < 1 THEN "rejected" ELSE "appending")
    /\ UNCHANGED <<log, request, result>>

\* core.ready() rejects: another call has the storage open.
OpenFails(p) == /\ pc[p] = "opening"
                /\ holder[request[p].storage] # None
                /\ Goto(p, "rejected")
                /\ UNCHANGED <<log, holder, request, result>>

\* Mutant: the descriptor and the payload are appended one after the other.
AppendInTwoSteps(p) ==
    LET r == request[p] IN
    /\ pc[p] = "appending"
    /\ IF log[r.storage] = <<>>
       THEN log' = [log EXCEPT ![r.storage] = <<r.descriptor>>] /\ pc' = pc
       ELSE /\ log' = [log EXCEPT ![r.storage] = @ \o ChunkPayload(r.bytes, r.chunkSize)]
            /\ Goto(p, "assessing")
    /\ UNCHANGED <<holder, request, result>>

AppendBlocks(p) ==
    LET r == request[p] IN
    /\ pc[p] = "appending"
    /\ log' = [log EXCEPT ![r.storage] = @ \o Blocks(r)]
    /\ Goto(p, "assessing")
    /\ UNCHANGED <<holder, request, result>>

\* The append rejects; nothing closes the core.
AppendFails(p) == /\ pc[p] = "appending"
                  /\ Goto(p, "rejected")
                  /\ UNCHANGED <<log, holder, request, result>>

\* The reference and the lifecycle are computed from the descriptor given and
\* from the core's current blocks, all of which a writer has.
Assess(p) ==
    LET r == request[p]
        length == Len(log[r.storage]) IN
    /\ pc[p] = "assessing"
    /\ result' = [result EXCEPT ![p] =
          [storage |-> r.storage, descriptorHash |-> r.descriptor,
           totalBlockCount |-> length,
           lifecycle |-> Lifecycle(HasAllBlocks(length, 0..(length - 1)), FALSE, FALSE)]]
    /\ Goto(p, "closing")
    /\ UNCHANGED <<log, holder, request>>

\* The assessment rejects: the object is written, the core stays open.
AssessFails(p) == /\ pc[p] = "assessing"
                  /\ Goto(p, "failed")
                  /\ UNCHANGED <<log, holder, request, result>>

CloseCore(p) ==
    /\ pc[p] \in {"closing", "discarding"}
    /\ holder' = [holder EXCEPT ![request[p].storage] = None]
    /\ Goto(p, IF pc[p] = "closing" THEN "published" ELSE "rejected")
    /\ UNCHANGED <<log, request, result>>

\* core.close() rejects, and with it the call; the lock may be free or not.
CloseFails(p) ==
    /\ pc[p] \in {"closing", "discarding"}
    /\ \E h \in {p, None} : holder' = [holder EXCEPT ![request[p].storage] = h]
    /\ Goto(p, "failed")
    /\ UNCHANGED <<log, request, result>>

\* The process dies: the calls in it are gone and its locks are released.
Crash == /\ \E p \in Publishers : pc[p] \in InFlight
         /\ pc' = [p \in Publishers |-> IF pc[p] \in InFlight THEN "crashed" ELSE pc[p]]
         /\ holder' = [s \in Storages |-> None]
         /\ UNCHANGED <<log, request, result>>

Next == \/ Crash
        \/ \E p \in Publishers : \/ Publish(p) \/ OpenCore(p) \/ OpenFails(p)
                                 \/ AppendBlocks(p) \/ AppendFails(p)
                                 \/ Assess(p) \/ AssessFails(p)
                                 \/ CloseCore(p) \/ CloseFails(p)

Spec == Init /\ [][Next]_vars
-----------------------------------------------------------------------------
TypeOK ==
    /\ DOMAIN log = Storages
    /\ holder \in [Storages -> Publishers \cup {None}]
    /\ pc \in [Publishers -> {"idle"} \cup InFlight \cup Ended]
    /\ request \in [Publishers -> Requests \cup {None}]
    /\ \A p \in Publishers :
          /\ (request[p] = None) = (pc[p] = "idle")
          /\ result[p] # None => result[p].storage \in Storages
                                 /\ result[p].lifecycle \in Lifecycles

\* A storage is empty or holds one whole object, laid out from the bytes of
\* the one call that wrote it, whatever failed, raced or crashed.
StoredWhole ==
    \A s \in Storages :
        log[s] # <<>> => \E p \in Publishers :
                            /\ pc[p] \in {"assessing", "closing", "published", "failed", "crashed"}
                            /\ request[p].storage = s /\ request[p].chunkSize >= 1
                            /\ log[s] = Blocks(request[p])
                            /\ ValidBytes(Head(log[s]), request[p].bytes)

\* Once a storage holds blocks no step changes them.
Immutable == [][\A s \in Storages : log[s] # <<>> => log'[s] = log[s]]_vars

\* The object in each storage, as a reader puts it together from the blocks.
object == [s \in Storages |->
              IF log[s] = <<>> THEN None
              ELSE [descriptor |-> Head(log[s]), bytes |-> Concat(Tail(log[s]))]]
Objects == {[descriptor |-> r.descriptor, bytes |-> r.bytes] :
               r \in {q \in Requests : ValidBytes(q.descriptor, q.bytes)}}

\* Publishers racing, failing and dying over several awaits look to a reader
\* like one atomic write of a valid object: the promise of WriteOnce.
Promise == INSTANCE WriteOnce
ImplementsWriteOnce == Promise!Spec

\* A reference once returned keeps resolving: the block its hash names is
\* there, and the log is as long as was reported and reads back as published.
ReferencesResolve ==
    \A p \in Publishers :
        pc[p] = "published" =>
            LET l == log[result[p].storage] IN
            /\ Head(l) = result[p].descriptorHash
            /\ Len(l) = result[p].totalBlockCount
            /\ Concat(Tail(l)) = request[p].bytes
            /\ result[p].lifecycle.state = "complete"

\* Only a call still at work, one that failed between opening the core and its
\* append, or one that failed to assess or to close its core keeps a storage
\* locked; never one that published or that turned an occupied storage down.
HeldOnlyByWorkOrFailure ==
    \A s \in Storages : \A p \in Publishers :
        holder[s] = p =>
            \/ pc[p] \in InFlight
            \/ pc[p] = "rejected" /\ log[s] = <<>>
            \/ pc[p] = "failed"

=============================================================================
