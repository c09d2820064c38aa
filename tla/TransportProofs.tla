--------------------------- MODULE TransportProofs ---------------------------
(***************************************************************************)
(* Theorems about HyperswarmTransport, for any calls, cores, roles and     *)
(* peers.  NoOrphanSession and AttachmentsAreJoined lean on each other and *)
(* on two more facts: the session of a call that has not joined yet is     *)
(* unused, and a session that is being destroyed has no entry any more, so *)
(* that destroying it detaches nobody.                                     *)
(***************************************************************************)
EXTENDS HyperswarmTransport, TLAPS

\* A call in progress knows its core, its roles and its session.
CallsKnow ==
    \A k \in Calls :
        /\ call[k].at \in {"readying", "refreshing"} =>
              call[k].core \in Cores /\ call[k].role \in Role
        /\ call[k].at \in {"refreshing", "destroying"} => call[k].session \in Calls

\* The session a call may still join is unused.
NotYetJoined == \A k \in Calls : call[k].at \in {"idle", "readying"} => session[k] = Unused

\* An entry's session was joined for the core of the entry.
EntriesWereJoined ==
    \A c \in Cores : Attached(c) => session[entry[c].session].state # "unused"
                                    /\ session[entry[c].session].core = c

\* A session being destroyed is no entry's any more.
DestroyedWasDetached ==
    \A d \in Calls : BeingDestroyed(d) =>
        /\ session[d].state # "unused"
        /\ \A c \in Cores : Attached(c) => entry[c].session # d

\* The connection handler is on until close() is called, and only close()
\* destroys sessions on its own account.
ListensWhileOpen == /\ listening = (closing.at = "open")
                    /\ closing.at = "open" => closing.session = None

TInv == /\ TTypeOK /\ CallsKnow /\ NotYetJoined /\ EntriesWereJoined
        /\ DestroyedWasDetached /\ ListensWhileOpen
        /\ NoOrphanSession /\ AttachmentsAreJoined

LEMMA InitTypes == TInit => TTypeOK
  <1> SUFFICES ASSUME TInit PROVE TTypeOK
    OBVIOUS
  <1> USE TransportAssumption DEF TInit
  <1>1. /\ entry \in [Cores -> {None} \cup Entry]
        /\ session \in [Calls -> {Unused} \cup SessionRecord]
        /\ conn \in [Peers -> {None} \cup Connections]
        /\ replicated \subseteq Cores \X Peers
    OBVIOUS
  <1>2. call \in [Calls -> CallRecord]
    BY DEF CallRecord, Idle
  <1>3. ownsSwarm \in BOOLEAN /\ listening \in BOOLEAN
    BY Zenon
  <1>4. closing \in ClosingRecord
    BY DEF ClosingRecord
  <1> QED BY <1>1, <1>2, <1>3, <1>4 DEF TTypeOK

LEMMA NextKeepsTypes == TInv /\ [TNext]_tvars => TTypeOK'
  <1> SUFFICES ASSUME TInv, [TNext]_tvars PROVE TTypeOK'
    OBVIOUS
  <1> USE TransportAssumption DEF TInv, TTypeOK
  <1>1. ASSUME NEW k \in Calls, NEW c \in Cores, NEW role \in Roles,
               NEW announce \in {FALSE, role.server}, AttachCore(k, c, role, announce)
        PROVE  TTypeOK'
    <2>1. announce \in BOOLEAN
      BY DEF Role
    <2>2. call' \in [Calls -> CallRecord]
      BY <1>1, <2>1 DEF AttachCore, CallRecord, Idle
    <2> QED BY <1>1, <2>2 DEF AttachCore
  <1>2. ASSUME NEW k \in Calls, NEW label \in {"done", "failed"}, Return(k, label)
        PROVE  call' \in [Calls -> CallRecord]
    <2>1. [Idle EXCEPT !.at = label] \in CallRecord
      BY DEF Idle, CallRecord
    <2> QED BY <1>2, <2>1 DEF Return
  <1>3. ASSUME NEW k \in Calls, AfterJoin(k) PROVE call' \in [Calls -> CallRecord]
    BY <1>2, <1>3 DEF AfterJoin, CallRecord
  <1>4. ASSUME NEW k \in Calls, AttachReady(k) PROVE TTypeOK'
    <2>1. call[k].core \in Cores /\ call[k].role \in Role
      BY <1>4 DEF AttachReady, CallsKnow
    <2>2. CASE Attached(call[k].core)
      <3> DEFINE d == entry[call[k].core].session
      <3>1. d \in Calls
        BY <2>1, <2>2 DEF Attached, Entry
      <3>2. session[d] \in SessionRecord
        BY <2>1, <2>2, <3>1 DEF EntriesWereJoined, Unused
      <3>3. session' \in [Calls -> {Unused} \cup SessionRecord]
        BY <1>4, <2>1, <2>2, <3>1, <3>2 DEF AttachReady, SessionRecord
      <3>4. call' \in [Calls -> CallRecord]
        BY <1>4, <2>2, <3>1 DEF AttachReady, CallRecord
      <3> QED BY <1>4, <2>2, <3>3, <3>4 DEF AttachReady
    <2>3. CASE ~Attached(call[k].core)
      <3>1. Join(k) /\ UNCHANGED <<ownsSwarm, listening, closing, conn, replicated>>
        BY <1>4, <2>3 DEF AttachReady
      <3>2. session' \in [Calls -> {Unused} \cup SessionRecord]
        BY <2>1, <3>1 DEF Join, SessionRecord
      <3>3. entry' \in [Cores -> {None} \cup Entry]
        BY <2>1, <3>1 DEF Join, Entry
      <3>4. call' \in [Calls -> CallRecord]
        BY <1>3, <3>1 DEF Join
      <3> QED BY <3>1, <3>2, <3>3, <3>4
    <2> QED BY <2>2, <2>3
  <1>5. ASSUME NEW k \in Calls, Refreshed(k) PROVE TTypeOK'
    <2>1. call[k].core \in Cores /\ call[k].role \in Role
      BY <1>5 DEF Refreshed, CallsKnow
    <2>2. entry' \in [Cores -> {None} \cup Entry]
      BY <1>5, <2>1 DEF Refreshed, Attached, Entry
    <2>3. call' \in [Calls -> CallRecord]
      BY <1>2, <1>3, <1>5 DEF Refreshed
    <2> QED BY <1>5, <2>2, <2>3 DEF Refreshed
  <1>6. ASSUME NEW k \in Calls, Flushed(k) \/ ReadyFails(k) PROVE TTypeOK'
    BY <1>2, <1>6 DEF Flushed, ReadyFails
  <1>7. ASSUME NEW k \in Calls, NEW c \in Cores, DetachCore(k, c) PROVE TTypeOK'
    <2>1. call' \in [Calls -> CallRecord]
      BY <1>7 DEF DetachCore, Attached, Entry, CallRecord, Idle
    <2> QED BY <1>7, <2>1 DEF DetachCore
  <1>8. ASSUME NEW d \in Calls, BeingDestroyed(d), Destroy(d)
        PROVE  session' \in [Calls -> {Unused} \cup SessionRecord]
    <2>1. session[d] \in SessionRecord
      BY <1>8 DEF DestroyedWasDetached, Unused
    <2> QED BY <1>8, <2>1 DEF Destroy, SessionRecord
  <1>9. ASSUME NEW k \in Calls, Destroyed(k) PROVE TTypeOK'
    <2>1. call[k].session \in Calls /\ BeingDestroyed(call[k].session)
      BY <1>9 DEF Destroyed, CallsKnow, BeingDestroyed
    <2> QED BY <1>2, <1>8, <1>9, <2>1 DEF Destroyed
  <1>10. CASE Close
    <2>1. closing' \in ClosingRecord
      BY <1>10 DEF Close, ClosingRecord
    <2> QED BY <1>10, <2>1 DEF Close
  <1>11. ASSUME NEW c \in Cores, CloseDetaches(c) PROVE TTypeOK'
    <2>1. closing' \in ClosingRecord
      BY <1>11 DEF CloseDetaches, ClosingRecord, Attached, Entry
    <2> QED BY <1>11, <2>1 DEF CloseDetaches
  <1>12. CASE CloseDestroyed
    <2>1. closing.session \in Calls /\ BeingDestroyed(closing.session)
      BY <1>12 DEF CloseDestroyed, BeingDestroyed, ClosingRecord
    <2>2. closing' \in ClosingRecord
      BY <1>12 DEF CloseDestroyed, ClosingRecord
    <2> QED BY <1>8, <1>12, <2>1, <2>2 DEF CloseDestroyed
  <1>13. CASE CloseEnds
    <2>1. closing' \in ClosingRecord
      BY <1>13 DEF CloseEnds, ClosingRecord
    <2>2. session' \in [Calls -> {Unused} \cup SessionRecord]
      BY <1>13 DEF CloseEnds, Joined, SessionRecord, Unused
    <2> QED BY <1>13, <2>1, <2>2 DEF CloseEnds
  <1>14. ASSUME NEW p \in Peers, Connection(p) PROVE TTypeOK'
    <2>1. PICK info \in Connections : conn' = [conn EXCEPT ![p] = info]
      BY <1>14 DEF Connection, Connections
    <2>2. replicated' \subseteq Cores \X Peers
      BY <1>14 DEF Connection
    <2> QED BY <1>14, <2>1, <2>2 DEF Connection
  <1>15. ASSUME NEW p \in Peers, NEW c \in Cores, TopicFound(p, c) PROVE TTypeOK'
    <2>1. conn' \in [Peers -> {None} \cup Connections]
      BY <1>15 DEF TopicFound, Connections
    <2> QED BY <1>15, <2>1 DEF TopicFound
  <1>16. ASSUME NEW p \in Peers, Disconnect(p) PROVE TTypeOK'
    BY <1>16 DEF Disconnect
  <1>17. CASE UNCHANGED tvars
    BY <1>17 DEF tvars
  <1> HIDE DEF TInv, TTypeOK
  <1> QED BY <1>1, <1>4, <1>5, <1>6, <1>7, <1>9, <1>10, <1>11, <1>12, <1>13, <1>14, <1>15,
             <1>16, <1>17 DEF TNext, UserStep, CloseStep, NetworkStep, CallStep

LEMMA InitKnows == TInit => TInv
  <1> SUFFICES ASSUME TInit PROVE TInv
    OBVIOUS
  <1>1. TTypeOK
    BY InitTypes
  <1>2. CallsKnow /\ NotYetJoined /\ DestroyedWasDetached
    BY TransportAssumption DEF TInit, CallsKnow, NotYetJoined, DestroyedWasDetached, BeingDestroyed, Idle
  <1>3. EntriesWereJoined /\ AttachmentsAreJoined
    BY DEF TInit, EntriesWereJoined, AttachmentsAreJoined, Attached
  <1>4. NoOrphanSession /\ ListensWhileOpen
    BY DEF TInit, NoOrphanSession, Joined, Unused, ListensWhileOpen
  <1> QED BY <1>1, <1>2, <1>3, <1>4 DEF TInv

LEMMA NextKeepsListening == TInv /\ [TNext]_tvars => ListensWhileOpen'
  <1> SUFFICES ASSUME TInv, [TNext]_tvars PROVE ListensWhileOpen'
    OBVIOUS
  <1>1. CASE Close
    BY <1>1 DEF Close, ListensWhileOpen
  <1>2. CASE CloseStep
    BY <1>2 DEF CloseStep, CloseDetaches, CloseDestroyed, CloseEnds, ListensWhileOpen, TInv, TTypeOK, ClosingRecord
  <1>3. CASE UNCHANGED <<listening, closing>>
    BY <1>3 DEF TInv, ListensWhileOpen
  <1>4. (TNext /\ ~Close /\ ~CloseStep) \/ UNCHANGED tvars => UNCHANGED <<listening, closing>>
    BY DEF TNext, UserStep, NetworkStep, CallStep, AttachCore, AttachReady, Join, ReadyFails, Refreshed, Flushed,
           DetachCore, Destroyed, Connection, TopicFound, Disconnect, tvars
  <1> QED BY <1>1, <1>2, <1>3, <1>4

LEMMA NextKeepsCalls == TInv /\ [TNext]_tvars => CallsKnow' /\ NotYetJoined'
  <1> SUFFICES ASSUME TInv, [TNext]_tvars PROVE CallsKnow' /\ NotYetJoined'
    OBVIOUS
  <1> USE DEF TInv, TTypeOK
  \* A call that returns knows nothing any more and joins nothing.
  <1>1. ASSUME NEW k \in Calls, NEW label \in {"done", "failed"}, Return(k, label)
        PROVE  /\ CallsKnow'
               /\ \A j \in Calls : call'[j].at \in {"idle", "readying"} =>
                                  call[j].at \in {"idle", "readying"} /\ j # k
    BY <1>1 DEF Return, CallsKnow, CallRecord, Idle
  <1>2. ASSUME NEW k \in Calls, AfterJoin(k), call[k].at # "destroying"
        PROVE  /\ CallsKnow'
               /\ \A j \in Calls : call'[j].at \in {"idle", "readying"} =>
                                  call[j].at \in {"idle", "readying"} /\ j # k
    <2>1. CASE Return(k, "done")
      BY <1>1, <2>1
    <2>2. CASE call' = [call EXCEPT ![k].at = "flushing"]
      BY <1>2, <2>2 DEF CallsKnow, CallRecord
    <2> QED BY <1>2, <2>1, <2>2 DEF AfterJoin
  <1>3. ASSUME NEW k \in Calls, NEW c \in Cores, NEW role \in Roles,
               NEW announce \in {FALSE, role.server}, AttachCore(k, c, role, announce)
        PROVE  CallsKnow' /\ NotYetJoined'
    BY <1>3, TransportAssumption DEF AttachCore, CallsKnow, NotYetJoined, Idle, CallRecord
  <1>4. ASSUME NEW k \in Calls, AttachReady(k) PROVE CallsKnow' /\ NotYetJoined'
    <2>1. call[k].core \in Cores /\ call[k].role \in Role
      BY <1>4 DEF AttachReady, CallsKnow
    <2>2. CASE Attached(call[k].core)
      <3>1. PICK d \in Calls : /\ d = entry[call[k].core].session
                               /\ session[d].state # "unused"
        BY <2>1, <2>2 DEF Attached, Entry, EntriesWereJoined
      <3>2. /\ call' = [call EXCEPT ![k].at = "refreshing", ![k].session = d]
            /\ session' = [session EXCEPT ![d].role = call[k].role]
        BY <1>4, <2>2, <3>1 DEF AttachReady
      <3>3. CallsKnow'
        BY <2>1, <3>2 DEF CallsKnow, CallRecord
      <3>4. NotYetJoined'
        BY <3>1, <3>2 DEF NotYetJoined, Unused, CallRecord
      <3> QED BY <3>3, <3>4
    <2>3. CASE ~Attached(call[k].core)
      <3>1. Join(k)
        BY <1>4, <2>3 DEF AttachReady
      <3>2. AfterJoin(k) /\ call[k].at = "readying"
        BY <1>4, <3>1 DEF AttachReady, Join
      <3> QED BY <1>2, <3>1, <3>2 DEF Join, NotYetJoined
    <2> QED BY <2>2, <2>3
  <1>5. ASSUME NEW k \in Calls, Refreshed(k) PROVE CallsKnow' /\ NotYetJoined'
    BY <1>1, <1>2, <1>5 DEF Refreshed, NotYetJoined
  <1>6. ASSUME NEW k \in Calls, Flushed(k) \/ ReadyFails(k)
        PROVE  CallsKnow' /\ NotYetJoined'
    BY <1>1, <1>6 DEF Flushed, ReadyFails, NotYetJoined
  <1>7. ASSUME NEW k \in Calls, NEW c \in Cores, DetachCore(k, c) PROVE CallsKnow' /\ NotYetJoined'
    BY <1>7 DEF DetachCore, Attached, Entry, CallsKnow, NotYetJoined, CallRecord, Idle
  <1>8. ASSUME NEW d \in Calls, BeingDestroyed(d), Destroy(d)
        PROVE  \A j \in Calls : session[j] = Unused => session'[j] = Unused
    BY <1>8 DEF Destroy, DestroyedWasDetached, Unused
  <1>9. ASSUME NEW k \in Calls, Destroyed(k) PROVE CallsKnow' /\ NotYetJoined'
    <2>1. call[k].session \in Calls /\ BeingDestroyed(call[k].session)
      BY <1>9 DEF Destroyed, CallsKnow, BeingDestroyed
    <2> QED BY <1>1, <1>8, <1>9, <2>1 DEF Destroyed, NotYetJoined
  <1>10. CASE CloseDestroyed
    <2>1. closing.session \in Calls /\ BeingDestroyed(closing.session)
      BY <1>10 DEF CloseDestroyed, BeingDestroyed, ClosingRecord
    <2> QED BY <1>8, <1>10, <2>1 DEF CloseDestroyed, CallsKnow, NotYetJoined
  <1>11. CASE CloseEnds
    BY <1>11 DEF CloseEnds, Joined, Unused, CallsKnow, NotYetJoined
  <1>12. CASE UNCHANGED <<session, call>>
    BY <1>12 DEF CallsKnow, NotYetJoined
  <1>13. Close \/ (\E c \in Cores : CloseDetaches(c)) \/ NetworkStep \/ UNCHANGED tvars
            => UNCHANGED <<session, call>>
    BY DEF Close, CloseDetaches, NetworkStep, Connection, TopicFound, Disconnect, tvars
  <1> HIDE DEF TInv, TTypeOK
  <1> QED BY <1>3, <1>4, <1>5, <1>6, <1>7, <1>9, <1>10, <1>11, <1>12, <1>13
          DEF TNext, UserStep, CloseStep, CallStep

\* What is left of the invariant: how entries and sessions belong together.
SessionsBelong == /\ EntriesWereJoined /\ DestroyedWasDetached
                  /\ NoOrphanSession /\ AttachmentsAreJoined

\* A step that touches no session and nobody's destroying of one, and leaves
\* each entry its session.
LEMMA SessionsUntouched ==
    ASSUME SessionsBelong, session' = session, ownsSwarm' = ownsSwarm,
           \A c \in Cores : /\ Attached(c)' <=> Attached(c)
                            /\ Attached(c) => entry'[c].session = entry[c].session,
           \A d \in Calls : BeingDestroyed(d)' <=> BeingDestroyed(d),
           closing.at = "closed" => closing'.at = "closed",
           TTypeOK
    PROVE  SessionsBelong'
  <1>1. \A d \in Calls : Joined(d) => session[d].core \in Cores
    BY DEF TTypeOK, Joined, SessionRecord, Unused
  <1>2. EntriesWereJoined'
    BY DEF SessionsBelong, EntriesWereJoined
  <1>3. DestroyedWasDetached'
    BY DEF SessionsBelong, DestroyedWasDetached
  <1>4. NoOrphanSession'
    BY <1>1 DEF SessionsBelong, NoOrphanSession, Joined
  <1>5. AttachmentsAreJoined'
    <2>1. ~(ownsSwarm /\ closing.at = "closed")' => ~(ownsSwarm /\ closing.at = "closed")
      BY Zenon
    <2> QED BY <2>1 DEF SessionsBelong, AttachmentsAreJoined, Joined
  <1> QED BY <1>2, <1>3, <1>4, <1>5 DEF SessionsBelong

\* A session that was being destroyed is destroyed, and its destroyer is done.
LEMMA SessionDestroyed ==
    ASSUME TTypeOK, SessionsBelong, NEW d \in Calls, BeingDestroyed(d), Destroy(d),
           entry' = entry, ownsSwarm' = ownsSwarm, closing'.at = closing.at,
           \A e \in Calls : /\ BeingDestroyed(e)' => BeingDestroyed(e)
                            /\ BeingDestroyed(e) /\ e # d => BeingDestroyed(e)'
    PROVE  SessionsBelong'
  <1>1. session[d] \in SessionRecord
    BY DEF SessionsBelong, DestroyedWasDetached, TTypeOK, Unused
  <1>2. session' = [session EXCEPT ![d].state = "destroyed"]
    BY DEF Destroy
  <1>3. \A e \in Calls : Joined(e)' <=> Joined(e) /\ e # d
    BY <1>1, <1>2 DEF TTypeOK, Joined, SessionRecord
  <1>4. \A e \in Calls : /\ session'[e].core = session[e].core
                         /\ session'[e].state = "unused" <=> session[e].state = "unused"
    BY <1>1, <1>2 DEF TTypeOK, SessionRecord, Unused
  <1>5. \A c \in Cores : Attached(c) => entry[c].session \in Calls \ {d}
    BY DEF SessionsBelong, DestroyedWasDetached, TTypeOK, Entry, Attached
  <1>6. EntriesWereJoined'
    BY <1>4, <1>5 DEF SessionsBelong, EntriesWereJoined, Attached
  <1>7. DestroyedWasDetached'
    BY <1>4 DEF SessionsBelong, DestroyedWasDetached, Attached
  <1>8. NoOrphanSession'
    BY <1>3, <1>4 DEF SessionsBelong, NoOrphanSession, Attached
  <1>9. AttachmentsAreJoined'
    BY <1>3, <1>4, <1>5 DEF SessionsBelong, AttachmentsAreJoined, Attached
  <1> QED BY <1>6, <1>7, <1>8, <1>9 DEF SessionsBelong

\* The entry of a core goes and its session, if any, is being destroyed.
LEMMA SessionDetached ==
    ASSUME TTypeOK, SessionsBelong, NEW c \in Cores, session' = session, ownsSwarm' = ownsSwarm,
           entry' = [entry EXCEPT ![c] = None], closing'.at = closing.at,
           \A e \in Calls : BeingDestroyed(e)' <=>
                 BeingDestroyed(e) \/ (Attached(c) /\ entry[c].session = e)
    PROVE  SessionsBelong'
  <1>1. \A x \in Cores : Attached(x)' <=> Attached(x) /\ x # c
    BY DEF Attached, TTypeOK
  <1>2. \A x \in Cores : x # c => entry'[x] = entry[x]
    BY DEF TTypeOK
  <1>3. EntriesWereJoined'
    BY <1>1, <1>2 DEF SessionsBelong, EntriesWereJoined
  <1>4. DestroyedWasDetached'
    BY <1>1, <1>2 DEF SessionsBelong, DestroyedWasDetached, EntriesWereJoined
  <1>5. NoOrphanSession'
    <2>1. \A d \in Calls : Joined(d) => session[d].core \in Cores
      BY DEF TTypeOK, Joined, SessionRecord, Unused
    <2> QED BY <1>1, <1>2, <2>1 DEF SessionsBelong, NoOrphanSession, Joined
  <1>6. AttachmentsAreJoined'
    BY <1>1, <1>2 DEF SessionsBelong, AttachmentsAreJoined, Joined
  <1> QED BY <1>3, <1>4, <1>5, <1>6 DEF SessionsBelong

LEMMA NextKeepsSessions == TInv /\ [TNext]_tvars => SessionsBelong'
  <1> SUFFICES ASSUME TInv, [TNext]_tvars PROVE SessionsBelong'
    OBVIOUS
  <1>0. TTypeOK /\ SessionsBelong
    BY DEF TInv, SessionsBelong
  \* A call that is not destroying and does not start to destroys nothing.
  <1>1. ASSUME NEW k \in Calls, NEW r, r.at # "destroying", call' = [call EXCEPT ![k] = r],
               call[k].at # "destroying", closing' = closing, NEW d \in Calls
        PROVE  BeingDestroyed(d)' <=> BeingDestroyed(d)
    BY <1>1 DEF BeingDestroyed, TInv, TTypeOK
  <1>2. ASSUME NEW k \in Calls, AfterJoin(k) \/ Return(k, "failed"),
               call[k].at # "destroying", closing' = closing, NEW d \in Calls
        PROVE  BeingDestroyed(d)' <=> BeingDestroyed(d)
    <2>1. CASE call' = [call EXCEPT ![k].at = "flushing"]
      BY <1>2, <2>1 DEF BeingDestroyed, TInv, TTypeOK, CallRecord
    <2>2. CASE Return(k, "done") \/ Return(k, "failed")
      <3>1. PICK label \in {"done", "failed"} : call' = [call EXCEPT ![k] = [Idle EXCEPT !.at = label]]
        BY <2>2 DEF Return
      <3>2. [Idle EXCEPT !.at = label].at # "destroying"
        BY DEF Idle
      <3> QED BY <1>1, <1>2, <3>1, <3>2
    <2> QED BY <1>2, <2>1, <2>2 DEF AfterJoin
  <1>3. ASSUME NEW k \in Calls, NEW c \in Cores, NEW role \in Roles,
               NEW announce \in {FALSE, role.server}, AttachCore(k, c, role, announce)
        PROVE  SessionsBelong'
    <2>1. \A d \in Calls : BeingDestroyed(d)' <=> BeingDestroyed(d)
      BY <1>3 DEF AttachCore, BeingDestroyed, Idle, TInv, TTypeOK, CallRecord
    <2> QED BY <1>0, <1>3, <2>1, SessionsUntouched DEF AttachCore, Attached
  <1>4. ASSUME NEW k \in Calls, AttachReady(k) PROVE SessionsBelong'
    <2>1. call[k].core \in Cores /\ call[k].role \in Role
      BY <1>4 DEF AttachReady, TInv, CallsKnow
    <2>2. CASE Attached(call[k].core)
      <3>1. PICK d \in Calls : /\ d = entry[call[k].core].session
                               /\ session[d] \in SessionRecord
        BY <1>0, <2>1, <2>2 DEF Attached, Entry, SessionsBelong, EntriesWereJoined, TTypeOK, Unused
      <3>2. /\ session' = [session EXCEPT ![d].role = call[k].role]
            /\ call' = [call EXCEPT ![k].at = "refreshing", ![k].session = d]
            /\ entry' = entry /\ closing' = closing
        BY <1>4, <2>2, <3>1 DEF AttachReady
      <3>3. ownsSwarm' = ownsSwarm
        BY <1>4 DEF AttachReady
      <3>4. \A e \in Calls : BeingDestroyed(e)' <=> BeingDestroyed(e)
        BY <1>0, <1>4, <3>2 DEF AttachReady, BeingDestroyed, TTypeOK, CallRecord
      <3>5. \A e \in Calls : session'[e].state = session[e].state /\ session'[e].core = session[e].core
        BY <1>0, <3>1, <3>2 DEF TTypeOK, SessionRecord
      <3>6. \A c \in Cores : Attached(c) => entry[c].session \in Calls
        BY <1>0 DEF TTypeOK, Attached, Entry
      <3>7. EntriesWereJoined'
        BY <1>0, <3>2, <3>5, <3>6 DEF SessionsBelong, EntriesWereJoined, Attached
      <3>8. DestroyedWasDetached'
        BY <1>0, <3>2, <3>4, <3>5 DEF SessionsBelong, DestroyedWasDetached, Attached
      <3>9. NoOrphanSession'
        BY <1>0, <3>2, <3>4, <3>5 DEF SessionsBelong, NoOrphanSession, Attached, Joined
      <3>10. AttachmentsAreJoined'
        BY <1>0, <3>2, <3>3, <3>5, <3>6 DEF SessionsBelong, AttachmentsAreJoined, Attached, Joined
      <3> QED BY <3>7, <3>8, <3>9, <3>10 DEF SessionsBelong
    <2>3. CASE ~Attached(call[k].core)
      <3> DEFINE core == call[k].core
                 joined == [session |-> k, role |-> call[k].role]
      <3>1. /\ session' = [session EXCEPT ![k] = [state |-> "joined", core |-> core, role |-> call[k].role]]
            /\ entry' = [entry EXCEPT ![core] = joined]
            /\ AfterJoin(k) /\ closing' = closing
        BY <1>4, <2>3 DEF AttachReady, Join
      <3>2. ownsSwarm' = ownsSwarm
        BY <1>4 DEF AttachReady
      <3>3. \A d \in Calls : BeingDestroyed(d)' <=> BeingDestroyed(d)
        BY <1>2, <1>4, <3>1 DEF AttachReady
      <3>4. session[k] = Unused
        BY <1>4 DEF AttachReady, TInv, NotYetJoined
      <3>5. ~BeingDestroyed(k) /\ ~Joined(k)
        BY <1>0, <3>4 DEF SessionsBelong, DestroyedWasDetached, Joined, Unused
      <3>6. \A c \in Cores : /\ Attached(c)' <=> Attached(c) \/ c = core
                             /\ c # core => entry'[c] = entry[c]
        <4>1. joined # None
          BY <2>1, TransportAssumption DEF Entry
        <4> QED BY <1>0, <2>1, <3>1, <4>1 DEF Attached, TTypeOK
      <3>7. entry'[core].session = k
        BY <1>0, <2>1, <3>1 DEF TTypeOK
      <3>8. /\ Joined(k)' /\ session'[k].core = core
            /\ \A d \in Calls : d # k => session'[d] = session[d]
        BY <1>0, <2>1, <3>1 DEF TTypeOK, Joined
      <3>9. \A c \in Cores : Attached(c) => entry[c].session \in Calls \ {k}
        BY <1>0, <3>4 DEF TTypeOK, Attached, Entry, SessionsBelong, EntriesWereJoined, Unused
      <3> HIDE DEF core, joined
      <3>10. EntriesWereJoined'
        BY <1>0, <3>6, <3>7, <3>8, <3>9 DEF SessionsBelong, EntriesWereJoined, Joined
      <3>11. DestroyedWasDetached'
        BY <1>0, <3>3, <3>5, <3>6, <3>7, <3>8 DEF SessionsBelong, DestroyedWasDetached
      <3>12. NoOrphanSession'
        <4>1. \A d \in Calls : Joined(d) => session[d].core \in Cores
          BY <1>0 DEF TTypeOK, Joined, SessionRecord, Unused
        <4>2. core \in Cores /\ ~Attached(core)
          BY <2>1, <2>3 DEF core
        <4> QED BY <1>0, <3>3, <3>6, <3>7, <3>8, <4>1, <4>2 DEF SessionsBelong, NoOrphanSession, Joined
      <3>13. AttachmentsAreJoined'
        BY <1>0, <3>1, <3>2, <3>6, <3>7, <3>8, <3>9 DEF SessionsBelong, AttachmentsAreJoined, Joined
      <3> QED BY <3>10, <3>11, <3>12, <3>13 DEF SessionsBelong
    <2> QED BY <2>2, <2>3
  <1>5. ASSUME NEW k \in Calls, Refreshed(k) PROVE SessionsBelong'
    <2>1. \A d \in Calls : BeingDestroyed(d)' <=> BeingDestroyed(d)
      BY <1>2, <1>5 DEF Refreshed
    <2>2. call[k].core \in Cores
      BY <1>5 DEF Refreshed, TInv, CallsKnow
    <2>3. \A c \in Cores : /\ Attached(c)' <=> Attached(c)
                           /\ Attached(c) => entry'[c].session = entry[c].session
      <3>1. CASE entry' = entry
        BY <3>1 DEF Attached
      <3>2. CASE /\ Attached(call[k].core)
                 /\ entry' = [entry EXCEPT ![call[k].core].role = call[k].role]
        <4>1. entry[call[k].core] \in Entry
          BY <1>0, <2>2, <3>2 DEF TTypeOK, Attached
        <4>2. entry'[call[k].core] \in Entry
          BY <1>0, <1>5, <2>2, <3>2, <4>1 DEF TTypeOK, Entry, Refreshed, TInv, CallsKnow
        <4> QED BY <1>0, <2>2, <3>2, <4>1, <4>2, TransportAssumption DEF TTypeOK, Attached, Entry
      <3> QED BY <1>5, <3>1, <3>2 DEF Refreshed
    <2> QED BY <1>0, <1>5, <2>1, <2>3, SessionsUntouched DEF Refreshed
  <1>6. ASSUME NEW k \in Calls, Flushed(k) \/ ReadyFails(k) PROVE SessionsBelong'
    <2>1. \A d \in Calls : BeingDestroyed(d)' <=> BeingDestroyed(d)
      <3>1. /\ [Idle EXCEPT !.at = "done"].at # "destroying"
            /\ [Idle EXCEPT !.at = "failed"].at # "destroying"
        BY DEF Idle
      <3> QED BY <1>1, <1>6, <3>1 DEF Flushed, ReadyFails, Return
    <2> QED BY <1>0, <1>6, <2>1, SessionsUntouched DEF Flushed, ReadyFails, Attached
  <1>7. ASSUME NEW k \in Calls, NEW c \in Cores, DetachCore(k, c) PROVE SessionsBelong'
    <2>1. Attached(c) => entry[c].session \in Calls
      BY <1>0 DEF TTypeOK, Attached, Entry
    <2>2. \A e \in Calls : BeingDestroyed(e)' <=>
                 BeingDestroyed(e) \/ (Attached(c) /\ entry[c].session = e)
      <3>1. CASE Attached(c)
        <4>1. /\ call'[k].at = "destroying" /\ call'[k].session = entry[c].session
              /\ \A j \in Calls : j # k => call'[j] = call[j]
          BY <1>0, <1>7, <3>1 DEF DetachCore, TTypeOK, CallRecord, Idle
        <4> QED BY <1>7, <3>1, <4>1 DEF DetachCore, BeingDestroyed
      <3>2. CASE ~Attached(c)
        <4>1. /\ call'[k].at = "done"
              /\ \A j \in Calls : j # k => call'[j] = call[j]
          BY <1>0, <1>7, <3>2 DEF DetachCore, TTypeOK, CallRecord, Idle
        <4> QED BY <1>7, <3>2, <4>1 DEF DetachCore, BeingDestroyed
      <3> QED BY <3>1, <3>2
    <2> QED BY <1>0, <1>7, <2>2, SessionDetached DEF DetachCore
  <1>8. ASSUME NEW k \in Calls, Destroyed(k) PROVE SessionsBelong'
    <2>1. PICK d \in Calls : d = call[k].session /\ BeingDestroyed(d) /\ Destroy(d)
      BY <1>8 DEF Destroyed, TInv, CallsKnow, BeingDestroyed
    <2>2. /\ call'[k].at = "done"
          /\ \A j \in Calls : j # k => call'[j] = call[j]
      BY <1>0, <1>8 DEF Destroyed, Return, Idle, TTypeOK
    <2>3. \A e \in Calls : /\ BeingDestroyed(e)' => BeingDestroyed(e)
                           /\ BeingDestroyed(e) /\ e # d => BeingDestroyed(e)'
      BY <1>8, <2>1, <2>2 DEF Destroyed, BeingDestroyed
    <2> QED BY <1>0, <1>8, <2>1, <2>3, SessionDestroyed DEF Destroyed
  <1>9. CASE Close
    <2>1. closing.session = None /\ closing'.session = None /\ closing'.at # "closed"
      BY <1>9 DEF Close, TInv, ListensWhileOpen
    <2>2. \A d \in Calls : BeingDestroyed(d)' <=> BeingDestroyed(d)
      BY <1>9, <2>1 DEF Close, BeingDestroyed
    <2>3. closing.at # "closed"
      BY <1>9 DEF Close
    <2> QED BY <1>0, <1>9, <2>2, <2>3, SessionsUntouched DEF Close, Attached
  <1>10. ASSUME NEW c \in Cores, CloseDetaches(c) PROVE SessionsBelong'
    <2>1. Attached(c) => entry[c].session \in Calls
      BY <1>0 DEF TTypeOK, Attached, Entry
    <2>2. \A e \in Calls : BeingDestroyed(e)' <=>
                 BeingDestroyed(e) \/ (Attached(c) /\ entry[c].session = e)
      <3>1. /\ closing.session = None /\ call' = call
            /\ closing'.session = IF Attached(c) THEN entry[c].session ELSE None
        BY <1>0, <1>10 DEF CloseDetaches, TTypeOK, ClosingRecord
      <3> QED BY <3>1, TransportAssumption DEF BeingDestroyed
    <2>3. closing'.at = closing.at
      BY <1>0, <1>10 DEF CloseDetaches, TTypeOK, ClosingRecord
    <2> QED BY <1>0, <1>10, <2>2, <2>3, SessionDetached DEF CloseDetaches
  <1>11. CASE CloseDestroyed
    <2>1. PICK d \in Calls : d = closing.session /\ BeingDestroyed(d) /\ Destroy(d)
      BY <1>0, <1>11 DEF CloseDestroyed, BeingDestroyed, TTypeOK, ClosingRecord
    <2>2. closing'.session = None /\ closing'.at = closing.at
      BY <1>0, <1>11 DEF CloseDestroyed, TTypeOK, ClosingRecord
    <2>3. \A e \in Calls : /\ BeingDestroyed(e)' => BeingDestroyed(e)
                           /\ BeingDestroyed(e) /\ e # d => BeingDestroyed(e)'
      BY <1>11, <2>1, <2>2, TransportAssumption DEF CloseDestroyed, BeingDestroyed
    <2> QED BY <1>0, <1>11, <2>1, <2>2, <2>3, SessionDestroyed DEF CloseDestroyed
  <1>12. CASE CloseEnds
    <2>1. closing'.session = closing.session /\ closing'.at = "closed" /\ entry' = entry
      BY <1>0, <1>12 DEF CloseEnds, TTypeOK, ClosingRecord
    <2>2. \A d \in Calls : BeingDestroyed(d)' <=> BeingDestroyed(d)
      BY <1>12, <2>1 DEF CloseEnds, BeingDestroyed
    <2>3. CASE ~ownsSwarm
      BY <1>0, <1>12, <2>1, <2>2, <2>3, SessionsUntouched DEF CloseEnds, Attached
    <2>4. CASE ownsSwarm
      <3>1. /\ ownsSwarm'
            /\ session' = [d \in Calls |-> IF Joined(d) THEN [session[d] EXCEPT !.state = "destroyed"]
                                                       ELSE session[d]]
        BY <1>12, <2>4 DEF CloseEnds
      <3>2. \A d \in Calls : /\ ~Joined(d)'
                             /\ session'[d].core = session[d].core
                             /\ session[d].state # "unused" => session'[d].state # "unused"
        BY <1>0, <3>1 DEF Joined, TTypeOK, SessionRecord
      <3>3. \A c \in Cores : Attached(c) => entry[c].session \in Calls
        BY <1>0 DEF TTypeOK, Attached, Entry
      <3>4. EntriesWereJoined'
        BY <1>0, <2>1, <3>2, <3>3 DEF SessionsBelong, EntriesWereJoined, Attached
      <3>5. DestroyedWasDetached'
        BY <1>0, <2>1, <2>2, <3>2 DEF SessionsBelong, DestroyedWasDetached, Attached
      <3>6. NoOrphanSession'
        BY <3>2 DEF NoOrphanSession
      <3>7. AttachmentsAreJoined'
        BY <2>1, <3>1 DEF AttachmentsAreJoined
      <3> QED BY <3>4, <3>5, <3>6, <3>7 DEF SessionsBelong
    <2> QED BY <2>3, <2>4
  <1>13. CASE NetworkStep \/ UNCHANGED tvars
    <2>1. entry' = entry /\ session' = session /\ call' = call /\ closing' = closing
      BY <1>13 DEF NetworkStep, Connection, TopicFound, Disconnect, tvars
    <2>2. ownsSwarm' = ownsSwarm
      BY <1>13 DEF NetworkStep, Connection, TopicFound, Disconnect, tvars
    <2>3. \A d \in Calls : BeingDestroyed(d)' <=> BeingDestroyed(d)
      BY <2>1 DEF BeingDestroyed
    <2> QED BY <1>0, <2>1, <2>2, <2>3, SessionsUntouched DEF Attached
  <1> QED BY <1>3, <1>4, <1>5, <1>6, <1>7, <1>8, <1>9, <1>10, <1>11, <1>12, <1>13
          DEF TNext, UserStep, CloseStep, CallStep

LEMMA TransportInvariant == TSpec => []TInv
  <1>1. TInv /\ [TNext]_tvars => TInv'
    BY NextKeepsTypes, NextKeepsListening, NextKeepsCalls, NextKeepsSessions DEF TInv, SessionsBelong
  <1> QED BY InitKnows, <1>1, PTL DEF TSpec

\* Whatever the calls, and wherever close() and the network interleave, the
\* transport's maps, sessions and connections keep their shape.
THEOREM TypeCorrect == TSpec => []TTypeOK
  <1>1. TInv => TTypeOK
    BY DEF TInv
  <1> QED BY TransportInvariant, <1>1, PTL

\* However many calls of attachCore, refreshes, detaches and close() overlap,
\* no session of the swarm is forgotten: a joined one is that of an attached
\* core, or someone is about to destroy it.
THEOREM SessionsAreAccountedFor == TSpec => []NoOrphanSession
  <1>1. TInv => NoOrphanSession
    BY DEF TInv
  <1> QED BY TransportInvariant, <1>1, PTL

\* An entry of _attachments always names a session that is joined for its own
\* core, until a swarm of the transport's own is destroyed under it.
THEOREM AttachmentsAreLive == TSpec => []AttachmentsAreJoined
  <1>1. TInv => AttachmentsAreJoined
    BY DEF TInv
  <1> QED BY TransportInvariant, <1>1, PTL

\* From the call of close() on no further replication of a core starts.
THEOREM CloseStopsReplication == TSpec => NoReplicationOnceClosing
  <1>1. TInv /\ [TNext]_tvars => [closing.at # "open" => replicated' \subseteq replicated]_tvars
    <2> SUFFICES ASSUME TInv, TNext, closing.at # "open" PROVE replicated' \subseteq replicated
      OBVIOUS
    <2>1. ~listening
      BY DEF TInv, ListensWhileOpen
    <2>2. CASE UserStep
      BY <2>2 DEF UserStep, Close, AttachCore, DetachCore
    <2>3. CASE CloseStep
      BY <2>3 DEF CloseStep, CloseDetaches, CloseDestroyed, CloseEnds
    <2>4. CASE NetworkStep
      BY <2>1, <2>4 DEF NetworkStep, Connection, TopicFound, Disconnect
    <2>5. ASSUME NEW k \in Calls, CallStep(k) PROVE replicated' \subseteq replicated
      BY <2>5 DEF CallStep, AttachReady, ReadyFails, Refreshed, Flushed, Destroyed
    <2> QED BY <2>2, <2>3, <2>4, <2>5 DEF TNext
  <1> QED BY TransportInvariant, <1>1, PTL DEF TSpec, NoReplicationOnceClosing

-----------------------------------------------------------------------------
\* What close() found joined when it was called and is still attached is
\* still on its list, and a session it joins later is none of those.
LeftToClose ==
    /\ \A d \in closing.found : session[d].state # "unused"
    /\ \A c \in Cores : Attached(c) /\ entry[c].session \in closing.found => c \in closing.todo
    /\ closing.at = "closed" => closing.todo = {} /\ closing.session = None

\* When close() has returned, a session that was joined when it was called is
\* destroyed, unless a detachCore that took it out first is at it.
CloseLeavesNothing ==
    closing.at = "closed" =>
        \A d \in closing.found :
            Joined(d) => \E k \in Calls : call[k].at = "destroying" /\ call[k].session = d

LEMMA CloseSweeps == TInv /\ LeftToClose /\ [TNext]_tvars => LeftToClose'
  <1> SUFFICES ASSUME TInv, LeftToClose, [TNext]_tvars PROVE LeftToClose'
    OBVIOUS
  <1> USE TransportAssumption
  <1>0. TTypeOK /\ EntriesWereJoined
    BY DEF TInv
  <1>1. \A c \in Cores : Attached(c) => entry[c].session \in Calls
    BY <1>0 DEF TTypeOK, Attached, Entry
  <1>2. ASSUME closing' = closing,
               \A d \in Calls : session[d].state # "unused" => session'[d].state # "unused",
               \A c \in Cores : Attached(c)' => \/ Attached(c) /\ entry'[c].session = entry[c].session
                                               \/ entry'[c].session \notin closing.found
        PROVE  LeftToClose'
    BY <1>0, <1>2 DEF LeftToClose, TTypeOK, ClosingRecord
  <1>3. ASSUME NEW d \in Calls, Destroy(d)
        PROVE  \A j \in Calls : session[j].state # "unused" => session'[j].state # "unused"
    BY <1>0, <1>3 DEF Destroy, TTypeOK, Unused, SessionRecord
  <1>4. ASSUME NEW k \in Calls, NEW c \in Cores, NEW role \in Roles,
               NEW announce \in {FALSE, role.server}, AttachCore(k, c, role, announce)
        PROVE  LeftToClose'
    BY <1>2, <1>4 DEF AttachCore, Attached
  <1>5. ASSUME NEW k \in Calls, AttachReady(k) PROVE LeftToClose'
    <2>1. call[k].core \in Cores /\ session[k] = Unused /\ closing' = closing
      BY <1>5 DEF AttachReady, TInv, CallsKnow, NotYetJoined
    <2>2. k \notin closing.found
      BY <2>1 DEF LeftToClose, Unused
    <2>3. CASE Attached(call[k].core)
      <3>1. entry' = entry /\ session' = [session EXCEPT ![entry[call[k].core].session].role = call[k].role]
        BY <1>5, <2>3 DEF AttachReady
      <3>2. \A d \in Calls : session[d].state # "unused" => session'[d].state # "unused"
        BY <1>0, <3>1 DEF TTypeOK, Unused, SessionRecord
      <3> QED BY <1>2, <2>1, <3>1, <3>2 DEF Attached
    <2>4. CASE ~Attached(call[k].core)
      <3>1. Join(k)
        BY <1>5, <2>4 DEF AttachReady
      <3>2. \A d \in Calls : session[d].state # "unused" => session'[d].state # "unused"
        BY <1>0, <3>1 DEF Join, TTypeOK
      <3>3. \A c \in Cores : IF c = call[k].core THEN entry'[c].session = k
                                                ELSE entry'[c] = entry[c]
        BY <1>0, <2>1, <3>1 DEF Join, TTypeOK
      <3> QED BY <1>2, <2>1, <2>2, <3>2, <3>3 DEF Attached
    <2> QED BY <2>3, <2>4
  <1>6. ASSUME NEW k \in Calls, Refreshed(k) PROVE LeftToClose'
    <2>1. call[k].core \in Cores /\ closing' = closing /\ session' = session
      BY <1>6 DEF Refreshed, TInv, CallsKnow
    <2>2. \A c \in Cores : Attached(c)' => Attached(c) /\ entry'[c].session = entry[c].session
      BY <1>0, <1>6, <2>1 DEF Refreshed, TTypeOK, Attached, Entry
    <2> QED BY <1>2, <2>1, <2>2
  <1>7. ASSUME NEW k \in Calls, Flushed(k) \/ ReadyFails(k) PROVE LeftToClose'
    BY <1>2, <1>7 DEF Flushed, ReadyFails, Attached
  <1>8. ASSUME NEW k \in Calls, NEW c \in Cores, DetachCore(k, c) PROVE LeftToClose'
    BY <1>0, <1>2, <1>8 DEF DetachCore, TTypeOK, Attached
  <1>9. ASSUME NEW k \in Calls, Destroyed(k) PROVE LeftToClose'
    <2>1. call[k].session \in Calls
      BY <1>9 DEF Destroyed, TInv, CallsKnow
    <2> QED BY <1>2, <1>3, <1>9, <2>1 DEF Destroyed, Attached
  <1>10. CASE Close
    <2>1. /\ closing'.found = {d \in Calls : Joined(d)}
          /\ closing'.todo = {c \in Cores : Attached(c)} /\ closing'.at = "detaching"
          /\ entry' = entry /\ session' = session
      BY <1>10 DEF Close
    <2> QED BY <2>1 DEF LeftToClose, Joined, Attached
  <1>11. ASSUME NEW c \in Cores, CloseDetaches(c) PROVE LeftToClose'
    <2>1. /\ closing'.found = closing.found /\ closing'.todo = closing.todo \ {c}
          /\ closing'.at = "detaching" /\ session' = session
          /\ entry' = [entry EXCEPT ![c] = None]
      BY <1>0, <1>11 DEF CloseDetaches, TTypeOK, ClosingRecord
    <2> QED BY <1>0, <2>1 DEF LeftToClose, TTypeOK, Attached
  <1>12. CASE CloseDestroyed
    <2>1. /\ closing.session \in Calls /\ closing'.found = closing.found
          /\ closing'.todo = closing.todo /\ closing'.at = "detaching"
          /\ entry' = entry /\ Destroy(closing.session)
      BY <1>0, <1>12 DEF CloseDestroyed, TTypeOK, ClosingRecord
    <2>2. \A d \in Calls : session[d].state # "unused" => session'[d].state # "unused"
      BY <1>3, <2>1
    <2>3. closing.found \subseteq Calls
      BY <1>0 DEF TTypeOK, ClosingRecord
    <2> QED BY <2>1, <2>2, <2>3 DEF LeftToClose, Attached
  <1>13. CASE CloseEnds
    <2>1. /\ closing.todo = {} /\ closing.session = None
          /\ closing'.found = closing.found /\ closing'.todo = closing.todo
          /\ closing'.session = closing.session /\ closing'.at = "closed" /\ entry' = entry
      BY <1>0, <1>13 DEF CloseEnds, TTypeOK, ClosingRecord
    <2>2. closing.found \subseteq Calls
      BY <1>0 DEF TTypeOK, ClosingRecord
    <2>3. \A d \in Calls : session[d].state # "unused" => session'[d].state # "unused"
      BY <1>0, <1>13 DEF CloseEnds, TTypeOK, Unused, SessionRecord
    <2> QED BY <2>1, <2>2, <2>3 DEF LeftToClose, Attached
  <1>14. CASE NetworkStep \/ UNCHANGED tvars
    <2>1. closing' = closing /\ session' = session /\ entry' = entry
      BY <1>14 DEF NetworkStep, Connection, TopicFound, Disconnect, tvars
    <2> QED BY <1>2, <2>1 DEF Attached
  <1> QED BY <1>4, <1>5, <1>6, <1>7, <1>8, <1>9, <1>10, <1>11, <1>12, <1>13, <1>14
          DEF TNext, UserStep, CloseStep, CallStep

\* The safety behind CloseEndsSessions: close() walks the attachments it found
\* while others attach and detach, and misses none, be its swarm shared or own
\* (close in src/transport/hyperswarm/index.js).
THEOREM CloseIsThorough == TSpec => []CloseLeavesNothing
  <1>1. TInit => LeftToClose
    BY TransportAssumption DEF TInit, LeftToClose
  <1>2. ASSUME TInv, LeftToClose PROVE CloseLeavesNothing
    <2> SUFFICES ASSUME closing.at = "closed", NEW d \in closing.found, Joined(d)
                 PROVE  \E k \in Calls : call[k].at = "destroying" /\ call[k].session = d
      BY DEF CloseLeavesNothing
    <2>1. d \in Calls /\ closing.todo = {} /\ closing.session = None
      BY <1>2 DEF TInv, TTypeOK, ClosingRecord, LeftToClose
    <2>2. session[d].core \in Cores
      BY <1>2, <2>1 DEF TInv, TTypeOK, Joined, Unused, SessionRecord
    <2>3. BeingDestroyed(d)
      BY <1>2, <2>1, <2>2 DEF TInv, NoOrphanSession, LeftToClose
    <2> QED BY <2>1, <2>3, TransportAssumption DEF BeingDestroyed
  <1> QED BY TransportInvariant, <1>1, <1>2, CloseSweeps, PTL DEF TSpec
=============================================================================
