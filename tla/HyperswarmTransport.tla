------------------------- MODULE HyperswarmTransport -------------------------
(***************************************************************************)
(* The HyperswarmTransport class (src/transport/hyperswarm/index.js): one  *)
(* transport object, whose methods are called concurrently and interleave  *)
(* at every await.                                                         *)
(*                                                                         *)
(* External: Hyperswarm.  join gives a discovery session for a topic with  *)
(* the roles asked for, refresh changes the roles of a session, flushed    *)
(* and destroy take their time.  A peer is connected by one connection     *)
(* whatever topics it is found under later: a topic found on a peer that   *)
(* is already connected joins the peer's topics without a new event.  On a *)
(* connection we opened peerInfo.client is true and it lists the topics    *)
(* found so far; on one a peer opened it is false and lists none.          *)
(***************************************************************************)
EXTENDS FiniteSets

CONSTANTS Calls,       \* the calls to attachCore and detachCore
          Cores,       \* the core objects they are given
          Roles,       \* the role options of attachCore
          Peers,       \* the remote peers
          None

VARIABLES ownsSwarm,  \* the swarm was created by the transport
          entry,      \* _attachments: the entry of each core, or None
          session,    \* the discovery session each call's swarm.join made
          call,       \* the calls in progress
          listening,  \* the connection handler is registered
          closing,    \* where close() stands; found: what was joined when called
          conn,       \* the connection to each peer: [client, topics] or None
          replicated  \* the <<core, peer>> whose connection carries the core

tvars == <<ownsSwarm, entry, session, call, listening, closing, conn, replicated>>

Role == [server : BOOLEAN, client : BOOLEAN]
Entry == [session : Calls, role : Role]

ASSUME TransportAssumption == /\ Roles \subseteq Role
                              /\ None \notin Calls /\ None \notin Entry

Idle == [at |-> "idle", core |-> None, role |-> None, announce |-> FALSE, session |-> None]
Unused == [state |-> "unused", core |-> None, role |-> None]
Attached(c) == entry[c] # None
Joined(d) == session[d].state = "joined"

TInit == /\ ownsSwarm \in BOOLEAN
         /\ entry = [c \in Cores |-> None]
         /\ session = [d \in Calls |-> Unused]
         /\ call = [k \in Calls |-> Idle]
         /\ listening = TRUE
         /\ closing = [at |-> "open", todo |-> {}, session |-> None, found |-> {}]
         /\ conn = [p \in Peers |-> None]
         /\ replicated = {}

\* A call ends; what it was called with no longer matters.
Return(k, label) == call' = [call EXCEPT ![k] = [Idle EXCEPT !.at = label]]

\* Mutant: the roles are not defaulted, an absent option stays undefined.
AttachCoreRawRoles(k, c, role, announce) ==
    /\ call[k].at = "idle"
    /\ call' = [call EXCEPT ![k] = [Idle EXCEPT !.at = "readying", !.core = c, !.announce = announce]]
    /\ UNCHANGED <<ownsSwarm, entry, session, listening, closing, conn, replicated>>

\* attachCore(core, options) up to its first await, core.ready(); announce: it
\* is a server and waitForAnnouncement is not off.
AttachCore(k, c, role, announce) ==
    /\ call[k].at = "idle"
    /\ call' = [call EXCEPT ![k] = [Idle EXCEPT !.at = "readying", !.core = c,
                                                !.role = role, !.announce = announce]]
    /\ UNCHANGED <<ownsSwarm, entry, session, listening, closing, conn, replicated>>

\* The attach has its session: it returns, after the announcement if asked to.
AfterJoin(k) == IF call[k].announce THEN call' = [call EXCEPT ![k].at = "flushing"]
                                    ELSE Return(k, "done")

\* swarm.join, and the entry for it.
Join(k) == LET c == call[k].core
               role == call[k].role IN
           /\ session' = [session EXCEPT ![k] = [state |-> "joined", core |-> c, role |-> role]]
           /\ entry' = [entry EXCEPT ![c] = [session |-> k, role |-> role]]
           /\ AfterJoin(k)

\* Mutant: the map was consulted before core.ready() was awaited.
AttachReadyStaleLookup(k) ==
    /\ call[k].at = "readying"
    /\ Join(k)
    /\ UNCHANGED <<ownsSwarm, listening, closing, conn, replicated>>

\* The core is ready: refresh the session of an attached core, or join and
\* record the attachment, with nothing awaited in between.
AttachReady(k) ==
    LET c == call[k].core IN
    /\ call[k].at = "readying"
    /\ IF Attached(c)
       THEN LET d == entry[c].session IN
            /\ session' = [session EXCEPT ![d].role = call[k].role]
            /\ call' = [call EXCEPT ![k].at = "refreshing", ![k].session = d]
            /\ UNCHANGED entry
       ELSE Join(k)
    /\ UNCHANGED <<ownsSwarm, listening, closing, conn, replicated>>

\* core.ready() rejects, and with it the call: nothing was joined.
ReadyFails(k) == /\ call[k].at = "readying"
                 /\ Return(k, "failed")
                 /\ UNCHANGED <<ownsSwarm, entry, session, listening, closing, conn, replicated>>

\* refresh resolves: the entry looked up before the await gets the roles, in
\* the map or not; or it rejects, because the session was destroyed meanwhile
\* or for a reason of its own.
Refreshed(k) ==
    LET c == call[k].core IN
    /\ call[k].at = "refreshing"
    /\ \/ /\ AfterJoin(k)
          /\ entry' = IF Attached(c) /\ entry[c].session = call[k].session
                      THEN [entry EXCEPT ![c].role = call[k].role] ELSE entry
       \/ Return(k, "failed") /\ UNCHANGED entry
    /\ UNCHANGED <<ownsSwarm, session, listening, closing, conn, replicated>>

\* discovery.flushed() resolves.
Flushed(k) == /\ call[k].at = "flushing"
              /\ Return(k, "done")
              /\ UNCHANGED <<ownsSwarm, entry, session, listening, closing, conn, replicated>>

\* Mutant: detachCore forgets to delete the entry.
DetachCoreKeepsEntry(k, c) ==
    /\ call[k].at = "idle" /\ Attached(c)
    /\ call' = [call EXCEPT ![k] = [Idle EXCEPT !.at = "destroying", !.session = entry[c].session]]
    /\ UNCHANGED <<ownsSwarm, entry, session, listening, closing, conn, replicated>>

\* detachCore, from a handle or directly: the entry goes at once, whoever
\* attached it, and its session is then destroyed.
DetachCore(k, c) ==
    /\ call[k].at = "idle"
    /\ entry' = [entry EXCEPT ![c] = None]
    /\ call' = [call EXCEPT ![k] = [Idle EXCEPT
                    !.at = IF Attached(c) THEN "destroying" ELSE "done",
                    !.session = IF Attached(c) THEN entry[c].session ELSE None]]
    /\ UNCHANGED <<ownsSwarm, session, listening, closing, conn, replicated>>

Destroy(d) == session' = [session EXCEPT ![d].state = "destroyed"]

Destroyed(k) == /\ call[k].at = "destroying"
                /\ Destroy(call[k].session)
                /\ Return(k, "done")
                /\ UNCHANGED <<ownsSwarm, entry, listening, closing, conn, replicated>>

\* Mutant: close() leaves the connection handler on until it has detached.
CloseStillListening ==
    /\ closing.at = "open"
    /\ closing' = [at |-> "detaching", todo |-> {c \in Cores : Attached(c)},
                   session |-> None, found |-> {d \in Calls : Joined(d)}]
    /\ UNCHANGED <<ownsSwarm, entry, session, call, listening, conn, replicated>>

\* close(): no more connections are handled, and the cores attached now are
\* detached one after the other.
Close == /\ closing.at = "open"
         /\ listening' = FALSE
         /\ closing' = [at |-> "detaching", todo |-> {c \in Cores : Attached(c)},
                        session |-> None, found |-> {d \in Calls : Joined(d)}]
         /\ UNCHANGED <<ownsSwarm, entry, session, call, conn, replicated>>

CloseDetaches(c) ==
    /\ closing.at = "detaching" /\ c \in closing.todo /\ closing.session = None
    /\ entry' = [entry EXCEPT ![c] = None]
    /\ closing' = [closing EXCEPT !.todo = @ \ {c},
                                  !.session = IF Attached(c) THEN entry[c].session ELSE None]
    /\ UNCHANGED <<ownsSwarm, session, call, listening, conn, replicated>>

\* Mutant: close() does not wait for the sessions to be destroyed.
CloseForgetsSession ==
    /\ closing.at = "detaching" /\ closing.session # None
    /\ closing' = [closing EXCEPT !.session = None]
    /\ UNCHANGED <<ownsSwarm, entry, session, call, listening, conn, replicated>>

CloseDestroyed ==
    /\ closing.at = "detaching" /\ closing.session # None
    /\ Destroy(closing.session)
    /\ closing' = [closing EXCEPT !.session = None]
    /\ UNCHANGED <<ownsSwarm, entry, call, listening, conn, replicated>>

\* All are detached; a swarm of our own is destroyed with what it still has.
CloseEnds ==
    /\ closing.at = "detaching" /\ closing.todo = {} /\ closing.session = None
    /\ closing' = [closing EXCEPT !.at = "closed"]
    /\ IF ownsSwarm
       THEN /\ session' = [d \in Calls |-> IF Joined(d) THEN [session[d] EXCEPT !.state = "destroyed"]
                                                           ELSE session[d]]
            /\ conn' = [p \in Peers |-> None] /\ replicated' = {}
       ELSE UNCHANGED <<session, conn, replicated>>
    /\ UNCHANGED <<ownsSwarm, entry, call, listening>>

\* _shouldReplicate; the swarm always sets peerInfo.client.
ShouldReplicate(e, c, info) == IF info.client THEN e.role.client /\ c \in info.topics
                                              ELSE e.role.server

\* A peer is connected; the handler, while registered, replicates over the
\* connection those attached cores that _shouldReplicate picks.
Connection(p) ==
    /\ conn[p] = None
    /\ \E info \in [client : BOOLEAN, topics : SUBSET Cores] :
          /\ IF info.client
             THEN info.topics # {} /\ \A c \in info.topics :
                    \E d \in Calls : Joined(d) /\ session[d].core = c /\ session[d].role.client
             ELSE info.topics = {} /\ \E d \in Calls : Joined(d) /\ session[d].role.server
          /\ conn' = [conn EXCEPT ![p] = info]
          /\ replicated' = IF listening
                THEN replicated \cup
                     {<<c, p>> : c \in {x \in Cores : Attached(x) /\ ShouldReplicate(entry[x], x, info)}}
                ELSE replicated
    /\ UNCHANGED <<ownsSwarm, entry, session, call, listening, closing>>

\* A connected peer is found under one more topic; no handler sees it.
TopicFound(p, c) ==
    /\ conn[p] # None /\ conn[p].client /\ c \notin conn[p].topics
    /\ \E d \in Calls : Joined(d) /\ session[d].core = c /\ session[d].role.client
    /\ conn' = [conn EXCEPT ![p].topics = @ \cup {c}]
    /\ UNCHANGED <<ownsSwarm, entry, session, call, listening, closing, replicated>>

Disconnect(p) == /\ conn[p] # None
                 /\ conn' = [conn EXCEPT ![p] = None]
                 /\ replicated' = {r \in replicated : r[2] # p}
                 /\ UNCHANGED <<ownsSwarm, entry, session, call, listening, closing>>

CallStep(k) == AttachReady(k) \/ ReadyFails(k) \/ Refreshed(k) \/ Flushed(k) \/ Destroyed(k)
CloseStep == (\E c \in Cores : CloseDetaches(c)) \/ CloseDestroyed \/ CloseEnds
NetworkStep == \E p \in Peers : \/ Connection(p) \/ Disconnect(p)
                                \/ \E c \in Cores : TopicFound(p, c)
UserStep == \/ Close
            \/ \E k \in Calls, c \in Cores :
                 \/ DetachCore(k, c)
                 \/ \E role \in Roles : \E announce \in {FALSE, role.server} : AttachCore(k, c, role, announce)

TNext == UserStep \/ CloseStep \/ NetworkStep \/ \E k \in Calls : CallStep(k)

TSpec == TInit /\ [][TNext]_tvars

\* Sessions flush, refresh and are destroyed in the end; users and the
\* network owe nothing.
TFairSpec == TSpec /\ WF_tvars(CloseStep) /\ \A k \in Calls : WF_tvars(CallStep(k))
-----------------------------------------------------------------------------
SessionRecord == [state : {"joined", "destroyed"}, core : Cores, role : Role]
CallRecord == [at : {"idle", "readying", "refreshing", "flushing", "destroying", "done", "failed"},
               core : Cores \cup {None}, role : Role \cup {None},
               announce : BOOLEAN, session : Calls \cup {None}]
ClosingRecord == [at : {"open", "detaching", "closed"}, todo : SUBSET Cores,
                  session : Calls \cup {None}, found : SUBSET Calls]
Connections == [client : BOOLEAN, topics : SUBSET Cores]

TTypeOK ==
    /\ entry \in [Cores -> {None} \cup Entry]
    /\ session \in [Calls -> {Unused} \cup SessionRecord]
    /\ call \in [Calls -> CallRecord]
    /\ closing \in ClosingRecord
    /\ conn \in [Peers -> {None} \cup Connections]
    /\ replicated \subseteq Cores \X Peers
    /\ listening \in BOOLEAN /\ ownsSwarm \in BOOLEAN

\* Someone is destroying this session.
BeingDestroyed(d) == \/ closing.session = d
                     \/ \E k \in Calls : call[k].at = "destroying" /\ call[k].session = d

\* No topic stays announced or looked up without a way to stop it: a joined
\* session is that of exactly one attached core, or is being destroyed.
NoOrphanSession ==
    \A d \in Calls : Joined(d) =>
        \/ Attached(session[d].core) /\ entry[session[d].core].session = d
        \/ BeingDestroyed(d)

\* An attachment is live: its session is joined, for that core.
AttachmentsAreJoined ==
    \A c \in Cores : Attached(c) /\ ~(ownsSwarm /\ closing.at = "closed") =>
        Joined(entry[c].session) /\ session[entry[c].session].core = c

\* From the moment close() is called no further replication starts, although
\* detaching takes many steps; what is replicated goes on, as the listener is
\* all that close() takes away.
NoReplicationOnceClosing ==
    [][closing.at # "open" => replicated' \subseteq replicated]_tvars

\* Once close() is called it returns and the sessions there were are gone,
\* whatever attaches and detaches run against it.
CloseEndsSessions ==
    closing.at # "open" ~> closing.at = "closed" /\ \A d \in closing.found : ~Joined(d)
=============================================================================
