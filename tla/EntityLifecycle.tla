---------------------------- MODULE EntityLifecycle ----------------------------
(***************************************************************************)
(* How entities come and go: the application starts and stops replicating  *)
(* an entity, the server gives it a client-local network id when it first  *)
(* serializes it, queues a destroy that is resent until it is acknowledged *)
(* and only then frees the id for reuse; the client maps wire ids to local *)
(* entities, keeps destroy tombstones and counts wire-id versions.         *)
(*                                                                         *)
(* One client in Snap mode.  Component data, dirty tracking and baseline   *)
(* retention are Replication's subject: here any active entity may be due  *)
(* in a flush, the records of a flush fit one packet, and the client keeps *)
(* all baselines of a live entity.  Packets and ACKs stay in net and acks: *)
(* each may arrive late, repeatedly, out of order or never.                *)
(***************************************************************************)
EXTENDS Naturals, FiniteSets

CONSTANTS Entities,         \* ashiato::Entity handles
          MaxNetworkId,     \* max_client_local_wire_network_id
          MaxPendingAcks,   \* max_pending_packet_acks_per_client
          MayRestart,       \* may Replicated be added again to the same handle?
          MaxFrame          \* bound on the server frame counter

ASSUME LifecycleAssumption ==
    /\ IsFiniteSet(Entities)
    /\ MaxNetworkId \in Nat \ {0}
    /\ MaxPendingAcks \in Nat \ {0}
    /\ MayRestart \in BOOLEAN
    /\ MaxFrame \in Nat

NetworkIds == 1 .. MaxNetworkId
NoId == 0
NoFrame == 0
Nobody == [entity |-> NoId, life |-> 0]   \* no local entity behind a wire id

VARIABLES
    frame,       \* ReplicationServer::frame_
    phase,       \* which part of ReplicationServer::tick runs
    active,      \* entities with an active ReplicatedSlot
    lives,       \* how often an entity was replicated (history variable)
    es,          \* ClientEntityState of every entity
    allocated,   \* NetworkIds::entries.size() - 1: ids ever handed out
    version,     \* NetworkIds::Entry::version
    condemned,   \* ids whose Entry::pending_destroy is set
    free,        \* the free list of ids
    destroys,    \* DestroyQueue::pending
    tracked,     \* AckTracker::pending_packet_acks
    net,         \* every update packet sent
    acks,        \* packets the client acknowledged
    cl,          \* the client's state of every wire id
    buried       \* lives whose destroy the client applied (history variable)

idVars == <<allocated, version, condemned, free>>
serverVars == <<frame, phase, active, lives, es, idVars, destroys, tracked>>
vars == <<serverVars, net, acks, cl, buried>>

NewEntityState == [id |-> NoId, baseline |-> NoFrame, pending |-> {}]

Life(e) == [entity |-> e, life |-> lives[e]]

--------------------------------------------------------------------------------
(* Records and packets.                                                    *)

DestroyRecord(d) ==
    [destroy |-> TRUE, who |-> d.who, id |-> d.id, full |-> FALSE, base |-> NoFrame]

\* A full record until a baseline of this life is acknowledged.
UpsertRecord(e, id) ==
    [destroy |-> FALSE, who |-> Life(e), id |-> id,
     full |-> es[e].baseline = NoFrame, base |-> es[e].baseline]

\* Record orders of a packet: destroys first, then updates by priority.
Orders(recs) ==
    {pos \in [recs -> 1 .. Cardinality(recs)] :
        \A r, s \in recs : /\ r # s => pos[r] # pos[s]
                           /\ r.destroy /\ ~s.destroy => pos[r] < pos[s]}

--------------------------------------------------------------------------------
(* The server.                                                             *)

\* Seeded fault: the id of a queued destroy is not marked pending_destroy.
DeactivateUnmarked(gone, now) ==
    LET known == {e \in gone : es[e].id # NoId}
    IN  /\ es' = [e \in Entities |-> IF e \in gone THEN NewEntityState ELSE es[e]]
        /\ condemned' = condemned
        /\ destroys' = destroys \cup
               {[who |-> Life(e), id |-> es[e].id, born |-> now, frame |-> now] : e \in known}

\* deactivate_replicated for the entities of gone: enqueue_destroy clears the
\* client's entity state, and queues a destroy if an id was ever allocated.
Deactivate(gone, now) ==
    LET known == {e \in gone : es[e].id # NoId}
    IN  /\ es' = [e \in Entities |-> IF e \in gone THEN NewEntityState ELSE es[e]]
        /\ condemned' = condemned \cup {es[e].id : e \in known}
        /\ destroys' = destroys \cup
               {[who |-> Life(e), id |-> es[e].id, born |-> now, frame |-> now] : e \in known}

\* One fixed step: rediscover_replicated_entities handles the removals and then
\* the additions of this frame.
Step(stopped, started) ==
    /\ phase \in {"inbound", "stepping"}
    /\ frame < MaxFrame
    /\ stopped \subseteq active
    /\ started \cap active = {}
    /\ \A e \in started : MayRestart \/ lives[e] = 0
    /\ phase' = "stepping"
    /\ frame' = frame + 1
    /\ active' = (active \ stopped) \cup started
    /\ lives' = [e \in Entities |-> IF e \in started THEN lives[e] + 1 ELSE lives[e]]
    /\ Deactivate(stopped, frame + 1)
    /\ UNCHANGED <<allocated, version, free, tracked, net, acks, cl, buried>>

\* The head of send_client: dirty entities that are no longer replicable are
\* deactivated before the destroys of this flush are listed.
BeginFlush(gone) ==
    /\ phase = "stepping"
    /\ gone \subseteq active
    /\ phase' = "sending"
    /\ active' = active \ gone
    /\ Deactivate(gone, frame)
    /\ UNCHANGED <<frame, lives, allocated, version, free, tracked, net, acks, cl, buried>>

\* NetworkIds::allocate_for: new ids come from the free list while it lasts.
AllocatesIds(ids) ==
    LET used == {ids[e] : e \in DOMAIN ids}
    IN  /\ \A e, g \in DOMAIN ids : ids[e] = ids[g] => e = g
        /\ used \subseteq free \/ free \subseteq used
        /\ used \ free = allocated + 1 .. allocated + Cardinality(used \ free)

\* Serializing an entity, or a reference to it, gives it an id.
Unnamed(serialized) == {e \in serialized : es[e].id = NoId}

WireId(e, ids) == IF e \in DOMAIN ids THEN ids[e] ELSE es[e].id

FlushRecords(resent, sent, ids) ==
    {DestroyRecord(d) : d \in resent} \cup {UpsertRecord(e, WireId(e, ids)) : e \in sent}

\* track_packet_ack and enforce_pending_packet_ack_limit
TrackPacket(packet) ==
    {p \in tracked \cup {packet} :
        Cardinality({q \in tracked \cup {packet} : q.frame > p.frame}) < MaxPendingAcks}

\* One flush.  resent are the destroys that fit, ids the network ids allocated
\* while serializing, sent the serialized entities that fit.
Flush(resent, sent, ids, pos) ==
    LET used   == {ids[e] : e \in DOMAIN ids}
        packet == [frame |-> frame, recs |-> FlushRecords(resent, sent, ids), pos |-> pos]
    IN  /\ phase = "sending"
        /\ AllocatesIds(ids)
        /\ phase' = "inbound"
        /\ free' = free \ used
        /\ allocated' = allocated + Cardinality(used \ free)
        /\ es' = [e \in Entities |->
                    [es[e] EXCEPT !.id = WireId(e, ids),
                                  !.pending = IF e \in sent THEN @ \cup {frame} ELSE @]]
        /\ destroys' = {IF d \in resent THEN [d EXCEPT !.frame = frame] ELSE d : d \in destroys}
        /\ IF packet.recs = {} THEN UNCHANGED <<net, tracked>>
           ELSE net' = net \cup {packet} /\ tracked' = TrackPacket(packet)
        /\ UNCHANGED <<frame, active, lives, version, condemned, acks, cl, buried>>

--------------------------------------------------------------------------------
(* Acknowledgement.  A destroy record names its entity and frame only.     *)

\* Destroys that an ACK of e's destroy sent at frame f may stand for.
Matches(e, f) == {d \in destroys : d.who.entity = e /\ f <= d.frame}

\* Seeded fault: the ACK of an update counts as the ACK of a destroy.
DestroyAckCountOfAnyRecord(p, e) == Cardinality({r \in p.recs : r.who.entity = e})

DestroyAckCount(p, e) == Cardinality({r \in p.recs : r.destroy /\ r.who.entity = e})

\* DestroyQueue::acknowledge for every destroy record of the packet: each one
\* erases the first match in queue order.
AcknowledgedDestroys(p) ==
    {d \in destroys :
        /\ d \in Matches(d.who.entity, p.frame)
        /\ Cardinality({x \in Matches(d.who.entity, p.frame) : x.born <= d.born})
               <= DestroyAckCount(p, d.who.entity)}

\* NetworkIds::free: only an id that waits for its destroy becomes free.
FreedIds(erased) == {d.id : d \in erased} \cap condemned

\* ServerClientReplicator::acknowledge_entity
AckState(state, f) ==
    IF f \notin state.pending THEN state
    ELSE [state EXCEPT !.baseline = f, !.pending = {g \in @ : g > f}]

\* packet_ack_record_pending
RecordPending(p, r, queue, states) ==
    IF r.destroy
    THEN \E d \in queue : d.who.entity = r.who.entity /\ p.frame <= d.frame
    ELSE r.who.entity \in active /\ p.frame \in states[r.who.entity].pending

\* process_client_acks_from_packet for one packet, cleanup_packet_acks included.
ReceiveAck(p) ==
    LET known   == p \in tracked
        erased  == IF known THEN AcknowledgedDestroys(p) ELSE {}
        freed   == FreedIds(erased)
        updated == {r.who.entity : r \in {s \in p.recs : ~s.destroy}}
        states  == [e \in Entities |->
                      IF known /\ e \in updated \cap active
                      THEN AckState(es[e], p.frame) ELSE es[e]]
    IN  /\ phase = "inbound"
        /\ destroys' = destroys \ erased
        /\ condemned' = condemned \ freed
        /\ free' = free \cup freed
        /\ version' = [n \in NetworkIds |-> IF n \in freed THEN version[n] + 1 ELSE version[n]]
        /\ es' = states
        /\ tracked' = {q \in tracked \ {p} :
                         \E r \in q.recs : RecordPending(q, r, destroys', states)}
        /\ UNCHANGED <<frame, phase, active, lives, allocated, net, acks, cl, buried>>

--------------------------------------------------------------------------------
(* The client.  owner is the life whose record created the local entity,   *)
(* shows the life whose record was applied last.                           *)

NewWireState ==
    [version |-> 0, owner |-> Nobody, shows |-> Nobody, frame |-> NoFrame,
     bases |-> {}, tombstone |-> NoFrame]

Alive(w) == w.owner # Nobody

\* ensure_wire_version and advance_wire_version
EnsuredVersion(w) == IF w.version = 0 THEN 1 ELSE w.version
AdvancedVersion(w) == w.version + 1

\* apply_destroy and apply_snap_destroy
DestroyApplies(w, f) == IF Alive(w) THEN f > w.frame ELSE f > w.tombstone

\* Only the first destroy of an unknown id (no tombstone yet) advances the version.
AppliedDestroy(w, f) ==
    [NewWireState EXCEPT
        !.version = IF Alive(w) \/ w.tombstone = NoFrame THEN AdvancedVersion(w) ELSE w.version,
        !.tombstone = IF f > w.tombstone THEN f ELSE w.tombstone]

\* Seeded fault: a full record is not compared with the tombstone.
UpsertAppliesOverTombstone(w, r, f) ==
    IF r.full THEN Alive(w) => f > w.frame
              ELSE Alive(w) /\ f > w.frame /\ r.base \in w.bases

\* read_upsert_metadata
UpsertApplies(w, r, f) ==
    IF r.full THEN f > w.tombstone /\ (Alive(w) => f > w.frame)
              ELSE Alive(w) /\ f > w.frame /\ r.base \in w.bases

AppliedUpsert(w, r, f) ==
    [version |-> EnsuredVersion(w), owner |-> IF Alive(w) THEN w.owner ELSE r.who,
     shows |-> r.who, frame |-> f, bases |-> w.bases \cup {f},
     tombstone |-> IF r.full THEN NoFrame ELSE w.tombstone]

RecordApplies(w, r, f) == IF r.destroy THEN DestroyApplies(w, f) ELSE UpsertApplies(w, r, f)

AppliedRecord(w, r, f) == IF r.destroy THEN AppliedDestroy(w, f) ELSE AppliedUpsert(w, r, f)

\* A rejected upsert has already ensured the version of its wire id.
RejectedRecord(w, r) == IF r.destroy THEN w ELSE [w EXCEPT !.version = EnsuredVersion(w)]

\* Records are read in order up to the first that is rejected.
Reached(p) == {r \in p.recs : \A s \in p.recs :
                    p.pos[s] < p.pos[r] => RecordApplies(cl[s.id], s, p.frame)}
Applied(p) == {r \in Reached(p) : RecordApplies(cl[r.id], r, p.frame)}

\* apply_update: only a packet all of whose records applied is acknowledged.
ReceiveUpdate(p) ==
    /\ cl' = [n \in NetworkIds |->
                IF \E r \in Reached(p) : r.id = n
                THEN LET r == CHOOSE s \in Reached(p) : s.id = n
                     IN  IF r \in Applied(p) THEN AppliedRecord(cl[n], r, p.frame)
                                             ELSE RejectedRecord(cl[n], r)
                ELSE cl[n]]
    /\ acks' = IF Applied(p) = p.recs THEN acks \cup {p} ELSE acks
    /\ buried' = buried \cup {cl[r.id].owner : r \in {s \in Applied(p) : s.destroy /\ Alive(cl[s.id])}}
    /\ UNCHANGED <<serverVars, net>>

--------------------------------------------------------------------------------
Init ==
    /\ frame = 0
    /\ phase = "inbound"
    /\ active = {}
    /\ lives = [e \in Entities |-> 0]
    /\ es = [e \in Entities |-> NewEntityState]
    /\ allocated = 0
    /\ version = [n \in NetworkIds |-> 1]
    /\ condemned = {}
    /\ free = {}
    /\ destroys = {}
    /\ tracked = {}
    /\ net = {}
    /\ acks = {}
    /\ cl = [n \in NetworkIds |-> NewWireState]
    /\ buried = {}

Next ==
    \/ \E stopped, started \in SUBSET Entities : Step(stopped, started)
    \/ \E gone \in SUBSET Entities : BeginFlush(gone)
    \/ \E resent \in SUBSET destroys : \E serialized \in SUBSET active :
       \E sent \in SUBSET serialized : \E ids \in [Unnamed(serialized) -> NetworkIds] :
       \E pos \in Orders(FlushRecords(resent, sent, ids)) : Flush(resent, sent, ids, pos)
    \/ \E p \in acks : ReceiveAck(p)
    \/ \E p \in net : ReceiveUpdate(p)

Spec == Init /\ [][Next]_vars

--------------------------------------------------------------------------------
Lives == [entity : Entities, life : Nat]
Destroy == [who : Lives, id : NetworkIds, born : Nat, frame : Nat]
Rec == [destroy : BOOLEAN, who : Lives, id : NetworkIds, full : BOOLEAN, base : Nat]
EntityState == [id : NetworkIds \cup {NoId}, baseline : Nat, pending : SUBSET Nat]
WireState ==
    [version : Nat, owner : Lives \cup {Nobody}, shows : Lives \cup {Nobody}, frame : Nat,
     bases : SUBSET Nat, tombstone : Nat]

\* The types of the variables.
TypeOK ==
    /\ frame \in Nat
    /\ phase \in {"inbound", "stepping", "sending"}
    /\ active \subseteq Entities
    /\ lives \in [Entities -> Nat]
    /\ es \in [Entities -> EntityState]
    /\ allocated \in 0 .. MaxNetworkId
    /\ version \in [NetworkIds -> Nat]
    /\ condemned \subseteq NetworkIds
    /\ free \subseteq NetworkIds
    /\ destroys \subseteq Destroy
    /\ \A p \in net : p.frame \in Nat /\ p.recs \subseteq Rec /\ p.pos \in [p.recs -> Nat]
    /\ tracked \subseteq net
    /\ acks \subseteq net
    /\ cl \in [NetworkIds -> WireState]
    /\ buried \subseteq Lives

Held == {es[e].id : e \in active} \ {NoId}

\* No id is lost and none is handed out twice: every id allocated so far is held
\* by one active entity, waits for exactly one queued destroy, or is free.
IdsPartitioned ==
    /\ 1 .. allocated = Held \cup condemned \cup free
    /\ Held \cap condemned = {}
    /\ Held \cap free = {}
    /\ condemned \cap free = {}
    /\ condemned = {d.id : d \in destroys}
    /\ \A d, x \in destroys : d.id = x.id => d = x
    /\ \A e, g \in active : es[e].id = es[g].id /\ es[e].id # NoId => e = g

\* A reused wire id never writes one entity's state into the local entity of
\* another: the client has applied the old life's destroy first.
NeverAliased == \A n \in NetworkIds : cl[n].shows = cl[n].owner

\* What the client shows is what the server still replicates or still destroys:
\* a local entity never outlives the server's obligation to destroy it.
NoOrphan ==
    \A n \in NetworkIds : Alive(cl[n]) =>
        \/ \E e \in active : Life(e) = cl[n].owner /\ es[e].id = n
        \/ \E d \in destroys : d.who = cl[n].owner /\ d.id = n

\* A destroyed life never comes back, however late its packets arrive.
NoResurrection == \A n \in NetworkIds : cl[n].owner \notin buried

================================================================================
