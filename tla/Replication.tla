------------------------------ MODULE Replication ------------------------------
(***************************************************************************)
(* Delta replication of a fixed set of entities from the server to one     *)
(* client over a network that loses, duplicates and reorders packets: the  *)
(* server tick (inbound ACKs, fixed steps, flush), the per-client dirty    *)
(* queue, the baselines selected by packet ACKs, and the client that       *)
(* decodes full and delta records and acknowledges whole packets.          *)
(*                                                                         *)
(* Sent packets and ACKs stay in net and acks forever: a packet may be     *)
(* delivered at any later time, again, in any order, or never.             *)
(***************************************************************************)
EXTENDS ClientBaselines, FiniteSets

CONSTANTS Entities,           \* replicated entities, all active
          MaxPacketId,        \* packet_id_mask(...): ids are 1 .. MaxPacketId
          MaxPendingAcks,     \* max_pending_packet_acks_per_client
          MaxRecords,         \* records that fit the MTU
          MaxStepsPerTick,    \* max_fixed_steps_per_tick
          MayRefuse,          \* may a flush leave candidates unsent?
          MayHide,            \* may components be removed or change audience?
          Masks,              \* component masks the application's decider returns
          MaxFrame            \* bound on the server frame counter

ASSUME ReplicationAssumption ==
    /\ MaxPacketId \in Nat \ {0}
    /\ MaxPendingAcks \in Nat \ {0}
    /\ MaxRecords \in Nat \ {0}
    /\ MaxStepsPerTick \in Nat \ {0}
    /\ MayRefuse \in BOOLEAN
    /\ MayHide \in BOOLEAN
    /\ Masks \subseteq SUBSET Components
    /\ MaxFrame \in Nat

VARIABLES
    frame,    \* ReplicationServer::frame_
    phase,    \* which part of ReplicationServer::tick runs
    steps,    \* fixed steps completed in this tick
    world,    \* what an entity's registry components show to this client
    entry,    \* ClientDirtyQueue::entries
    es,       \* ClientEntityState of every entity
    todo,     \* update candidates of the running flush, not yet sent
    tracked,  \* AckTracker::pending_packet_acks
    nextId,   \* AckTracker::next_packet_id
    serial,   \* number of packets sent so far; tells packets of one id apart
    net,      \* every update packet sent
    acks,     \* every packet ACK the client sent
    cl        \* the client's state of every entity

tickVars   == <<frame, phase, steps, world>>
serverVars == <<entry, es, todo, tracked, nextId, serial>>
vars == <<frame, phase, steps, world, entry, es, todo, tracked, nextId, serial, net, acks, cl>>

--------------------------------------------------------------------------------
(* Dirty queue.                                                            *)

MaxOf(a, b) == IF a >= b THEN a ELSE b

NewEntry == [queued |-> FALSE, listed |-> FALSE, dirty |-> NoFrame, baseline |-> NoFrame]

\* ServerClientReplicator::mark_dirty
MarkDirty(en, state, now) ==
    LET known == IF ~en.queued /\ state.baseline.frame # NoFrame
                 THEN state.baseline.frame ELSE en.baseline
        dirty == MaxOf(en.dirty, now)
    IN  [queued   |-> TRUE,
         listed   |-> TRUE,
         dirty    |-> IF dirty <= known THEN known + 1 ELSE dirty,
         baseline |-> known]

NewEntityState ==
    [baseline |-> NoBaseline, epoch |-> 0, mask |-> Components, pending |-> {}]

\* ServerClientReplicator::invalidate_entity_baseline
InvalidateBaseline(state) ==
    [state EXCEPT !.baseline = NoBaseline, !.epoch = @ + 1]

\* The candidate test at the head of send_client.
IsCandidate(e) == entry[e].queued /\ entry[e].baseline < entry[e].dirty

\* Seeded fault: a reopened component keeps the old baseline.
DecideKeepsBaseline(state, mask) == [state EXCEPT !.mask = mask]

\* refresh_replication_decision_if_due: reopened components lose the baseline.
Decide(state, mask) ==
    LET decided == [state EXCEPT !.mask = mask]
    IN  IF mask \subseteq state.mask THEN decided ELSE InvalidateBaseline(decided)

--------------------------------------------------------------------------------
(* Sending.                                                                *)

\* Drops the oldest members of a set ordered by a Nat-valued field.
KeepNewest(S, age(_), n) ==
    {x \in S : Cardinality({y \in S : age(y) > age(x)}) < n}

FrameOf(p) == p.frame
SerialOf(t) == t.serial

\* find_or_create_quantized_frame fails when nothing is visible.
Serializable(e) == Present(world[e]) # {}

SerializedRecord(e) == WriteEntityRecord(es[e].baseline, world[e], es[e].mask)

\* The tail of send_client's record loop: a full record retires the baseline
\* before the pending entry is pushed, then the pending list is trimmed.
RecordSent(state, rec, now) ==
    LET retired == IF rec.full /\ state.baseline.frame # NoFrame
                   THEN InvalidateBaseline(state) ELSE state
        sent    == [frame |-> now, epoch |-> retired.epoch, data |-> rec.cur]
    IN  [retired EXCEPT !.pending = KeepNewest(@ \cup {sent}, FrameOf, Retention)]

\* ServerPacketIdAllocator::allocate
FollowingId(id) == IF id = MaxPacketId THEN 1 ELSE id + 1

\* allocate_packet_id, track_packet_ack and enforce_pending_packet_ack_limit
TrackPacket(packet) ==
    LET others == {t \in tracked : t.id # packet.id}
        mine   == [id |-> packet.id, serial |-> packet.serial, frame |-> packet.frame,
                   ents |-> DOMAIN packet.rec]
    IN  KeepNewest(others \cup {mine}, SerialOf, MaxPendingAcks)

--------------------------------------------------------------------------------
(* Acknowledgement.                                                        *)

\* ServerClientReplicator::acknowledge_entity, on the entity state ...
IsPending(state, f) == \E p \in state.pending : p.frame = f

\* Both sides of the ACK look the first pending entry of the frame up.
PendingAt(state, f) == CHOOSE p \in state.pending : p.frame = f

\* Seeded fault: the ACK of an invalidated epoch selects a baseline.
EligibleInAnyEpoch(state, f) == IsPending(state, f)

Eligible(state, f) ==
    IsPending(state, f) /\ PendingAt(state, f).epoch = state.epoch

\* Seeded fault: frames older than the acknowledged one stay pending.
AckStateKeepsOlder(state, f) ==
    IF ~IsPending(state, f) THEN state
    ELSE [state EXCEPT
            !.baseline = IF Eligible(state, f)
                         THEN [frame |-> f, data |-> PendingAt(state, f).data] ELSE @,
            !.pending  = {p \in @ : p.frame # f}]

AckState(state, f) ==
    IF ~IsPending(state, f) THEN state
    ELSE [state EXCEPT
            !.baseline = IF Eligible(state, f)
                         THEN [frame |-> f, data |-> PendingAt(state, f).data] ELSE @,
            !.pending  = {p \in @ : p.frame > f}]

\* ... and on its dirty queue entry.
AckEntry(en, state, f) ==
    IF ~Eligible(state, f) THEN en
    ELSE [en EXCEPT !.baseline = f, !.queued = @ /\ f < en.dirty]

\* cleanup_packet_acks
StillPending(t, states) == \E e \in t.ents : IsPending(states[e], t.frame)

--------------------------------------------------------------------------------
Init ==
    /\ frame = 0
    /\ phase = "inbound"
    /\ steps = 0
    /\ world \in [Entities -> {d \in ServerData : Present(d) = Components}]
    /\ entry = [e \in Entities |-> MarkDirty(NewEntry, NewEntityState, 0)]
    /\ es = [e \in Entities |-> NewEntityState]
    /\ todo = {}
    /\ tracked = {}
    /\ nextId = 1
    /\ serial = 0
    /\ net = {}
    /\ acks = {}
    /\ cl = [e \in Entities |-> NewClientEntity]

\* One fixed step: the jobs write some entities' components and the dirty
\* frame marks exactly those.
Step(dirty, next) ==
    /\ phase \in {"inbound", "stepping"}
    /\ steps < MaxStepsPerTick
    /\ frame < MaxFrame
    /\ \A e \in Entities : MayHide \/ Present(next[e]) = Components
    /\ \A e \in Entities \ dirty : next[e] = world[e]
    /\ frame' = frame + 1
    /\ steps' = steps + 1
    /\ phase' = "stepping"
    /\ world' = next
    /\ entry' = [e \in Entities |->
                    IF e \in dirty THEN MarkDirty(entry[e], es[e], frame + 1) ELSE entry[e]]
    /\ UNCHANGED <<es, todo, tracked, nextId, serial, net, acks, cl>>

\* send_client up to its candidate list; the application's decider may give
\* every candidate a new component mask.
BeginFlush(masks) ==
    /\ phase = "stepping"
    /\ phase' = "sending"
    /\ es' = [e \in Entities |-> IF IsCandidate(e) THEN Decide(es[e], masks[e]) ELSE es[e]]
    /\ todo' = {e \in Entities : IsCandidate(e) /\ Serializable(e)}
    /\ UNCHANGED <<frame, steps, world, entry, tracked, nextId, serial, net, acks, cl>>

\* One packet of the flush: its records in the order pos, their bookkeeping,
\* the packet id, and the packet's ACK record.
SendPacket(batch, pos) ==
    LET packet == [id |-> nextId, serial |-> serial + 1, frame |-> frame, pos |-> pos,
                   rec |-> [e \in batch |-> SerializedRecord(e)]]
    IN  /\ phase = "sending"
        /\ batch \subseteq todo
        /\ batch # {}
        /\ Cardinality(batch) <= MaxRecords
        /\ todo' = todo \ batch
        /\ entry' = [e \in Entities |->
                        IF e \in batch THEN [entry[e] EXCEPT !.dirty = frame] ELSE entry[e]]
        /\ es' = [e \in Entities |->
                        IF e \in batch THEN RecordSent(es[e], SerializedRecord(e), frame)
                                       ELSE es[e]]
        /\ nextId' = FollowingId(nextId)
        /\ serial' = serial + 1
        /\ tracked' = TrackPacket(packet)
        /\ net' = net \cup {packet}
        /\ UNCHANGED <<frame, phase, steps, world, acks, cl>>

\* The end of the flush and of the tick: cleanup_dirty_queue.  Candidates that
\* were filtered or did not fit the bandwidth budget stay queued.
EndFlush ==
    /\ phase = "sending"
    /\ MayRefuse \/ todo = {}
    /\ phase' = "inbound"
    /\ steps' = 0
    /\ todo' = {}
    /\ entry' = [e \in Entities |-> [entry[e] EXCEPT !.listed = @ /\ entry[e].queued]]
    /\ UNCHANGED <<frame, world, es, tracked, nextId, serial, net, acks, cl>>

\* The network's promise this protocol relies on: an ACK that arrives at all
\* arrives before the 8-bit packet id it names has been used again.
AckInTime(ack) == \A p \in net : p.id = ack.id => p.serial <= ack.serial

\* acknowledge_packet on the tracked packet with the ACK's id, then cleanup.
AcknowledgePacket(t) ==
    LET states == [e \in Entities |-> IF e \in t.ents THEN AckState(es[e], t.frame) ELSE es[e]]
    IN  /\ es' = states
        /\ entry' = [e \in Entities |->
                        IF e \in t.ents THEN AckEntry(entry[e], es[e], t.frame) ELSE entry[e]]
        /\ tracked' = {u \in tracked \ {t} : StillPending(u, states)}

\* An id the server no longer tracks acknowledges nothing.
IgnoreAck ==
    /\ tracked' = {u \in tracked : StillPending(u, es)}
    /\ UNCHANGED <<es, entry>>

\* process_client_acks_from_packet for one packet id.
ReceiveAck(ack) ==
    /\ phase = "inbound"
    /\ AckInTime(ack)
    /\ \/ \E t \in tracked : t.id = ack.id /\ AcknowledgePacket(t)
       \/ (\A t \in tracked : t.id # ack.id) /\ IgnoreAck
    /\ UNCHANGED <<frame, phase, steps, world, todo, nextId, serial, net, acks, cl>>

\* apply_update: records apply in order up to the first that is rejected; only
\* a packet whose records all applied is acknowledged.
Applied(packet) ==
    {e \in DOMAIN packet.rec :
        \A g \in DOMAIN packet.rec :
            g = e \/ packet.pos[g] < packet.pos[e] =>
                RecordApplies(cl[g], packet.frame, packet.rec[g])}

\* Seeded fault: a packet that only partly applied is acknowledged.
ReceiveUpdateAcksAnyway(packet) ==
    /\ Applied(packet) # {}
    /\ cl' = [e \in Entities |->
                IF e \in Applied(packet)
                THEN ApplyUpsert(cl[e], packet.frame, packet.rec[e]) ELSE cl[e]]
    /\ acks' = acks \cup {[id |-> packet.id, serial |-> packet.serial]}
    /\ UNCHANGED <<tickVars, serverVars, net>>

ReceiveUpdate(packet) ==
    /\ Applied(packet) # {}
    /\ cl' = [e \in Entities |->
                IF e \in Applied(packet)
                THEN ApplyUpsert(cl[e], packet.frame, packet.rec[e]) ELSE cl[e]]
    /\ acks' = IF Applied(packet) = DOMAIN packet.rec
               THEN acks \cup {[id |-> packet.id, serial |-> packet.serial]} ELSE acks
    /\ UNCHANGED <<tickVars, serverVars, net>>

\* Record orders of a packet: the entities sorted by a priority of the application.
Orders(batch) ==
    {pos \in [batch -> 1 .. Cardinality(batch)] :
        \A e, g \in batch : e # g => pos[e] # pos[g]}

Next ==
    \/ \E dirty \in SUBSET Entities : \E next \in [Entities -> ServerData] : Step(dirty, next)
    \/ \E masks \in [Entities -> Masks] : BeginFlush(masks)
    \/ \E batch \in SUBSET Entities : \E pos \in Orders(batch) : SendPacket(batch, pos)
    \/ EndFlush
    \/ \E ack \in acks : ReceiveAck(ack)
    \/ \E packet \in net : ReceiveUpdate(packet)

Spec == Init /\ [][Next]_vars

--------------------------------------------------------------------------------
Sent == [frame : Frames, epoch : Nat, data : ServerData]
Ack == [id : 1 .. MaxPacketId, serial : Nat]
Tracked == [id : 1 .. MaxPacketId, serial : Nat, frame : Frames, ents : SUBSET Entities]
EntryType == [queued : BOOLEAN, listed : BOOLEAN, dirty : Frames, baseline : Frames]
ServerBaseline == [frame : Frames, data : ServerData]
EntityStateType ==
    [baseline : ServerBaseline, epoch : Nat, mask : SUBSET Components, pending : SUBSET Sent]

IsPacket(p) ==
    /\ p.id \in 1 .. MaxPacketId
    /\ p.serial \in 1 .. serial
    /\ p.frame \in 0 .. frame
    /\ DOMAIN p.rec \subseteq Entities
    /\ p.rec \in [DOMAIN p.rec -> Record]

\* The types of the variables.
TypeOK ==
    /\ frame \in Frames
    /\ phase \in {"inbound", "stepping", "sending"}
    /\ steps \in Nat
    /\ world \in [Entities -> ServerData]
    /\ entry \in [Entities -> EntryType]
    /\ es \in [Entities -> EntityStateType]
    /\ todo \subseteq Entities
    /\ tracked \subseteq Tracked
    /\ nextId \in 1 .. MaxPacketId
    /\ serial \in Nat
    /\ \A p \in net : IsPacket(p)
    /\ acks \subseteq Ack
    /\ cl \in [Entities -> ClientEntity]

\* Every baseline the client stores is, on the components the record carried,
\* exactly the frame the server quantized under that number: no delta is ever
\* decoded against bytes it was not serialized against.
Carries(p, e, f, data) ==
    /\ e \in DOMAIN p.rec
    /\ p.frame = f
    /\ \A c \in p.rec[e].mask : data[c] = p.rec[e].cur[c]

DecodedExactly ==
    \A e \in Entities : \A b \in StoredBaselines(cl[e]) :
        \E p \in net : Carries(p, e, b.frame, b.data)

\* When the server has dropped an entity from the dirty queue, the client shows
\* the current value of every component it is sent: acknowledge_entity clears
\* "queued" only when nothing changed after the acknowledged frame was captured.
SettledMeansConverged ==
    \A e \in Entities :
        ~entry[e].queued =>
            /\ cl[e].frame = es[e].baseline.frame
            /\ \A c \in es[e].mask : cl[e].data[c] = world[e][c]

\* If the client still stores the frame that the server deltas against, both
\* sides agree on every component the next delta may carry, and the client has
\* storage for it (never "delta_component_storage_missing").
BaselineAgreement ==
    \A e \in Entities : \A b \in StoredBaselines(cl[e]) :
        b.frame = es[e].baseline.frame =>
            \A c \in es[e].mask : b.data[c] = es[e].baseline.data[c]

\* A queued entity stays a candidate: it is in dirty_replicated_indices, which is
\* all that send_client looks at, and its dirty frame is past its baseline.
QueuedIsSchedulable ==
    \A e \in Entities : entry[e].queued => entry[e].listed /\ entry[e].baseline < entry[e].dirty

\* Out-of-order ACKs never move a baseline back, within one epoch, and an
\* invalidated epoch's ACK never restores a baseline of that epoch.
BaselineNeverRegresses ==
    [][\A e \in Entities :
        /\ es'[e].epoch >= es[e].epoch
        /\ es'[e].baseline.frame # NoFrame /\ es'[e].epoch = es[e].epoch
               => es'[e].baseline.frame >= es[e].baseline.frame
        /\ es[e].baseline.frame = NoFrame /\ es'[e].baseline.frame # NoFrame
               => \E p \in net : p.frame = es'[e].baseline.frame /\ e \in DOMAIN p.rec
                                 /\ es[e].mask \subseteq p.rec[e].mask]_vars

--------------------------------------------------------------------------------
(***************************************************************************)
(* The inductive invariant behind the state properties above.              *)
(***************************************************************************)

\* A flush sends each entity at most once, at a frame nothing was sent at before.
FlushDiscipline ==
    /\ phase # "inbound" => frame > 0
    /\ \A p \in net : p.frame > 0
    /\ phase = "stepping" => \A p \in net : p.frame < frame
    /\ phase # "sending" => todo = {}
    /\ \A e \in todo : /\ entry[e].queued
                       /\ \A p \in net : e \in DOMAIN p.rec => p.frame < frame

\* Packets are told apart by serial, and by frame and entity.
PacketsDistinct ==
    \A p, q \in net :
        /\ p.serial = q.serial => p = q
        /\ \A e \in DOMAIN p.rec \cap DOMAIN q.rec : p.frame = q.frame => p = q

\* A tracked packet is the last one sent with its id.
TrackedIsSent ==
    \A t \in tracked :
        /\ \E p \in net : /\ p.serial = t.serial
                          /\ p.id = t.id
                          /\ p.frame = t.frame
                          /\ DOMAIN p.rec = t.ents
        /\ \A p \in net : p.id = t.id => p.serial <= t.serial

\* An ACK names a packet all of whose records the client applied.
AcksAreApplied ==
    \A a \in acks :
        \E p \in net : /\ p.serial = a.serial
                       /\ p.id = a.id
                       /\ \A e \in DOMAIN p.rec : p.frame <= cl[e].frame

\* Packet p carried entity e's quantized frame <<f, data>>.
SentAs(p, e, f, data) ==
    /\ e \in DOMAIN p.rec
    /\ p.frame = f
    /\ p.rec[e].cur = data

\* A pending frame was sent; if its epoch is current, with at least today's mask.
PendingIsSent ==
    \A e \in Entities : \A s \in es[e].pending :
        /\ s.epoch <= es[e].epoch
        /\ \E p \in net : /\ SentAs(p, e, s.frame, s.data)
                          /\ s.epoch = es[e].epoch => es[e].mask \subseteq p.rec[e].mask

BaselineIsSent ==
    \A e \in Entities : es[e].baseline.frame # NoFrame =>
        \E p \in net : /\ SentAs(p, e, es[e].baseline.frame, es[e].baseline.data)
                       /\ es[e].mask \subseteq p.rec[e].mask

\* A delta was written against a frame sent earlier with at least its mask.
DeltaIsRooted ==
    \A p \in net : \A e \in DOMAIN p.rec : ~p.rec[e].full =>
        /\ Present(p.rec[e].prev) = Present(p.rec[e].cur)
        /\ \E q \in net : /\ SentAs(q, e, p.rec[e].base, p.rec[e].prev)
                          /\ p.rec[e].mask \subseteq q.rec[e].mask

\* The client's current state was carried by a packet.
CurrentIsCarried ==
    \A e \in Entities : cl[e].frame # NoFrame =>
        \E p \in net : Carries(p, e, cl[e].frame, cl[e].data)

\* The dirty frame covers every record sent; a record of that very frame holds
\* the current state of the world.
DirtyCoversSent ==
    \A p \in net : \A e \in DOMAIN p.rec :
        /\ p.frame <= entry[e].dirty
        /\ p.frame = entry[e].dirty => p.rec[e].cur = world[e]

\* An entity leaves the queue only with its last sent frame as the baseline.
SettledAtBaseline ==
    \A e \in Entities : ~entry[e].queued =>
        /\ es[e].baseline.frame # NoFrame
        /\ es[e].baseline.frame = entry[e].dirty
        /\ es[e].pending = {}

Bookkeeping ==
    /\ FlushDiscipline
    /\ PacketsDistinct
    /\ TrackedIsSent
    /\ AcksAreApplied
    /\ PendingIsSent
    /\ BaselineIsSent
    /\ DeltaIsRooted
    /\ CurrentIsCarried
    /\ DirtyCoversSent
    /\ SettledAtBaseline

================================================================================
