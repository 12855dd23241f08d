--------------------------- MODULE ReplicationProofs ---------------------------
(* Theorems about Replication for every value of its constants. *)
EXTENDS Replication, TLAPS

--------------------------------------------------------------------------------
(* Facts about the operators. *)

\* A frame's ring slot is an index of the history ring.
LEMMA RingSlotType ==
    ASSUME NEW f \in Frames
    PROVE  RingSlot(f) \in 0 .. Retention - 1
BY RetentionAssumption DEF RingSlot, Frames

\* What the server writes is a record, full exactly when no delta is possible.
LEMMA WriteEntityRecordType ==
    ASSUME NEW b \in ServerBaseline, NEW d \in ServerData, NEW m \in SUBSET Components
    PROVE  WriteEntityRecord(b, d, m) \in Record
BY DEF WriteEntityRecord, Record, ServerBaseline, NoData, ServerData, Frames, NoFrame

\* Decoding a record gives client data.
LEMMA DecodeRecordType ==
    ASSUME NEW s \in ClientEntity, NEW r \in Record
    PROVE  DecodeRecord(s, r) \in ClientData
<1>1. FindBaseline(s, r.base) \in ClientData
  BY RingSlotType DEF FindBaseline, ClientEntity, Baseline, Record
<1>2. DecodeFull(r) \in ClientData
  BY DEF DecodeFull, ClientData, Record, ServerData
<1>3. DecodeDelta(r, FindBaseline(s, r.base)) \in ClientData
  BY <1>1 DEF DecodeDelta, DecodeComponent, ClientData, Record, ServerData
<1> QED BY <1>2, <1>3 DEF DecodeRecord

\* Applying a record keeps the client's entity well formed.
LEMMA ApplyUpsertType ==
    ASSUME NEW s \in ClientEntity, NEW f \in Frames, NEW r \in Record
    PROVE  ApplyUpsert(s, f, r) \in ClientEntity
<1>1. DecodeRecord(s, r) \in ClientData
  BY DecodeRecordType
<1>2. ProtectReferencedBaseline(s, r) \in ClientEntity
  BY DEF ProtectReferencedBaseline, ClientEntity, Record
<1> DEFINE t == ProtectReferencedBaseline(s, r)
<1> HIDE DEF t
<1>3. ASSUME NEW d \in ClientData, t \in ClientEntity
      PROVE  RememberBaseline(t, f, d) \in ClientEntity
  BY <1>3, RingSlotType DEF RememberBaseline, ClientEntity, Baseline
<1> QED BY <1>1, <1>2, <1>3 DEF ApplyUpsert, t

\* Marking dirty keeps a queue entry well formed, queued and listed.
LEMMA MarkDirtyType ==
    ASSUME NEW en \in EntryType, NEW s \in EntityStateType, NEW f \in Frames
    PROVE  MarkDirty(en, s, f) \in EntryType
BY DEF MarkDirty, EntryType, EntityStateType, ServerBaseline, MaxOf, Frames, NoFrame

\* Invalidating a baseline keeps the entity state well formed.
LEMMA InvalidateBaselineType ==
    ASSUME NEW s \in EntityStateType
    PROVE  InvalidateBaseline(s) \in EntityStateType
<1>1. NoBaseline \in ServerBaseline
  BY DEF NoBaseline, ServerBaseline, NoData, ServerData, Frames, NoFrame
<1>2. s.epoch + 1 \in Nat
  BY DEF EntityStateType
<1> QED BY <1>1, <1>2 DEF InvalidateBaseline, EntityStateType

\* So does a new replication decision.
LEMMA DecideType ==
    ASSUME NEW s \in EntityStateType, NEW m \in SUBSET Components
    PROVE  Decide(s, m) \in EntityStateType
<1>1. [s EXCEPT !.mask = m] \in EntityStateType
  BY DEF EntityStateType
<1> QED BY <1>1, InvalidateBaselineType DEF Decide

\* Sending pushes one pending entry and may drop older ones.
LEMMA RecordSentType ==
    ASSUME NEW s \in EntityStateType, NEW r \in Record, NEW f \in Frames
    PROVE  RecordSent(s, r, f) \in EntityStateType
<1> DEFINE t == IF r.full /\ s.baseline.frame # NoFrame THEN InvalidateBaseline(s) ELSE s
           n == [frame |-> f, epoch |-> t.epoch, data |-> r.cur]
<1>1. t \in EntityStateType
  BY InvalidateBaselineType
<1> HIDE DEF t
<1>2. n \in Sent
  BY <1>1 DEF Sent, EntityStateType, Record
<1> HIDE DEF n
<1>3. KeepNewest(t.pending \cup {n}, FrameOf, Retention) \in SUBSET Sent
  BY <1>1, <1>2 DEF KeepNewest, EntityStateType
<1>4. [t EXCEPT !.pending = KeepNewest(@ \cup {n}, FrameOf, Retention)] \in EntityStateType
  BY <1>1, <1>3 DEF EntityStateType
<1> QED BY <1>4 DEF RecordSent, t, n

\* The pending entry an ACK finds is one of the pending entries, of its frame.
LEMMA PendingAtIsPending ==
    ASSUME NEW s, NEW f, IsPending(s, f)
    PROVE  PendingAt(s, f) \in s.pending /\ PendingAt(s, f).frame = f
BY DEF IsPending, PendingAt

\* An ACK keeps the entity state well formed.
LEMMA AckStateType ==
    ASSUME NEW s \in EntityStateType, NEW f \in Frames
    PROVE  AckState(s, f) \in EntityStateType
<1>1. CASE ~IsPending(s, f)
  BY <1>1 DEF AckState
<1>2. CASE IsPending(s, f)
  <2>1. PendingAt(s, f) \in Sent
    BY <1>2, PendingAtIsPending DEF EntityStateType
  <2>2. [frame |-> f, data |-> PendingAt(s, f).data] \in ServerBaseline
    BY <2>1 DEF Sent, ServerBaseline
  <2> QED BY <1>2, <2>2 DEF AckState, EntityStateType
<1> QED BY <1>1, <1>2

--------------------------------------------------------------------------------
(* Type correctness. *)

\* The packet a SendPacket step adds to the network, field by field.
LEMMA SentPacket ==
    ASSUME NEW batch, NEW pos, SendPacket(batch, pos)
    PROVE  \E pk : /\ net' = net \cup {pk}
                   /\ pk.id = nextId
                   /\ pk.serial = serial + 1
                   /\ pk.frame = frame
                   /\ pk.rec = [e \in batch |-> SerializedRecord(e)]
                   /\ tracked' = TrackPacket(pk)
<1> WITNESS [id |-> nextId, serial |-> serial + 1, frame |-> frame, pos |-> pos,
             rec |-> [e \in batch |-> SerializedRecord(e)]]
<1> QED BY DEF SendPacket

\* The initial states are well typed.
LEMMA InitTypeOK == Init => TypeOK
<1> SUFFICES ASSUME Init PROVE TypeOK
  OBVIOUS
<1>1. NewEntityState \in EntityStateType
  BY DEF NewEntityState, EntityStateType, NoBaseline, ServerBaseline, NoData, ServerData,
         Frames, NoFrame
<1>2. NewEntry \in EntryType
  BY DEF NewEntry, EntryType, Frames, NoFrame
<1>3. MarkDirty(NewEntry, NewEntityState, 0) \in EntryType
  BY <1>1, <1>2, MarkDirtyType DEF Frames
<1>4. NewClientEntity \in ClientEntity
  BY DEF NewClientEntity, ClientEntity, NoBaseline, Baseline, NoData, ClientData, Frames, NoFrame
<1>5. world \in [Entities -> ServerData]
  BY DEF Init
<1> QED
  BY <1>1, <1>3, <1>4, <1>5, ReplicationAssumption DEF Init, TypeOK, Frames

\* Every action of the server, the network and the client preserves the types.
LEMMA NextTypeOK == TypeOK /\ [Next]_vars => TypeOK'
<1> SUFFICES ASSUME TypeOK, [Next]_vars PROVE TypeOK'
  OBVIOUS
<1>1. ASSUME NEW dirty \in SUBSET Entities, NEW next \in [Entities -> ServerData],
             Step(dirty, next)
      PROVE  TypeOK'
  <2>1. entry' \in [Entities -> EntryType]
    <3>1. frame + 1 \in Frames
      BY DEF TypeOK, Frames
    <3>2. \A e \in Entities : MarkDirty(entry[e], es[e], frame + 1) \in EntryType
      BY <3>1, MarkDirtyType DEF TypeOK
    <3> QED BY <1>1, <3>2 DEF Step, TypeOK
  <2>2. \A p \in net' : IsPacket(p)'
    BY <1>1 DEF Step, TypeOK, IsPacket, Frames
  <2> QED BY <1>1, <2>1, <2>2 DEF Step, TypeOK, Frames
<1>2. ASSUME NEW masks \in [Entities -> Masks], BeginFlush(masks)
      PROVE  TypeOK'
  <2>1. \A e \in Entities : Decide(es[e], masks[e]) \in EntityStateType
    BY DecideType, ReplicationAssumption DEF TypeOK
  <2>2. es' \in [Entities -> EntityStateType]
    BY <1>2, <2>1 DEF BeginFlush, TypeOK
  <2>3. \A p \in net' : IsPacket(p)'
    BY <1>2 DEF BeginFlush, TypeOK, IsPacket
  <2> QED BY <1>2, <2>2, <2>3 DEF BeginFlush, TypeOK
<1>3. ASSUME NEW batch \in SUBSET Entities, NEW pos \in Orders(batch), SendPacket(batch, pos)
      PROVE  TypeOK'
  <2>0. PICK pk : /\ net' = net \cup {pk}
                  /\ pk.id = nextId
                  /\ pk.serial = serial + 1
                  /\ pk.frame = frame
                  /\ pk.rec = [e \in batch |-> SerializedRecord(e)]
                  /\ tracked' = TrackPacket(pk)
    BY <1>3, SentPacket
  <2>1. \A e \in Entities : SerializedRecord(e) \in Record
    BY WriteEntityRecordType DEF SerializedRecord, TypeOK, EntityStateType
  <2>2. \A e \in Entities : RecordSent(es[e], SerializedRecord(e), frame) \in EntityStateType
    BY <2>1, RecordSentType DEF TypeOK
  <2>3. es' \in [Entities -> EntityStateType]
    BY <1>3, <2>2 DEF SendPacket, TypeOK
  <2>4. entry' \in [Entities -> EntryType]
    BY <1>3 DEF SendPacket, TypeOK, EntryType
  <2>5. nextId' \in 1 .. MaxPacketId
    <3>1. nextId' = FollowingId(nextId) /\ nextId \in 1 .. MaxPacketId
      BY <1>3 DEF SendPacket, TypeOK
    <3> QED BY <3>1, ReplicationAssumption DEF FollowingId
  <2>6. tracked' \subseteq Tracked
    <3>1. [id |-> pk.id, serial |-> pk.serial, frame |-> pk.frame,
           ents |-> DOMAIN pk.rec] \in Tracked
      BY <2>0 DEF TypeOK, Tracked, Frames
    <3> QED BY <2>0, <3>1 DEF TrackPacket, KeepNewest, TypeOK
  <2>7. IsPacket(pk)'
    <3>1. frame' = frame /\ serial' = serial + 1
      BY <1>3 DEF SendPacket
    <3>2. pk.rec \in [batch -> Record]
      BY <2>0, <2>1
    <3> QED BY <2>0, <3>1, <3>2 DEF IsPacket, TypeOK, Frames
  <2>8. \A p \in net : IsPacket(p)'
    BY <1>3 DEF SendPacket, TypeOK, IsPacket
  <2>9. \A p \in net' : IsPacket(p)'
    BY <2>0, <2>7, <2>8
  <2> QED BY <1>3, <2>3, <2>4, <2>5, <2>6, <2>9 DEF SendPacket, TypeOK
<1>4. CASE EndFlush
  <2>1. entry' \in [Entities -> EntryType]
    BY <1>4 DEF EndFlush, TypeOK, EntryType
  <2>2. \A p \in net' : IsPacket(p)'
    BY <1>4 DEF EndFlush, TypeOK, IsPacket
  <2> QED BY <1>4, <2>1, <2>2 DEF EndFlush, TypeOK
<1>5. ASSUME NEW ack \in acks, ReceiveAck(ack)
      PROVE  TypeOK'
  <2>1. \A p \in net' : IsPacket(p)'
    BY <1>5 DEF ReceiveAck, TypeOK, IsPacket
  <2>2. CASE IgnoreAck
    BY <1>5, <2>1, <2>2 DEF ReceiveAck, IgnoreAck, TypeOK
  <2>3. ASSUME NEW t \in tracked, AcknowledgePacket(t)
        PROVE  TypeOK'
    <3>1. \A e \in Entities : AckState(es[e], t.frame) \in EntityStateType
      BY AckStateType DEF TypeOK, Tracked
    <3>2. \A e \in Entities : AckEntry(entry[e], es[e], t.frame) \in EntryType
      BY DEF AckEntry, TypeOK, Tracked, EntryType
    <3>3. es' \in [Entities -> EntityStateType]
      BY <2>3, <3>1 DEF AcknowledgePacket, TypeOK
    <3>4. entry' \in [Entities -> EntryType]
      BY <2>3, <3>2 DEF AcknowledgePacket, TypeOK
    <3>5. tracked' \subseteq Tracked
      BY <2>3 DEF AcknowledgePacket, TypeOK
    <3> QED BY <1>5, <2>1, <3>3, <3>4, <3>5 DEF ReceiveAck, TypeOK
  <2> QED BY <1>5, <2>2, <2>3 DEF ReceiveAck
<1>6. ASSUME NEW packet \in net, ReceiveUpdate(packet)
      PROVE  TypeOK'
  <2>1. \A p \in net' : IsPacket(p)'
    BY <1>6 DEF ReceiveUpdate, tickVars, serverVars, TypeOK, IsPacket
  <2>2. packet.frame \in Frames /\ packet.id \in 1 .. MaxPacketId /\ packet.serial \in Nat
    BY DEF TypeOK, IsPacket, Frames
  <2>3. \A e \in Applied(packet) : packet.rec[e] \in Record
    BY DEF Applied, TypeOK, IsPacket
  <2>4. \A e \in Entities : e \in Applied(packet) =>
            ApplyUpsert(cl[e], packet.frame, packet.rec[e]) \in ClientEntity
    BY <2>2, <2>3, ApplyUpsertType DEF TypeOK
  <2>5. cl' \in [Entities -> ClientEntity]
    BY <1>6, <2>4 DEF ReceiveUpdate, TypeOK
  <2>6. acks' \subseteq Ack
    BY <1>6, <2>2 DEF ReceiveUpdate, TypeOK, Ack
  <2> QED BY <1>6, <2>1, <2>5, <2>6 DEF ReceiveUpdate, tickVars, serverVars, TypeOK
<1>7. CASE UNCHANGED vars
  BY <1>7 DEF vars, TypeOK, IsPacket
<1> QED BY <1>1, <1>2, <1>3, <1>4, <1>5, <1>6, <1>7 DEF Next

\* The variables keep their types for every value of the constants.
THEOREM TypeCorrect == Spec => []TypeOK
BY InitTypeOK, NextTypeOK, PTL DEF Spec

--------------------------------------------------------------------------------
(***************************************************************************)
(* The inductive invariant.                                                *)
(***************************************************************************)
IInv == TypeOK /\ Bookkeeping /\ DecodedExactly /\ SettledMeansConverged

\* The inductive invariant holds initially: nothing was sent yet.
LEMMA InitIInv == Init => IInv
<1> SUFFICES ASSUME Init PROVE IInv
  OBVIOUS
<1>1. TypeOK
  BY InitTypeOK
<1>2. \A e \in Entities : entry[e].queued
  BY DEF Init, MarkDirty
<1>3. \A e \in Entities : /\ es[e].baseline.frame = NoFrame
                          /\ es[e].pending = {}
                          /\ cl[e].frame = NoFrame
  BY DEF Init, NewEntityState, NewClientEntity, NoBaseline
<1>4. \A e \in Entities : StoredBaselines(cl[e]) = {}
  <2>1. \A e \in Entities : /\ cl[e].pinned = NoBaseline
                            /\ \A i \in 0 .. Retention - 1 : cl[e].history[i] = NoBaseline
    BY DEF Init, NewClientEntity
  <2> QED BY <2>1 DEF StoredBaselines, NoBaseline
<1>5. Bookkeeping
  BY <1>2, <1>3 DEF Init, Bookkeeping, FlushDiscipline, PacketsDistinct, TrackedIsSent,
     AcksAreApplied, PendingIsSent, BaselineIsSent, DeltaIsRooted, CurrentIsCarried,
     DirtyCoversSent, SettledAtBaseline
<1>6. DecodedExactly /\ SettledMeansConverged
  BY <1>2, <1>4 DEF DecodedExactly, SettledMeansConverged
<1> QED BY <1>1, <1>5, <1>6 DEF IInv

\* A fixed step only moves the world and the dirty frames of what it changes.
LEMMA StepIInv ==
    ASSUME IInv, TypeOK',
           NEW dirty \in SUBSET Entities, NEW next \in [Entities -> ServerData],
           Step(dirty, next)
    PROVE  IInv'
<1> USE DEF IInv, Bookkeeping
<1>1. UNCHANGED <<es, todo, tracked, nextId, serial, net, acks, cl>>
  BY DEF Step
<1>2. \A p \in net : p.frame \in Nat /\ p.frame <= frame /\ DOMAIN p.rec \subseteq Entities
  BY DEF TypeOK, IsPacket
<1>3. FlushDiscipline'
  BY <1>1, <1>2 DEF FlushDiscipline, Step, TypeOK, Frames
<1>4. (PacketsDistinct /\ DeltaIsRooted)'
  BY <1>1 DEF PacketsDistinct, DeltaIsRooted, SentAs
<1>5. TrackedIsSent' /\ AcksAreApplied'
  BY <1>1 DEF TrackedIsSent, AcksAreApplied
<1>6. PendingIsSent' /\ BaselineIsSent'
  BY <1>1 DEF PendingIsSent, BaselineIsSent
<1>7. CurrentIsCarried' /\ DecodedExactly'
  BY <1>1 DEF CurrentIsCarried, DecodedExactly
<1>8. \A e \in Entities :
        IF e \in dirty THEN entry'[e].queued /\ entry'[e].dirty > frame
        ELSE entry'[e] = entry[e] /\ world'[e] = world[e]
  <2> TAKE e \in Entities
  <2>1. CASE e \in dirty
    <3>1. entry'[e] = MarkDirty(entry[e], es[e], frame + 1)
      BY <2>1 DEF Step
    <3>2. entry[e].dirty \in Nat /\ entry[e].baseline \in Nat /\ es[e].baseline.frame \in Nat
      BY DEF TypeOK, EntryType, EntityStateType, ServerBaseline, Frames
    <3> QED BY <2>1, <3>1, <3>2 DEF MarkDirty, MaxOf, TypeOK, Frames
  <2>2. CASE e \notin dirty
    BY <2>2 DEF Step
  <2> QED BY <2>1, <2>2
<1>9. DirtyCoversSent'
  <2> SUFFICES ASSUME NEW p \in net, NEW e \in DOMAIN p.rec
               PROVE  /\ p.frame <= entry'[e].dirty
                      /\ p.frame = entry'[e].dirty => p.rec[e].cur = world'[e]
    BY <1>1 DEF DirtyCoversSent
  <2>1. e \in Entities /\ entry'[e].dirty \in Nat
    BY <1>2 DEF TypeOK, EntryType, Frames
  <2> QED BY <1>2, <1>8, <2>1 DEF DirtyCoversSent, TypeOK, Frames
<1>10. SettledAtBaseline' /\ SettledMeansConverged'
  BY <1>1, <1>8 DEF SettledAtBaseline, SettledMeansConverged
<1> QED BY <1>3, <1>4, <1>5, <1>6, <1>7, <1>9, <1>10

\* The packet a pending frame was sent in.
LEMMA PendingPacket ==
    ASSUME PendingIsSent, NEW e \in Entities, NEW s \in es[e].pending
    PROVE  \E p \in net : /\ SentAs(p, e, s.frame, s.data)
                          /\ s.epoch = es[e].epoch => es[e].mask \subseteq p.rec[e].mask
BY DEF PendingIsSent

\* What a replication decision does to an entity state.
LEMMA DecideEffect ==
    ASSUME NEW s \in EntityStateType, NEW m \in SUBSET Components
    PROVE  /\ Decide(s, m).pending = s.pending
           /\ Decide(s, m).mask = m
           /\ \/ /\ m \subseteq s.mask
                 /\ Decide(s, m).epoch = s.epoch
                 /\ Decide(s, m).baseline = s.baseline
              \/ /\ Decide(s, m).epoch = s.epoch + 1
                 /\ Decide(s, m).baseline = NoBaseline
BY DEF Decide, InvalidateBaseline, EntityStateType

\* Reopened components cost the baseline, so the masks a baseline was sent
\* with keep covering the current mask.
LEMMA BeginFlushIInv ==
    ASSUME IInv, TypeOK', NEW masks \in [Entities -> Masks], BeginFlush(masks)
    PROVE  IInv'
<1> USE DEF IInv, Bookkeeping
<1>1. UNCHANGED <<frame, steps, world, entry, tracked, nextId, serial, net, acks, cl>>
  BY DEF BeginFlush
<1>2. FlushDiscipline'
  BY <1>1 DEF FlushDiscipline, BeginFlush, IsCandidate
<1>3. (PacketsDistinct /\ DeltaIsRooted)'
  BY <1>1 DEF PacketsDistinct, DeltaIsRooted, SentAs
<1>4. TrackedIsSent' /\ AcksAreApplied'
  BY <1>1 DEF TrackedIsSent, AcksAreApplied
<1>5. CurrentIsCarried' /\ DecodedExactly' /\ DirtyCoversSent'
  BY <1>1 DEF CurrentIsCarried, DecodedExactly, DirtyCoversSent
<1>6. \A e \in Entities :
        /\ es'[e].pending = es[e].pending
        /\ ~entry[e].queued => es'[e] = es[e]
        /\ \/ /\ es'[e].mask \subseteq es[e].mask
              /\ es'[e].epoch = es[e].epoch
              /\ es'[e].baseline = es[e].baseline
           \/ /\ es'[e].epoch = es[e].epoch + 1
              /\ es'[e].baseline = NoBaseline
  <2> TAKE e \in Entities
  <2>1. es[e] \in EntityStateType /\ masks[e] \in SUBSET Components
    BY ReplicationAssumption DEF TypeOK
  <2>2. CASE IsCandidate(e)
    <3>1. es'[e] = Decide(es[e], masks[e]) /\ entry[e].queued
      BY <2>2 DEF BeginFlush, IsCandidate
    <3> QED BY <2>1, <3>1, DecideEffect
  <2>3. CASE ~IsCandidate(e)
    BY <2>3 DEF BeginFlush
  <2> QED BY <2>2, <2>3
<1>7. PendingIsSent'
  <2> SUFFICES ASSUME NEW e \in Entities, NEW s \in es[e].pending
               PROVE  /\ s.epoch <= es'[e].epoch
                      /\ \E p \in net : /\ SentAs(p, e, s.frame, s.data)
                                        /\ s.epoch = es'[e].epoch => es'[e].mask \subseteq p.rec[e].mask
    BY <1>1, <1>6 DEF PendingIsSent
  <2>1. s.epoch \in Nat /\ es[e].epoch \in Nat
    BY DEF TypeOK, EntityStateType, Sent
  <2>2. s.epoch <= es[e].epoch
    BY DEF PendingIsSent
  <2>3. PICK p \in net : /\ SentAs(p, e, s.frame, s.data)
                         /\ s.epoch = es[e].epoch => es[e].mask \subseteq p.rec[e].mask
    BY PendingPacket
  <2> QED BY <1>6, <2>1, <2>2, <2>3
<1>8. BaselineIsSent'
  BY <1>1, <1>6 DEF BaselineIsSent, NoBaseline
<1>9. SettledAtBaseline' /\ SettledMeansConverged'
  BY <1>1, <1>6 DEF SettledAtBaseline, SettledMeansConverged
<1> QED BY <1>2, <1>3, <1>4, <1>5, <1>7, <1>8, <1>9

\* What sending a record does to an entity state.
LEMMA RecordSentEffect ==
    ASSUME NEW s \in EntityStateType, NEW r \in Record, NEW f \in Frames
    PROVE  LET t == RecordSent(s, r, f)
           IN  /\ t.mask = s.mask
               /\ t.pending \subseteq
                      s.pending \cup {[frame |-> f, epoch |-> t.epoch, data |-> r.cur]}
               /\ \/ t.epoch = s.epoch /\ t.baseline = s.baseline
                  \/ t.epoch = s.epoch + 1 /\ t.baseline = NoBaseline
BY DEF RecordSent, InvalidateBaseline, EntityStateType, KeepNewest

\* EndFlush and an ACK for an untracked packet touch no replicated state.
LEMMA EndFlushIInv ==
    ASSUME IInv, TypeOK', EndFlush
    PROVE  IInv'
<1> USE DEF IInv, Bookkeeping
<1>1. UNCHANGED <<frame, world, es, tracked, nextId, serial, net, acks, cl>>
  BY DEF EndFlush
<1>2. \A e \in Entities : /\ entry'[e].queued = entry[e].queued
                          /\ entry'[e].dirty = entry[e].dirty
  BY DEF EndFlush, TypeOK, EntryType
<1>3. FlushDiscipline'
  BY <1>1 DEF FlushDiscipline, EndFlush
<1>4. (PacketsDistinct /\ DeltaIsRooted)'
  BY <1>1 DEF PacketsDistinct, DeltaIsRooted, SentAs
<1>5. TrackedIsSent' /\ AcksAreApplied'
  BY <1>1 DEF TrackedIsSent, AcksAreApplied
<1>6. PendingIsSent' /\ BaselineIsSent'
  BY <1>1 DEF PendingIsSent, BaselineIsSent
<1>7. CurrentIsCarried' /\ DecodedExactly'
  BY <1>1 DEF CurrentIsCarried, DecodedExactly
<1>8. DirtyCoversSent'
  BY <1>1, <1>2 DEF DirtyCoversSent, TypeOK, IsPacket
<1>9. SettledAtBaseline' /\ SettledMeansConverged'
  BY <1>1, <1>2 DEF SettledAtBaseline, SettledMeansConverged
<1> QED BY <1>3, <1>4, <1>5, <1>6, <1>7, <1>8, <1>9

\* Sending: the new packet is the only record of its entities at this frame, a
\* delta in it is rooted in the baseline's packet, and the pending entry it
\* leaves behind is the packet itself.
LEMMA SendPacketIInv ==
    ASSUME IInv, TypeOK',
           NEW batch \in SUBSET Entities, NEW pos \in Orders(batch), SendPacket(batch, pos)
    PROVE  IInv'
<1> USE DEF IInv, Bookkeeping
<1>1. UNCHANGED <<frame, phase, steps, world, acks, cl>> /\ serial' = serial + 1
  BY DEF SendPacket
<1>2. PICK pk : /\ net' = net \cup {pk}
                /\ pk.id = nextId
                /\ pk.serial = serial + 1
                /\ pk.frame = frame
                /\ pk.rec = [e \in batch |-> SerializedRecord(e)]
                /\ tracked' = TrackPacket(pk)
  BY SentPacket
<1>3. \A p \in net : /\ p.serial \in Nat /\ p.serial <= serial
                     /\ p.frame \in Nat /\ p.frame <= frame
                     /\ DOMAIN p.rec \subseteq Entities
  BY DEF TypeOK, IsPacket
<1>4. \A e \in batch : /\ entry[e].queued
                       /\ e \in todo
                       /\ \A p \in net : e \in DOMAIN p.rec => p.frame < frame
  BY DEF SendPacket, FlushDiscipline
<1>5. \A e \in batch : /\ pk.rec[e] = WriteEntityRecord(es[e].baseline, world[e], es[e].mask)
                       /\ pk.rec[e] \in Record
                       /\ pk.rec[e].cur = world[e]
                       /\ pk.rec[e].mask = es[e].mask
  <2> TAKE e \in batch
  <2>1. pk.rec[e] = WriteEntityRecord(es[e].baseline, world[e], es[e].mask)
    BY <1>2 DEF SerializedRecord
  <2>2. pk.rec[e] \in Record
    BY <2>1, WriteEntityRecordType DEF TypeOK, EntityStateType
  <2> QED BY <2>1, <2>2 DEF WriteEntityRecord
<1>6. DOMAIN pk.rec = batch
  BY <1>2
<1>7. \A e \in Entities :
        IF e \in batch
        THEN LET t == es'[e]
             IN  /\ t.mask = es[e].mask
                 /\ t.pending \subseteq es[e].pending \cup
                        {[frame |-> frame, epoch |-> t.epoch, data |-> world[e]]}
                 /\ \/ t.epoch = es[e].epoch /\ t.baseline = es[e].baseline
                    \/ t.epoch = es[e].epoch + 1 /\ t.baseline = NoBaseline
        ELSE es'[e] = es[e]
  <2> TAKE e \in Entities
  <2>1. CASE e \in batch
    <3>1. es'[e] = RecordSent(es[e], pk.rec[e], frame)
      BY <2>1, <1>2 DEF SendPacket
    <3>2. es[e] \in EntityStateType /\ frame \in Frames
      BY DEF TypeOK
    <3> QED BY <1>5, <2>1, <3>1, <3>2, RecordSentEffect
  <2>2. CASE e \notin batch
    BY <2>2 DEF SendPacket
  <2> QED BY <2>1, <2>2
<1>8. FlushDiscipline'
  <2>1. phase = "sending" /\ frame > 0 /\ todo' = todo \ batch
    BY DEF SendPacket, FlushDiscipline
  <2>2. \A e \in todo' : entry'[e] = entry[e]
    BY DEF SendPacket, TypeOK
  <2> QED BY <1>1, <1>2, <1>6, <2>1, <2>2 DEF FlushDiscipline
<1>9. PacketsDistinct'
  <2>1. \A p \in net : /\ p.serial # pk.serial
                       /\ \A e \in DOMAIN p.rec \cap DOMAIN pk.rec : p.frame # pk.frame
    BY <1>2, <1>3, <1>4, <1>6 DEF TypeOK, Frames
  <2> QED BY <1>2, <2>1 DEF PacketsDistinct
<1>10. TrackedIsSent'
  <2> SUFFICES ASSUME NEW t \in tracked'
               PROVE  /\ \E p \in net' : /\ p.serial = t.serial
                                         /\ p.id = t.id
                                         /\ p.frame = t.frame
                                         /\ DOMAIN p.rec = t.ents
                      /\ \A p \in net' : p.id = t.id => p.serial <= t.serial
    BY DEF TrackedIsSent
  <2>1. \/ t \in tracked /\ t.id # pk.id
        \/ t = [id |-> pk.id, serial |-> pk.serial, frame |-> pk.frame, ents |-> DOMAIN pk.rec]
    BY <1>2 DEF TrackPacket, KeepNewest
  <2>2. CASE t \in tracked /\ t.id # pk.id
    BY <1>2, <2>2 DEF TrackedIsSent
  <2>3. CASE t = [id |-> pk.id, serial |-> pk.serial, frame |-> pk.frame, ents |-> DOMAIN pk.rec]
    BY <1>2, <1>3, <2>3 DEF TypeOK
  <2> QED BY <2>1, <2>2, <2>3
<1>11. AcksAreApplied'
  BY <1>1, <1>2 DEF AcksAreApplied
<1>12. PendingIsSent'
  <2> SUFFICES ASSUME NEW e \in Entities, NEW s \in es'[e].pending
               PROVE  /\ s.epoch <= es'[e].epoch
                      /\ \E p \in net' : /\ SentAs(p, e, s.frame, s.data)
                                         /\ s.epoch = es'[e].epoch => es'[e].mask \subseteq p.rec[e].mask
    BY DEF PendingIsSent
  <2>1. es[e].epoch \in Nat /\ es'[e].epoch \in Nat /\ s.epoch \in Nat
    BY DEF TypeOK, EntityStateType, Sent
  <2>2. CASE s \in es[e].pending
    BY <1>2, <1>7, <2>1, <2>2 DEF PendingIsSent
  <2>3. CASE e \in batch /\ s = [frame |-> frame, epoch |-> es'[e].epoch, data |-> world[e]]
    <3>1. SentAs(pk, e, s.frame, s.data) /\ es'[e].mask \subseteq pk.rec[e].mask
      BY <1>2, <1>5, <1>6, <1>7, <2>3 DEF SentAs
    <3> QED BY <1>2, <2>1, <2>3, <3>1
  <2> QED BY <1>7, <2>2, <2>3
<1>13. BaselineIsSent'
  BY <1>2, <1>7 DEF BaselineIsSent, NoBaseline
<1>14. DeltaIsRooted'
  <2>1. \A e \in batch : ~pk.rec[e].full =>
          /\ Present(pk.rec[e].prev) = Present(pk.rec[e].cur)
          /\ \E q \in net : /\ SentAs(q, e, pk.rec[e].base, pk.rec[e].prev)
                            /\ pk.rec[e].mask \subseteq q.rec[e].mask
    <3> SUFFICES ASSUME NEW e \in batch, ~pk.rec[e].full
                 PROVE  /\ Present(pk.rec[e].prev) = Present(pk.rec[e].cur)
                        /\ \E q \in net : /\ SentAs(q, e, pk.rec[e].base, pk.rec[e].prev)
                                          /\ pk.rec[e].mask \subseteq q.rec[e].mask
      OBVIOUS
    <3>1. /\ CanDelta(es[e].baseline, world[e])
          /\ pk.rec[e].base = es[e].baseline.frame
          /\ pk.rec[e].prev = es[e].baseline.data
      <4>1. /\ pk.rec[e] = WriteEntityRecord(es[e].baseline, world[e], es[e].mask)
            /\ ~pk.rec[e].full
        BY <1>5
      <4> HIDE DEF IInv, Bookkeeping, CanDelta
      <4> QED BY <4>1 DEF WriteEntityRecord
    <3> QED BY <1>5, <3>1 DEF CanDelta, BaselineIsSent
  <2>2. \A p \in net : \A e \in DOMAIN p.rec : ~p.rec[e].full =>
          /\ Present(p.rec[e].prev) = Present(p.rec[e].cur)
          /\ \E q \in net : /\ SentAs(q, e, p.rec[e].base, p.rec[e].prev)
                            /\ p.rec[e].mask \subseteq q.rec[e].mask
    BY DEF DeltaIsRooted
  <2> QED BY <1>2, <1>6, <2>1, <2>2 DEF DeltaIsRooted, SentAs
<1>15. CurrentIsCarried' /\ DecodedExactly'
  BY <1>1, <1>2 DEF CurrentIsCarried, DecodedExactly
<1>16. \A e \in Entities :
         IF e \in batch THEN entry'[e].dirty = frame /\ entry'[e].queued
         ELSE entry'[e] = entry[e]
  BY <1>4 DEF SendPacket, TypeOK, EntryType
<1>17. DirtyCoversSent'
  <2> SUFFICES ASSUME NEW p \in net', NEW e \in DOMAIN p.rec
               PROVE  /\ p.frame <= entry'[e].dirty
                      /\ p.frame = entry'[e].dirty => p.rec[e].cur = world[e]
    BY <1>1 DEF DirtyCoversSent
  <2>1. CASE p = pk
    BY <1>2, <1>5, <1>6, <1>16, <2>1 DEF TypeOK, Frames
  <2>2. CASE p \in net
    BY <1>3, <1>4, <1>16, <2>2 DEF DirtyCoversSent, TypeOK, Frames
  <2> QED BY <1>2, <2>1, <2>2
<1>18. SettledAtBaseline' /\ SettledMeansConverged'
  BY <1>1, <1>7, <1>16 DEF SettledAtBaseline, SettledMeansConverged
<1> QED BY <1>8, <1>9, <1>10, <1>11, <1>12, <1>13, <1>14, <1>15, <1>17, <1>18

\* The tracked packet with the ACK's id is the packet the client applied.
LEMMA AckedPacket ==
    ASSUME IInv, NEW ack \in acks, AckInTime(ack), NEW t \in tracked, t.id = ack.id
    PROVE  \E p \in net : /\ p.frame = t.frame
                          /\ DOMAIN p.rec = t.ents
                          /\ \A e \in t.ents : p.frame <= cl[e].frame
<1> USE DEF IInv, Bookkeeping
<1>1. PICK p \in net : /\ p.serial = t.serial /\ p.id = t.id
                       /\ p.frame = t.frame /\ DOMAIN p.rec = t.ents
  BY DEF TrackedIsSent
<1>2. PICK q \in net : /\ q.serial = ack.serial /\ q.id = ack.id
                       /\ \A e \in DOMAIN q.rec : q.frame <= cl[e].frame
  BY DEF AcksAreApplied
<1>3. p.serial \in Nat /\ q.serial \in Nat
  BY DEF TypeOK, IsPacket
<1>4. q.serial <= p.serial
  BY <1>1, <1>2 DEF TrackedIsSent
<1>5. p.serial <= q.serial
  BY <1>1, <1>2 DEF AckInTime
<1>6. p = q
  BY <1>3, <1>4, <1>5 DEF PacketsDistinct
<1> QED BY <1>1, <1>2, <1>6

\* What acknowledge_packet does to every entity and its queue entry.
LEMMA AckEffect ==
    ASSUME TypeOK, NEW t \in tracked, AcknowledgePacket(t)
    PROVE  \A e \in Entities :
             /\ es'[e].mask = es[e].mask
             /\ es'[e].epoch = es[e].epoch
             /\ es'[e].pending \subseteq es[e].pending
             /\ entry'[e].dirty = entry[e].dirty
             /\ entry'[e].listed = entry[e].listed
             /\ \/ /\ es'[e].baseline = es[e].baseline
                   /\ entry'[e].queued = entry[e].queued
                   /\ entry'[e].baseline = entry[e].baseline
                \/ /\ e \in t.ents
                   /\ es'[e].baseline.frame = t.frame
                   /\ \E s \in es[e].pending : /\ s.frame = t.frame
                                               /\ s.epoch = es[e].epoch
                                               /\ s.data = es'[e].baseline.data
                   /\ \A s \in es'[e].pending : s.frame > t.frame
                   /\ ~entry'[e].queued => ~entry[e].queued \/ entry[e].dirty <= t.frame
                   /\ entry'[e].queued => entry[e].queued /\ t.frame < entry[e].dirty
                   /\ entry'[e].baseline = t.frame
<1> TAKE e \in Entities
<1>1. es[e] \in EntityStateType /\ entry[e] \in EntryType
  BY DEF TypeOK
<1>2. CASE e \notin t.ents
  BY <1>2 DEF AcknowledgePacket
<1>3. CASE e \in t.ents /\ ~IsPending(es[e], t.frame)
  BY <1>3 DEF AcknowledgePacket, AckState, AckEntry, Eligible
<1>4. CASE e \in t.ents /\ IsPending(es[e], t.frame)
  <2>1. es'[e] = AckState(es[e], t.frame) /\ entry'[e] = AckEntry(entry[e], es[e], t.frame)
    BY <1>4 DEF AcknowledgePacket
  <2>2. /\ PendingAt(es[e], t.frame) \in es[e].pending
        /\ PendingAt(es[e], t.frame).frame = t.frame
    BY <1>4, PendingAtIsPending
  <2>3. CASE ~Eligible(es[e], t.frame)
    BY <1>1, <1>4, <2>1, <2>3 DEF AckState, AckEntry, EntityStateType
  <2>4. CASE Eligible(es[e], t.frame)
    <3>1. PendingAt(es[e], t.frame).epoch = es[e].epoch
      BY <2>4 DEF Eligible
    <3>2. /\ es'[e].baseline = [frame |-> t.frame, data |-> PendingAt(es[e], t.frame).data]
          /\ es'[e].pending \subseteq es[e].pending
          /\ \A s \in es'[e].pending : s.frame > t.frame
          /\ es'[e].mask = es[e].mask
          /\ es'[e].epoch = es[e].epoch
      BY <1>1, <1>4, <2>1, <2>4 DEF AckState, EntityStateType
    <3>3. /\ entry'[e].dirty = entry[e].dirty
          /\ entry'[e].listed = entry[e].listed
          /\ entry'[e].baseline = t.frame
          /\ entry'[e].queued = (entry[e].queued /\ t.frame < entry[e].dirty)
      BY <1>1, <2>1, <2>4 DEF AckEntry, EntryType
    <3>4. /\ ~entry'[e].queued => ~entry[e].queued \/ entry[e].dirty <= t.frame
          /\ entry'[e].queued => entry[e].queued /\ t.frame < entry[e].dirty
      <4>1. t.frame \in Nat /\ entry[e].dirty \in Nat
        BY <1>1 DEF TypeOK, Tracked, EntryType, Frames
      <4>2. (t.frame < entry[e].dirty) \/ entry[e].dirty <= t.frame
        BY <4>1
      <4> QED BY <3>3, <4>2, Zenon
    <3>5. \E s \in es[e].pending : /\ s.frame = t.frame
                                   /\ s.epoch = es[e].epoch
                                   /\ s.data = es'[e].baseline.data
      BY <2>2, <3>1, <3>2
    <3> QED BY <1>4, <3>2, <3>3, <3>4, <3>5
  <2> QED BY <2>3, <2>4
<1> QED BY <1>2, <1>3, <1>4

\* An ACK selects a baseline only from a pending frame of the current epoch, and
\* settles an entity only when that frame is the last one sent.
LEMMA ReceiveAckIInv ==
    ASSUME IInv, TypeOK', NEW ack \in acks, ReceiveAck(ack)
    PROVE  IInv'
<1> USE DEF IInv, Bookkeeping
<1>1. UNCHANGED <<frame, phase, steps, world, todo, nextId, serial, net, acks, cl>>
  BY DEF ReceiveAck
<1>2. tracked' \subseteq tracked
  BY DEF ReceiveAck, AcknowledgePacket, IgnoreAck
<1>3. (PacketsDistinct /\ DeltaIsRooted)'
  BY <1>1 DEF PacketsDistinct, DeltaIsRooted, SentAs
<1>4. TrackedIsSent' /\ AcksAreApplied'
  BY <1>1, <1>2 DEF TrackedIsSent, AcksAreApplied
<1>5. CurrentIsCarried' /\ DecodedExactly'
  BY <1>1 DEF CurrentIsCarried, DecodedExactly
<1>6. FlushDiscipline'
  BY <1>1 DEF ReceiveAck, FlushDiscipline
<1>7. CASE IgnoreAck
  <2>1. UNCHANGED <<es, entry>>
    BY <1>7 DEF IgnoreAck
  <2>2. PendingIsSent' /\ BaselineIsSent' /\ DirtyCoversSent'
    BY <1>1, <2>1 DEF PendingIsSent, BaselineIsSent, DirtyCoversSent
  <2>3. SettledAtBaseline' /\ SettledMeansConverged'
    BY <1>1, <2>1 DEF SettledAtBaseline, SettledMeansConverged
  <2> QED BY <1>3, <1>4, <1>5, <1>6, <2>2, <2>3
<1>8. ASSUME NEW t \in tracked, t.id = ack.id, AcknowledgePacket(t)
      PROVE  IInv'
  <2>1. PICK p \in net : /\ p.frame = t.frame
                         /\ DOMAIN p.rec = t.ents
                         /\ \A e \in t.ents : p.frame <= cl[e].frame
    BY <1>8, AckedPacket DEF ReceiveAck
  <2>2. /\ t.frame \in Nat /\ p.frame > 0
        /\ \A e \in Entities : /\ es[e].epoch \in Nat
                               /\ entry[e].dirty \in Nat
                               /\ cl[e].frame \in Nat
    BY <2>1 DEF TypeOK, IsPacket, Tracked, EntityStateType, EntryType, ClientEntity, Frames,
                FlushDiscipline
  <2>3. \A e \in Entities :
          /\ es'[e].mask = es[e].mask
          /\ es'[e].epoch = es[e].epoch
          /\ es'[e].pending \subseteq es[e].pending
          /\ entry'[e].dirty = entry[e].dirty
          /\ \/ /\ es'[e].baseline = es[e].baseline
                /\ entry'[e].queued = entry[e].queued
             \/ /\ e \in t.ents
                /\ es'[e].baseline.frame = t.frame
                /\ \E s \in es[e].pending : /\ s.frame = t.frame
                                            /\ s.epoch = es[e].epoch
                                            /\ s.data = es'[e].baseline.data
                /\ \A s \in es'[e].pending : s.frame > t.frame
                /\ ~entry'[e].queued => ~entry[e].queued \/ entry[e].dirty <= t.frame
    BY <1>8, AckEffect
  <2>4. PendingIsSent'
    BY <1>1, <2>3 DEF PendingIsSent
  <2>5. BaselineIsSent'
    <3> SUFFICES ASSUME NEW e \in Entities, es'[e].baseline.frame # NoFrame
                 PROVE  \E q \in net : /\ SentAs(q, e, es'[e].baseline.frame, es'[e].baseline.data)
                                       /\ es'[e].mask \subseteq q.rec[e].mask
      BY <1>1 DEF BaselineIsSent
    <3>1. CASE es'[e].baseline = es[e].baseline
      BY <2>3, <3>1 DEF BaselineIsSent
    <3>2. CASE es'[e].baseline # es[e].baseline
      <4>1. PICK s \in es[e].pending : /\ s.frame = es'[e].baseline.frame
                                       /\ s.epoch = es[e].epoch
                                       /\ s.data = es'[e].baseline.data
        BY <2>3, <3>2
      <4>2. PICK q \in net : SentAs(q, e, s.frame, s.data) /\ es[e].mask \subseteq q.rec[e].mask
        BY <4>1, PendingPacket
      <4> QED BY <2>3, <4>1, <4>2
    <3> QED BY <3>1, <3>2
  <2>6. DirtyCoversSent'
    BY <1>1, <2>3 DEF DirtyCoversSent, TypeOK, IsPacket
  <2>7. ASSUME NEW e \in Entities, ~entry'[e].queued
        PROVE  /\ es'[e].baseline.frame # NoFrame
               /\ es'[e].baseline.frame = entry[e].dirty
               /\ cl[e].frame = es'[e].baseline.frame
               /\ es'[e].pending = {}
               /\ \A c \in es[e].mask : cl[e].data[c] = world[e][c]
    <3>1. CASE es'[e].baseline = es[e].baseline /\ entry'[e].queued = entry[e].queued
      BY <2>3, <2>7, <3>1 DEF SettledAtBaseline, SettledMeansConverged
    <3>2. CASE /\ e \in t.ents
               /\ es'[e].baseline.frame = t.frame
               /\ \E s \in es[e].pending : /\ s.frame = t.frame
                                           /\ s.epoch = es[e].epoch
                                           /\ s.data = es'[e].baseline.data
               /\ \A s \in es'[e].pending : s.frame > t.frame
               /\ ~entry'[e].queued => ~entry[e].queued \/ entry[e].dirty <= t.frame
      <4>1. p.frame <= entry[e].dirty /\ p.frame <= cl[e].frame
        BY <2>1, <3>2 DEF DirtyCoversSent
      <4>2. PICK q \in net : Carries(q, e, cl[e].frame, cl[e].data)
        BY <2>1, <2>2, <4>1 DEF CurrentIsCarried, NoFrame
      <4>3. cl[e].frame <= entry[e].dirty
        BY <4>2 DEF Carries, DirtyCoversSent
      <4>4. entry[e].dirty <= t.frame
        BY <2>7, <3>2 DEF SettledAtBaseline
      <4>5. p.frame = cl[e].frame /\ p.frame = entry[e].dirty
        BY <2>1, <2>2, <4>1, <4>3, <4>4
      <4>6. p = q
        BY <2>1, <3>2, <4>2, <4>5 DEF PacketsDistinct, Carries
      <4>7. p.rec[e].cur = world[e]
        BY <2>1, <3>2, <4>5 DEF DirtyCoversSent
      <4>8. es[e].mask \subseteq p.rec[e].mask
        <5>1. PICK s \in es[e].pending : s.frame = t.frame /\ s.epoch = es[e].epoch
          BY <3>2
        <5>2. PICK r \in net : SentAs(r, e, s.frame, s.data) /\ es[e].mask \subseteq r.rec[e].mask
          BY <5>1, PendingPacket
        <5>3. r = p
          BY <2>1, <3>2, <5>1, <5>2 DEF SentAs, PacketsDistinct
        <5> QED BY <5>2, <5>3
      <4>9. es'[e].pending = {}
        <5> SUFFICES ASSUME NEW s \in es'[e].pending PROVE FALSE
          OBVIOUS
        <5>1. s \in es[e].pending /\ s.frame \in Nat /\ s.frame > t.frame
          BY <2>3, <3>2 DEF TypeOK, EntityStateType, Sent, Frames
        <5>2. s.frame <= entry[e].dirty
          <6>1. PICK r \in net : SentAs(r, e, s.frame, s.data)
            BY <5>1, PendingPacket
          <6> QED BY <6>1 DEF SentAs, DirtyCoversSent
        <5> QED BY <2>2, <4>4, <5>1, <5>2
      <4> QED BY <4>9, <2>1, <2>2, <3>2, <4>2, <4>5, <4>6, <4>7, <4>8 DEF Carries, NoFrame
    <3> QED BY <2>3, <3>1, <3>2
  <2>8. SettledAtBaseline' /\ SettledMeansConverged'
    BY <1>1, <2>3, <2>7 DEF SettledAtBaseline, SettledMeansConverged
  <2> QED BY <1>3, <1>4, <1>5, <1>6, <2>4, <2>5, <2>6, <2>8
<1> QED BY <1>7, <1>8 DEF ReceiveAck

\* A record that applies decodes to the frame the server wrote, on its mask:
\* a delta's previous bytes are those of the packet it is rooted in.
LEMMA AppliedRecordIsExact ==
    ASSUME IInv, NEW p \in net, NEW e \in DOMAIN p.rec, RecordApplies(cl[e], p.frame, p.rec[e])
    PROVE  Carries(p, e, p.frame, DecodeRecord(cl[e], p.rec[e]))
<1> DEFINE r == p.rec[e]
<1>1. e \in Entities /\ r \in Record /\ p.frame \in Nat
  BY DEF IInv, TypeOK, IsPacket
<1>2. cl[e] \in ClientEntity
  BY <1>1 DEF IInv, TypeOK
<1> SUFFICES ASSUME NEW c \in r.mask
             PROVE  DecodeRecord(cl[e], r)[c] = r.cur[c]
  BY DEF Carries
<1>3. c \in Components
  BY <1>1 DEF Record
<1>4. CASE r.full
  BY <1>3, <1>4 DEF DecodeRecord, DecodeFull, PresentSlots, Present
<1>5. CASE ~r.full
  <2> DEFINE known == FindBaseline(cl[e], r.base)
  <2>1. /\ Present(r.prev) = Present(r.cur)
        /\ \E q \in net : SentAs(q, e, r.base, r.prev) /\ r.mask \subseteq q.rec[e].mask
    BY <1>5 DEF IInv, Bookkeeping, DeltaIsRooted
  <2>2. PICK q \in net : SentAs(q, e, r.base, r.prev) /\ r.mask \subseteq q.rec[e].mask
    BY <2>1
  <2>3. r.base \in Nat /\ r.base # NoFrame
    BY <2>2 DEF IInv, Bookkeeping, FlushDiscipline, TypeOK, IsPacket, SentAs, NoFrame
  <2>4. PICK b \in StoredBaselines(cl[e]) : b.frame = r.base /\ b.data = known
    <3>1. HasBaseline(cl[e], r.base)
      BY <1>5 DEF RecordApplies
    <3>2. RingSlot(r.base) \in 0 .. Retention - 1
      BY <2>3, RingSlotType DEF Frames
    <3> QED BY <2>3, <3>1, <3>2 DEF HasBaseline, FindBaseline, StoredBaselines
  <2>5. PICK s \in net : Carries(s, e, b.frame, b.data)
    BY <1>1 DEF IInv, DecodedExactly
  <2>6. s = q
    BY <2>2, <2>4, <2>5 DEF Carries, SentAs, IInv, Bookkeeping, PacketsDistinct
  <2>7. known[c] = r.prev[c]
    BY <2>2, <2>4, <2>5, <2>6 DEF Carries, SentAs
  <2>8. DecodeDelta(r, known)[c] = r.cur[c]
    <3>1. CASE c \in ChangedMask(r)
      BY <1>3, <2>7, <3>1 DEF DecodeDelta, DecodeComponent
    <3>2. CASE c \notin ChangedMask(r) /\ c \in Present(r.cur)
      BY <1>3, <2>7, <3>2 DEF DecodeDelta, ChangedMask, PresentSlots
    <3>3. CASE c \notin Present(r.cur)
      <4>1. r.cur[c] = Absent /\ r.prev[c] = Absent
        BY <1>3, <2>1, <3>3 DEF Present
      <4>2. c \notin ChangedMask(r)
        BY <3>3 DEF ChangedMask, PresentSlots
      <4> QED BY <1>3, <2>7, <4>1, <4>2 DEF DecodeDelta
    <3> QED BY <3>1, <3>2, <3>3
  <2> QED BY <1>5, <2>8 DEF DecodeRecord
<1> QED BY <1>4, <1>5

\* What applying a record does to the client's entity.
LEMMA ApplyUpsertEffect ==
    ASSUME NEW s \in ClientEntity, NEW f \in Frames, NEW r \in Record
    PROVE  LET t == ApplyUpsert(s, f, r)
           IN  /\ t.frame = f
               /\ t.data = DecodeRecord(s, r)
               /\ StoredBaselines(t) \subseteq StoredBaselines(s) \cup {[frame |-> f, data |-> t.data]}
<1> DEFINE u == ProtectReferencedBaseline(s, r)
           d == DecodeRecord(s, r)
           t == RememberBaseline(u, f, d)
           new == [frame |-> f, data |-> d]
<1>1. u \in ClientEntity /\ u.history = s.history /\ u.pinned = s.pinned
  BY DEF ProtectReferencedBaseline, ClientEntity, Record
<1>2. RingSlot(f) \in 0 .. Retention - 1
  BY RingSlotType
<1> HIDE DEF u, d
<1>3. /\ t.frame = f
      /\ t.data = d
      /\ t.history = [u.history EXCEPT ![RingSlot(f)] = new]
      /\ t.pinned \in {u.pinned, u.history[RingSlot(f)]}
  BY <1>1 DEF RememberBaseline, ClientEntity
<1>4. \A i \in 0 .. Retention - 1 : t.history[i] \in {new, s.history[i]}
  BY <1>1, <1>3 DEF ClientEntity
<1>5. t.pinned = s.pinned \/ \E i \in 0 .. Retention - 1 : t.pinned = s.history[i]
  BY <1>1, <1>2, <1>3
<1> HIDE DEF t, new
<1>6. StoredBaselines(t) \subseteq StoredBaselines(s) \cup {new}
  BY <1>4, <1>5 DEF StoredBaselines
<1>7. ApplyUpsert(s, f, r) = t
  BY DEF ApplyUpsert, t, u, d
<1> QED BY <1>3, <1>6, <1>7 DEF d, new

\* Receiving: the client only moves forward, to states a packet carried, and a
\* settled entity has no newer packet to receive.
LEMMA ReceiveUpdateIInv ==
    ASSUME IInv, TypeOK', NEW packet \in net, ReceiveUpdate(packet)
    PROVE  IInv'
<1> USE DEF IInv, Bookkeeping
<1>1. UNCHANGED <<frame, phase, steps, world, entry, es, todo, tracked, nextId, serial, net>>
  BY DEF ReceiveUpdate, tickVars, serverVars
<1>2. FlushDiscipline'
  BY <1>1 DEF FlushDiscipline
<1>3. (PacketsDistinct /\ DeltaIsRooted)'
  BY <1>1 DEF PacketsDistinct, DeltaIsRooted, SentAs
<1>4. TrackedIsSent' /\ PendingIsSent' /\ BaselineIsSent' /\ DirtyCoversSent'
  BY <1>1 DEF TrackedIsSent, PendingIsSent, BaselineIsSent, DirtyCoversSent
<1>5. packet.frame \in Nat /\ DOMAIN packet.rec \subseteq Entities
  BY DEF TypeOK, IsPacket
<1>6. \A e \in Applied(packet) : /\ e \in DOMAIN packet.rec
                                 /\ packet.rec[e] \in Record
                                 /\ RecordApplies(cl[e], packet.frame, packet.rec[e])
  <2> TAKE e \in Applied(packet)
  <2>1. e \in DOMAIN packet.rec
    BY DEF Applied
  <2> QED BY <2>1 DEF Applied, TypeOK, IsPacket
<1>7. \A e \in Entities :
        IF e \in Applied(packet)
        THEN /\ cl'[e].frame = packet.frame
             /\ cl[e].frame < packet.frame
             /\ Carries(packet, e, cl'[e].frame, cl'[e].data)
             /\ StoredBaselines(cl'[e]) \subseteq
                    StoredBaselines(cl[e]) \cup {[frame |-> cl'[e].frame, data |-> cl'[e].data]}
        ELSE cl'[e] = cl[e]
  <2> TAKE e \in Entities
  <2>1. CASE e \in Applied(packet)
    <3>1. cl'[e] = ApplyUpsert(cl[e], packet.frame, packet.rec[e])
      BY <2>1 DEF ReceiveUpdate
    <3>2. cl[e] \in ClientEntity /\ cl[e].frame \in Nat
      BY DEF TypeOK, ClientEntity, Frames
    <3>3. cl[e].frame < packet.frame
      BY <1>5, <1>6, <2>1, <3>2 DEF RecordApplies
    <3>4. /\ cl'[e].frame = packet.frame
          /\ cl'[e].data = DecodeRecord(cl[e], packet.rec[e])
          /\ StoredBaselines(cl'[e]) \subseteq
                 StoredBaselines(cl[e]) \cup {[frame |-> packet.frame, data |-> cl'[e].data]}
      BY <1>5, <1>6, <2>1, <3>1, <3>2, ApplyUpsertEffect DEF Frames
    <3>5. Carries(packet, e, packet.frame, DecodeRecord(cl[e], packet.rec[e]))
      BY <1>6, <2>1, AppliedRecordIsExact
    <3> QED BY <2>1, <3>3, <3>4, <3>5
  <2>2. CASE e \notin Applied(packet)
    BY <2>2 DEF ReceiveUpdate
  <2> QED BY <2>1, <2>2
<1>8. \A e \in Entities : cl[e].frame \in Nat /\ cl'[e].frame \in Nat /\ cl[e].frame <= cl'[e].frame
  <2>1. \A e \in Entities : cl[e].frame \in Nat /\ cl'[e].frame \in Nat
    BY DEF TypeOK, ClientEntity, Frames
  <2> QED BY <1>5, <1>7, <2>1
<1>9. AcksAreApplied'
  <2> SUFFICES ASSUME NEW a \in acks'
               PROVE  \E p \in net : /\ p.serial = a.serial
                                     /\ p.id = a.id
                                     /\ \A e \in DOMAIN p.rec : p.frame <= cl'[e].frame
    BY <1>1 DEF AcksAreApplied
  <2>1. CASE a \in acks
    <3>1. PICK p \in net : /\ p.serial = a.serial
                           /\ p.id = a.id
                           /\ \A e \in DOMAIN p.rec : p.frame <= cl[e].frame
      BY <2>1 DEF AcksAreApplied
    <3>2. p.frame \in Nat /\ DOMAIN p.rec \subseteq Entities
      BY DEF TypeOK, IsPacket
    <3> QED BY <1>8, <3>1, <3>2
  <2>2. CASE /\ a = [id |-> packet.id, serial |-> packet.serial]
             /\ Applied(packet) = DOMAIN packet.rec
    BY <1>5, <1>7, <2>2
  <2> QED BY <2>1, <2>2 DEF ReceiveUpdate
<1>10. CurrentIsCarried'
  BY <1>1, <1>7 DEF CurrentIsCarried
<1>11. DecodedExactly'
  <2> SUFFICES ASSUME NEW e \in Entities, NEW b \in StoredBaselines(cl'[e])
               PROVE  \E p \in net : Carries(p, e, b.frame, b.data)
    BY <1>1 DEF DecodedExactly
  <2>1. CASE b \in StoredBaselines(cl[e])
    BY <2>1 DEF DecodedExactly
  <2>2. CASE b \notin StoredBaselines(cl[e])
    BY <1>7, <2>2
  <2> QED BY <2>1, <2>2
<1>12. \A e \in Entities : ~entry[e].queued => cl'[e] = cl[e]
  <2> SUFFICES ASSUME NEW e \in Entities, ~entry[e].queued, e \in Applied(packet)
               PROVE  FALSE
    BY <1>7
  <2>1. cl[e].frame < packet.frame /\ cl[e].frame = entry[e].dirty
    BY <1>7 DEF SettledAtBaseline, SettledMeansConverged
  <2>2. packet.frame <= entry[e].dirty
    BY <1>6 DEF DirtyCoversSent
  <2> QED BY <1>5, <1>8, <2>1, <2>2
<1>13. SettledAtBaseline' /\ SettledMeansConverged'
  BY <1>1, <1>12 DEF SettledAtBaseline, SettledMeansConverged
<1> QED BY <1>2, <1>3, <1>4, <1>9, <1>10, <1>11, <1>13

\* The invariant is inductive.
LEMMA NextIInv == IInv /\ [Next]_vars => IInv'
<1> SUFFICES ASSUME IInv, [Next]_vars PROVE IInv'
  OBVIOUS
<1>1. TypeOK'
  BY NextTypeOK DEF IInv
<1>2. CASE Next
  BY <1>1, <1>2, StepIInv, BeginFlushIInv, SendPacketIInv, EndFlushIInv, ReceiveAckIInv,
     ReceiveUpdateIInv DEF Next
<1>3. CASE UNCHANGED vars
  BY <1>1, <1>3 DEF vars, IInv, Bookkeeping, FlushDiscipline, PacketsDistinct, TrackedIsSent,
     AcksAreApplied, PendingIsSent, BaselineIsSent, DeltaIsRooted, CurrentIsCarried,
     DirtyCoversSent, SettledAtBaseline, DecodedExactly, SettledMeansConverged
<1> QED BY <1>2, <1>3

\* The inductive invariant holds in every reachable state.
LEMMA AlwaysIInv == Spec => []IInv
BY InitIInv, NextIInv, PTL DEF Spec

\* No client baseline ever differs from what the server sent under its frame,
\* whatever is lost, duplicated or reordered: apply_update decodes a delta only
\* against the bytes write_entity_record serialized it against.
THEOREM DecodedExactlyAlways == Spec => []DecodedExactly
<1>1. IInv => DecodedExactly
  BY DEF IInv
<1> QED BY <1>1, AlwaysIInv, PTL

\* An entity that acknowledge_entity took off the dirty queue is converged on
\* the client, for every interleaving of changes, sends, losses and ACKs.
THEOREM SettledMeansConvergedAlways == Spec => []SettledMeansConverged
<1>1. IInv => SettledMeansConverged
  BY DEF IInv
<1> QED BY <1>1, AlwaysIInv, PTL

\* The server's selected baseline and the client's copy of that frame agree on
\* every component the next delta may carry.
THEOREM BaselineAgreementAlways == Spec => []BaselineAgreement
<1>1. IInv => BaselineAgreement
  <2> SUFFICES ASSUME IInv, NEW e \in Entities, NEW b \in StoredBaselines(cl[e]),
                      b.frame = es[e].baseline.frame, NEW c \in es[e].mask
               PROVE  b.data[c] = es[e].baseline.data[c]
    BY DEF BaselineAgreement
  <2>1. PICK p \in net : Carries(p, e, b.frame, b.data)
    BY DEF IInv, DecodedExactly
  <2>2. es[e].baseline.frame # NoFrame
    BY DEF StoredBaselines
  <2>3. PICK q \in net : /\ SentAs(q, e, es[e].baseline.frame, es[e].baseline.data)
                         /\ es[e].mask \subseteq q.rec[e].mask
    BY <2>2 DEF IInv, Bookkeeping, BaselineIsSent
  <2>4. p = q
    BY <2>1, <2>3 DEF IInv, Bookkeeping, PacketsDistinct, Carries, SentAs
  <2> QED BY <2>1, <2>3, <2>4 DEF Carries, SentAs
<1> QED BY <1>1, AlwaysIInv, PTL

\* What the bookkeeping of packets, pending frames and baselines rests on holds
\* in every reachable state (client_update_scheduler.cpp, packet_ack.cpp).
THEOREM BookkeepingAlways == Spec => []Bookkeeping
<1>1. IInv => Bookkeeping
  BY DEF IInv
<1> QED BY <1>1, AlwaysIInv, PTL

--------------------------------------------------------------------------------
(***************************************************************************)
(* The dirty queue and the order of baselines.                             *)
(***************************************************************************)

\* The baseline a queue entry compares its dirty frame with was sent.
EntryBaselineSent ==
    \A e \in Entities : entry[e].baseline # NoFrame =>
        \E p \in net : e \in DOMAIN p.rec /\ p.frame = entry[e].baseline

\* What is pending is newer than the baseline.
PendingAfterBaseline ==
    \A e \in Entities : \A s \in es[e].pending : es[e].baseline.frame < s.frame

QueueInv == QueuedIsSchedulable /\ EntryBaselineSent /\ PendingAfterBaseline

\* mark_dirty moves the dirty frame past the baseline it knows.
LEMMA MarkDirtyEffect ==
    ASSUME NEW en \in EntryType, NEW s \in EntityStateType, NEW f \in Frames
    PROVE  LET d == MarkDirty(en, s, f)
           IN  /\ d.listed /\ d.baseline < d.dirty
               /\ d.baseline \in {en.baseline, s.baseline.frame}
BY DEF MarkDirty, EntryType, EntityStateType, ServerBaseline, MaxOf, Frames, NoFrame

LEMMA QueueInit == Init => QueueInv
<1> SUFFICES ASSUME Init PROVE QueueInv
  OBVIOUS
<1>1. \A e \in Entities : /\ entry[e].listed /\ entry[e].baseline < entry[e].dirty
                          /\ entry[e].baseline = NoFrame
  BY DEF Init, MarkDirty, NewEntry, NewEntityState, NoBaseline, MaxOf, NoFrame
<1>2. \A e \in Entities : es[e].pending = {}
  BY DEF Init, NewEntityState
<1> QED BY <1>1, <1>2 DEF QueueInv, QueuedIsSchedulable, EntryBaselineSent, PendingAfterBaseline

LEMMA QueueStep ==
    ASSUME IInv, QueueInv, NEW dirty \in SUBSET Entities,
           NEW next \in [Entities -> ServerData], Step(dirty, next)
    PROVE  QueueInv'
<1>1. UNCHANGED <<es, net>>
  BY DEF Step
<1>2. \A e \in Entities : entry'[e] = IF e \in dirty THEN MarkDirty(entry[e], es[e], frame + 1)
                                      ELSE entry[e]
  BY DEF Step
<1>3. ASSUME NEW e \in dirty
      PROVE  /\ entry'[e].listed /\ entry'[e].baseline < entry'[e].dirty
             /\ entry'[e].baseline \in {entry[e].baseline, es[e].baseline.frame}
  <2>1. entry[e] \in EntryType /\ es[e] \in EntityStateType /\ frame + 1 \in Frames
    BY DEF IInv, TypeOK, Frames
  <2> QED BY <1>2, <2>1, MarkDirtyEffect
<1>4. QueuedIsSchedulable'
  BY <1>2, <1>3 DEF QueueInv, QueuedIsSchedulable
<1>5. EntryBaselineSent'
  <2>1. \A e \in Entities : es[e].baseline.frame # NoFrame =>
          \E p \in net : e \in DOMAIN p.rec /\ p.frame = es[e].baseline.frame
    BY DEF IInv, Bookkeeping, BaselineIsSent, SentAs
  <2> QED BY <1>1, <1>2, <1>3, <2>1 DEF QueueInv, EntryBaselineSent
<1>6. PendingAfterBaseline'
  BY <1>1 DEF QueueInv, PendingAfterBaseline
<1> QED BY <1>4, <1>5, <1>6 DEF QueueInv

\* A flush's new decisions, as far as the queue and the baselines go.
LEMMA BeginFlushEffect ==
    ASSUME IInv, NEW masks \in [Entities -> Masks], BeginFlush(masks)
    PROVE  /\ UNCHANGED <<entry, net>>
           /\ \A e \in Entities :
                /\ es'[e].pending = es[e].pending
                /\ \/ es'[e].epoch = es[e].epoch /\ es'[e].baseline = es[e].baseline
                   \/ es'[e].epoch = es[e].epoch + 1 /\ es'[e].baseline = NoBaseline
<1>1. UNCHANGED <<entry, net>>
  BY DEF BeginFlush
<1>2. ASSUME NEW e \in Entities
      PROVE  /\ es'[e].pending = es[e].pending
             /\ \/ es'[e].epoch = es[e].epoch /\ es'[e].baseline = es[e].baseline
                \/ es'[e].epoch = es[e].epoch + 1 /\ es'[e].baseline = NoBaseline
  <2>1. es[e] \in EntityStateType /\ masks[e] \in SUBSET Components
    BY ReplicationAssumption DEF IInv, TypeOK
  <2>2. CASE IsCandidate(e)
    <3>1. es'[e] = Decide(es[e], masks[e])
      BY <2>2 DEF BeginFlush
    <3> QED BY <2>1, <3>1, DecideEffect
  <2>3. CASE ~IsCandidate(e)
    BY <2>3 DEF BeginFlush
  <2> QED BY <2>2, <2>3
<1> QED BY <1>1, <1>2

LEMMA QueueBeginFlush ==
    ASSUME IInv, QueueInv, NEW masks \in [Entities -> Masks], BeginFlush(masks)
    PROVE  QueueInv'
<1>1. UNCHANGED <<entry, net>>
  BY BeginFlushEffect
<1>2. QueuedIsSchedulable' /\ EntryBaselineSent'
  BY <1>1 DEF QueueInv, QueuedIsSchedulable, EntryBaselineSent
<1>3. PendingAfterBaseline'
  <2> SUFFICES ASSUME NEW e \in Entities, NEW s \in es'[e].pending
               PROVE  es'[e].baseline.frame < s.frame
    BY DEF PendingAfterBaseline
  <2>1. s \in es[e].pending
    BY BeginFlushEffect
  <2>2. es[e].baseline.frame < s.frame
    BY <2>1 DEF QueueInv, PendingAfterBaseline
  <2>3. s.frame > 0
    <3>1. PICK p \in net : SentAs(p, e, s.frame, s.data)
      BY <2>1, PendingPacket DEF IInv, Bookkeeping
    <3> QED BY <3>1 DEF SentAs, IInv, Bookkeeping, FlushDiscipline
  <2>4. es'[e].baseline.frame \in {es[e].baseline.frame, 0}
    BY BeginFlushEffect DEF NoBaseline, NoFrame
  <2> QED BY <2>2, <2>3, <2>4
<1> QED BY <1>2, <1>3 DEF QueueInv

\* What sending a packet does to the queue entries and the entity states.
LEMMA SendPacketEffect ==
    ASSUME IInv, NEW batch \in SUBSET Entities, NEW pos, SendPacket(batch, pos)
    PROVE  /\ frame > 0 /\ net \subseteq net'
           /\ \A e \in batch : \A p \in net : e \in DOMAIN p.rec => p.frame < frame
           /\ \A e \in Entities :
                IF e \in batch
                THEN /\ entry'[e] = [entry[e] EXCEPT !.dirty = frame]
                     /\ \A s \in es'[e].pending : s \in es[e].pending \/ s.frame = frame
                     /\ \/ es'[e].epoch = es[e].epoch /\ es'[e].baseline = es[e].baseline
                        \/ es'[e].epoch = es[e].epoch + 1 /\ es'[e].baseline = NoBaseline
                ELSE entry'[e] = entry[e] /\ es'[e] = es[e]
<1>1. frame > 0 /\ net \subseteq net' /\ batch \subseteq todo
  BY DEF SendPacket, IInv, Bookkeeping, FlushDiscipline
<1>2. \A e \in batch : \A p \in net : e \in DOMAIN p.rec => p.frame < frame
  BY <1>1 DEF IInv, Bookkeeping, FlushDiscipline
<1>3. \A e \in Entities \ batch : entry'[e] = entry[e] /\ es'[e] = es[e]
  BY DEF SendPacket
<1>4. ASSUME NEW e \in batch
      PROVE  /\ entry'[e] = [entry[e] EXCEPT !.dirty = frame]
             /\ \A s \in es'[e].pending : s \in es[e].pending \/ s.frame = frame
             /\ \/ es'[e].epoch = es[e].epoch /\ es'[e].baseline = es[e].baseline
                \/ es'[e].epoch = es[e].epoch + 1 /\ es'[e].baseline = NoBaseline
  <2>1. entry'[e] = [entry[e] EXCEPT !.dirty = frame]
    BY DEF SendPacket
  <2>2. es'[e] = RecordSent(es[e], SerializedRecord(e), frame)
    BY DEF SendPacket
  <2>3. es[e] \in EntityStateType /\ frame \in Frames /\ SerializedRecord(e) \in Record
    BY WriteEntityRecordType DEF IInv, TypeOK, EntityStateType, SerializedRecord
  <2> QED BY <2>1, <2>2, <2>3, RecordSentEffect
<1> QED BY <1>1, <1>2, <1>3, <1>4

LEMMA QueueSendPacket ==
    ASSUME IInv, QueueInv, NEW batch \in SUBSET Entities, NEW pos, SendPacket(batch, pos)
    PROVE  QueueInv'
<1>0. frame \in Nat /\ frame > 0
  BY SendPacketEffect DEF IInv, TypeOK, Frames
<1>1. QueuedIsSchedulable'
  <2> SUFFICES ASSUME NEW e \in Entities, entry'[e].queued
               PROVE  entry'[e].listed /\ entry'[e].baseline < entry'[e].dirty
    BY DEF QueuedIsSchedulable
  <2>1. CASE e \in batch
    <3>1. entry'[e] = [entry[e] EXCEPT !.dirty = frame] /\ entry[e] \in EntryType
      BY <2>1, SendPacketEffect DEF IInv, TypeOK
    <3>2. /\ entry'[e].queued = entry[e].queued /\ entry'[e].listed = entry[e].listed
          /\ entry'[e].baseline = entry[e].baseline /\ entry'[e].dirty = frame
      BY <3>1 DEF EntryType
    <3>3. entry[e].baseline < frame
      <4>1. CASE entry[e].baseline = NoFrame
        BY <1>0, <4>1 DEF NoFrame
      <4>2. CASE entry[e].baseline # NoFrame
        <5>1. PICK p \in net : e \in DOMAIN p.rec /\ p.frame = entry[e].baseline
          BY <4>2 DEF QueueInv, EntryBaselineSent
        <5> QED BY <2>1, <5>1, SendPacketEffect
      <4> QED BY <4>1, <4>2
    <3> QED BY <3>2, <3>3 DEF QueueInv, QueuedIsSchedulable
  <2>2. CASE e \notin batch
    BY <2>2, SendPacketEffect DEF QueueInv, QueuedIsSchedulable
  <2> QED BY <2>1, <2>2
<1>2. EntryBaselineSent'
  <2>1. \A e \in Entities : entry'[e].baseline = entry[e].baseline
    <3> TAKE e \in Entities
    <3>1. entry[e] \in EntryType
      BY DEF IInv, TypeOK
    <3>2. \/ entry'[e] = [entry[e] EXCEPT !.dirty = frame]
          \/ entry'[e] = entry[e]
      BY SendPacketEffect
    <3> QED BY <3>1, <3>2 DEF EntryType
  <2>2. net \subseteq net'
    BY SendPacketEffect
  <2> QED BY <2>1, <2>2 DEF QueueInv, EntryBaselineSent
<1>3. PendingAfterBaseline'
  <2> SUFFICES ASSUME NEW e \in Entities, NEW s \in es'[e].pending
               PROVE  es'[e].baseline.frame < s.frame
    BY DEF PendingAfterBaseline
  <2>1. CASE e \in batch
    <3>1. es'[e].baseline.frame \in {es[e].baseline.frame, 0}
      <4>1. es'[e].baseline \in {es[e].baseline, NoBaseline}
        BY <2>1, SendPacketEffect
      <4> QED BY <4>1 DEF NoBaseline, NoFrame
    <3>2. CASE s \in es[e].pending
      <4>1. es[e].baseline.frame < s.frame
        BY <3>2 DEF QueueInv, PendingAfterBaseline
      <4>2. PICK p \in net : SentAs(p, e, s.frame, s.data)
        BY <3>2, PendingPacket DEF IInv, Bookkeeping
      <4>3. s.frame > 0
        BY <4>2 DEF SentAs, IInv, Bookkeeping, FlushDiscipline
      <4> QED BY <3>1, <4>1, <4>3
    <3>3. CASE s.frame = frame
      <4>1. CASE es[e].baseline.frame = NoFrame
        BY <1>0, <3>1, <3>3, <4>1 DEF NoFrame
      <4>2. CASE es[e].baseline.frame # NoFrame
        <5>1. PICK p \in net : SentAs(p, e, es[e].baseline.frame, es[e].baseline.data)
          BY <4>2 DEF IInv, Bookkeeping, BaselineIsSent
        <5>2. es[e].baseline.frame < frame
          BY <2>1, <5>1, SendPacketEffect DEF SentAs
        <5> QED BY <1>0, <3>1, <3>3, <5>2
      <4> QED BY <4>1, <4>2
    <3> QED BY <2>1, <3>2, <3>3, SendPacketEffect
  <2>2. CASE e \notin batch
    BY <2>2, SendPacketEffect DEF QueueInv, PendingAfterBaseline
  <2> QED BY <2>1, <2>2
<1> QED BY <1>1, <1>2, <1>3 DEF QueueInv

LEMMA QueueAck ==
    ASSUME IInv, QueueInv, NEW ack \in acks, ReceiveAck(ack)
    PROVE  QueueInv'
<1>1. net' = net
  BY DEF ReceiveAck
<1>2. CASE IgnoreAck
  BY <1>1, <1>2 DEF IgnoreAck, QueueInv, QueuedIsSchedulable, EntryBaselineSent,
                    PendingAfterBaseline
<1>3. ASSUME NEW t \in tracked, AcknowledgePacket(t) PROVE QueueInv'
  <2> DEFINE Kept(e) == /\ es'[e].baseline = es[e].baseline
                        /\ entry'[e].queued = entry[e].queued
                        /\ entry'[e].baseline = entry[e].baseline
             Moved(e) == /\ e \in t.ents
                         /\ es'[e].baseline.frame = t.frame
                         /\ \A s \in es'[e].pending : s.frame > t.frame
                         /\ entry'[e].queued => entry[e].queued /\ t.frame < entry[e].dirty
                         /\ entry'[e].baseline = t.frame
  <2>1. \A e \in Entities : /\ es'[e].pending \subseteq es[e].pending
                            /\ entry'[e].dirty = entry[e].dirty
                            /\ entry'[e].listed = entry[e].listed
                            /\ Kept(e) \/ Moved(e)
    BY <1>3, AckEffect DEF IInv
  <2>2. t.frame \in Nat /\ \E p \in net : p.frame = t.frame /\ DOMAIN p.rec = t.ents
    BY DEF IInv, TypeOK, Tracked, Frames, Bookkeeping, TrackedIsSent
  <2>3. QueuedIsSchedulable'
    BY <2>1 DEF QueueInv, QueuedIsSchedulable
  <2>4. EntryBaselineSent'
    BY <1>1, <2>1, <2>2 DEF QueueInv, EntryBaselineSent
  <2>5. PendingAfterBaseline'
    <3> SUFFICES ASSUME NEW e \in Entities, NEW s \in es'[e].pending
                 PROVE  es'[e].baseline.frame < s.frame
      BY DEF PendingAfterBaseline
    <3>1. s \in es[e].pending /\ s.frame \in Nat
      BY <2>1 DEF IInv, TypeOK, EntityStateType, Sent, Frames
    <3>2. CASE Kept(e)
      BY <3>1, <3>2 DEF QueueInv, PendingAfterBaseline
    <3>3. CASE Moved(e)
      BY <2>2, <3>1, <3>3
    <3> QED BY <2>1, <3>2, <3>3
  <2> QED BY <2>3, <2>4, <2>5 DEF QueueInv
<1> QED BY <1>2, <1>3 DEF ReceiveAck

LEMMA QueueNext == IInv /\ QueueInv /\ [Next]_vars => QueueInv'
<1> SUFFICES ASSUME IInv, QueueInv, [Next]_vars PROVE QueueInv'
  OBVIOUS
<1>1. CASE EndFlush
  <2>1. UNCHANGED <<es, net>>
    BY <1>1 DEF EndFlush
  <2>2. \A e \in Entities : /\ entry'[e].baseline = entry[e].baseline
                            /\ entry'[e].dirty = entry[e].dirty
                            /\ entry'[e].queued = entry[e].queued
                            /\ entry[e].queued /\ entry[e].listed => entry'[e].listed
    BY <1>1 DEF EndFlush, IInv, TypeOK, EntryType
  <2> QED BY <2>1, <2>2 DEF QueueInv, QueuedIsSchedulable, EntryBaselineSent,
                            PendingAfterBaseline
<1>2. ASSUME NEW packet \in net, ReceiveUpdate(packet) PROVE QueueInv'
  BY <1>2 DEF ReceiveUpdate, serverVars, QueueInv, QueuedIsSchedulable, EntryBaselineSent,
              PendingAfterBaseline
<1>3. CASE UNCHANGED vars
  BY <1>3 DEF vars, QueueInv, QueuedIsSchedulable, EntryBaselineSent, PendingAfterBaseline
<1> QED BY <1>1, <1>2, <1>3, QueueStep, QueueBeginFlush, QueueSendPacket, QueueAck DEF Next

LEMMA AlwaysQueueInv == Spec => []QueueInv
BY AlwaysIInv, QueueInit, QueueNext, PTL DEF Spec

\* A queued entity is listed and its dirty frame is past its baseline, so that
\* send_client takes it up again: no change waits for another change.
THEOREM QueuedIsSchedulableAlways == Spec => []QueuedIsSchedulable
<1>1. QueueInv => QueuedIsSchedulable
  BY DEF QueueInv
<1> QED BY <1>1, AlwaysQueueInv, PTL

\* What one step may do to one entity's baseline.
BaselineStep(e) ==
    /\ es'[e].epoch >= es[e].epoch
    /\ es'[e].baseline.frame # NoFrame /\ es'[e].epoch = es[e].epoch
           => es'[e].baseline.frame >= es[e].baseline.frame
    /\ es[e].baseline.frame = NoFrame /\ es'[e].baseline.frame # NoFrame
           => \E p \in net : p.frame = es'[e].baseline.frame /\ e \in DOMAIN p.rec
                             /\ es[e].mask \subseteq p.rec[e].mask

\* A step that keeps a baseline, or gives it up for a new epoch.
LEMMA KeptOrInvalidated ==
    ASSUME TypeOK, NEW e \in Entities,
           \/ es'[e].epoch = es[e].epoch /\ es'[e].baseline = es[e].baseline
           \/ es'[e].epoch = es[e].epoch + 1 /\ es'[e].baseline = NoBaseline
    PROVE  BaselineStep(e)
<1>1. es[e].epoch \in Nat /\ es[e].baseline.frame \in Nat
  BY DEF TypeOK, EntityStateType, ServerBaseline, Frames
<1> QED BY <1>1 DEF BaselineStep, NoBaseline

\* A step of an ACK that selects a new baseline.
LEMMA AckBaselineStep ==
    ASSUME IInv, QueueInv, NEW t \in tracked, AcknowledgePacket(t), NEW e \in Entities
    PROVE  BaselineStep(e)
<1>1. es[e].epoch \in Nat /\ es[e].baseline.frame \in Nat
  BY DEF IInv, TypeOK, EntityStateType, ServerBaseline, Frames
<1>2. es'[e].epoch = es[e].epoch
  BY AckEffect DEF IInv
<1>3. CASE es'[e].baseline = es[e].baseline
  BY <1>2, <1>3, KeptOrInvalidated DEF IInv
<1>4. CASE es'[e].baseline # es[e].baseline
  <2>1. PICK s \in es[e].pending : /\ s.frame = es'[e].baseline.frame
                                   /\ s.epoch = es[e].epoch
    BY <1>4, AckEffect DEF IInv
  <2>2. es[e].baseline.frame < s.frame /\ s.frame \in Nat
    BY <2>1 DEF QueueInv, PendingAfterBaseline, IInv, TypeOK, EntityStateType, Sent, Frames
  <2>3. PICK p \in net : SentAs(p, e, s.frame, s.data) /\ es[e].mask \subseteq p.rec[e].mask
    BY <2>1, PendingPacket DEF IInv, Bookkeeping
  <2> QED BY <1>1, <1>2, <2>1, <2>2, <2>3 DEF BaselineStep, SentAs
<1> QED BY <1>3, <1>4

\* An ACK, however late or out of order, never moves a baseline back within an
\* epoch, and after an invalidation only a frame sent with the current mask
\* becomes the baseline (acknowledge_entity, invalidate_entity_baseline).
THEOREM BaselineNeverRegressesAlways == Spec => BaselineNeverRegresses
<1>1. ASSUME IInv, QueueInv, [Next]_vars, NEW e \in Entities
      PROVE  BaselineStep(e)
  <2> USE DEF IInv
  <2>1. CASE es' = es
    BY <1>1, <2>1, KeptOrInvalidated
  <2>2. ASSUME NEW dirty \in SUBSET Entities, NEW next, Step(dirty, next) PROVE es' = es
    BY <2>2 DEF Step
  <2>3. ASSUME NEW masks \in [Entities -> Masks], BeginFlush(masks) PROVE BaselineStep(e)
    BY <1>1, <2>3, BeginFlushEffect, KeptOrInvalidated
  <2>4. ASSUME NEW batch \in SUBSET Entities, NEW pos, SendPacket(batch, pos)
        PROVE  BaselineStep(e)
    BY <1>1, <2>4, SendPacketEffect, KeptOrInvalidated
  <2>5. CASE EndFlush
    BY <1>1, <2>1, <2>5 DEF EndFlush
  <2>6. ASSUME NEW ack \in acks, ReceiveAck(ack) PROVE BaselineStep(e)
    BY <1>1, <2>1, <2>6, AckBaselineStep DEF ReceiveAck, IgnoreAck
  <2>7. ASSUME NEW packet \in net, ReceiveUpdate(packet) PROVE es' = es
    BY <2>7 DEF ReceiveUpdate, serverVars
  <2>8. CASE UNCHANGED vars
    BY <2>1, <2>8 DEF vars
  <2> HIDE DEF IInv
  <2> QED BY <1>1, <2>1, <2>2, <2>3, <2>4, <2>5, <2>6, <2>7, <2>8 DEF Next
<1>2. IInv /\ QueueInv /\ [Next]_vars => [\A e \in Entities : BaselineStep(e)]_vars
  BY <1>1
<1> QED BY <1>2, AlwaysIInv, AlwaysQueueInv, PTL DEF Spec, BaselineNeverRegresses, BaselineStep

================================================================================
