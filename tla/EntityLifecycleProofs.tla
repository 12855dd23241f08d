------------------------- MODULE EntityLifecycleProofs -------------------------
(* Theorems about EntityLifecycle and the tombstones of EntityStore for every   *)
(* value of their constants.                                                    *)
EXTENDS MCEntityLifecycle, NaturalFacts, FiniteSetTheorems, TLAPS

\* An entity that is not replicated holds no network id.
Idle == \A e \in Entities \ active : es[e].id = NoId

IdInv == TypeOK /\ Idle /\ IdsPartitioned

--------------------------------------------------------------------------------
(* Facts about the operators. *)

\* A set of network ids is finite.
LEMMA IdsFinite ==
    ASSUME NEW S \in SUBSET NetworkIds
    PROVE  IsFiniteSet(S) /\ Cardinality(S) \in Nat
<1>1. IsFiniteSet(NetworkIds)
  BY LifecycleAssumption, FS_Interval DEF NetworkIds
<1> QED BY <1>1, FS_Subset, FS_CardinalityType

\* Deactivating entities queues well-formed destroys and clears their states.
LEMMA DeactivateType ==
    ASSUME TypeOK, NEW gone \in SUBSET active, NEW now \in Nat, Deactivate(gone, now)
    PROVE  /\ es' \in [Entities -> EntityState]
           /\ condemned' \subseteq NetworkIds
           /\ destroys' \subseteq Destroy
<1>1. NewEntityState \in EntityState
  BY DEF NewEntityState, EntityState, NoFrame
<1>2. es' \in [Entities -> EntityState]
  BY <1>1 DEF Deactivate, TypeOK
<1>3. \A e \in gone : es[e].id # NoId => es[e].id \in NetworkIds
  BY DEF TypeOK, EntityState
<1>4. condemned' \subseteq NetworkIds
  BY <1>3 DEF Deactivate, TypeOK
<1>5. \A e \in gone : Life(e) \in Lives
  BY DEF TypeOK, Life, Lives
<1>6. destroys' \subseteq Destroy
  BY <1>3, <1>5 DEF Deactivate, TypeOK, Destroy
<1> QED BY <1>2, <1>4, <1>6

\* The ids of deactivated entities move from the held to the condemned ones.
LEMMA DeactivateIds ==
    ASSUME IdInv, NEW gone \in SUBSET active, NEW now \in Nat, Deactivate(gone, now),
           NEW started \in SUBSET Entities, started \cap active = {},
           active' = (active \ gone) \cup started,
           UNCHANGED <<allocated, free>>
    PROVE  Idle' /\ IdsPartitioned'
<1> DEFINE known == {e \in gone : es[e].id # NoId}
           K == {es[e].id : e \in known}
<1>1. \A e \in Entities : es'[e] = IF e \in gone THEN NewEntityState ELSE es[e]
  BY DEF Deactivate
<1>2. \A e \in Entities : es'[e].id = IF e \in gone THEN NoId ELSE es[e].id
  BY <1>1 DEF NewEntityState
<1>3. active \subseteq Entities /\ gone \subseteq Entities
  BY DEF IdInv, TypeOK
<1>4. \A e \in started : es[e].id = NoId /\ e \notin gone
  BY <1>3 DEF IdInv, Idle
<1>5. Idle'
  BY <1>2, <1>3 DEF IdInv, Idle
<1>6. \A e, g \in active : es[e].id = es[g].id /\ es[e].id # NoId => e = g
  BY DEF IdInv, IdsPartitioned
<1>7. Held' = Held \ K
  BY <1>2, <1>3, <1>4, <1>6 DEF Held
<1>8. K \subseteq Held
  BY DEF Held
<1>9. condemned' = condemned \cup K
  BY DEF Deactivate
<1>10. destroys' = destroys \cup
         {[who |-> Life(e), id |-> es[e].id, born |-> now, frame |-> now] : e \in known}
  BY DEF Deactivate
<1>11. /\ 1 .. allocated = Held \cup condemned \cup free
       /\ Held \cap condemned = {}
       /\ Held \cap free = {}
       /\ condemned \cap free = {}
       /\ condemned = {d.id : d \in destroys}
       /\ \A d, x \in destroys : d.id = x.id => d = x
  BY DEF IdInv, IdsPartitioned
<1> HIDE DEF K
<1>12. /\ 1 .. allocated' = Held' \cup condemned' \cup free'
       /\ Held' \cap condemned' = {}
       /\ Held' \cap free' = {}
       /\ condemned' \cap free' = {}
  BY <1>7, <1>8, <1>9, <1>11
<1>13. \A d \in destroys' : \/ d \in destroys /\ d.id \in condemned
                            \/ \E e \in known : /\ d = [who |-> Life(e), id |-> es[e].id,
                                                        born |-> now, frame |-> now]
                                                /\ d.id = es[e].id /\ d.id \in K
  BY <1>10, <1>11 DEF K
<1>14. condemned' = {d.id : d \in destroys'}
  <2>1. ASSUME NEW n \in condemned  PROVE \E d \in destroys' : d.id = n
    <3>1. PICK d \in destroys : n = d.id
      BY <1>11
    <3> QED BY <3>1, <1>10
  <2>2. ASSUME NEW n \in K  PROVE \E d \in destroys' : d.id = n
    <3>1. PICK e \in known : n = es[e].id
      BY DEF K
    <3> DEFINE d == [who |-> Life(e), id |-> es[e].id, born |-> now, frame |-> now]
    <3>2. d \in destroys'
      BY <1>10
    <3>3. d.id = n
      BY <3>1
    <3> QED BY <3>2, <3>3
  <2> QED BY <2>1, <2>2, <1>13, <1>9
<1>15. \A d, x \in destroys' : d.id = x.id => d = x
  BY <1>13, <1>11, <1>8, <1>6, <1>3
<1>16. \A e, g \in active' : es'[e].id = es'[g].id /\ es'[e].id # NoId => e = g
  BY <1>2, <1>3, <1>4, <1>6
<1> QED BY <1>5, <1>12, <1>14, <1>15, <1>16 DEF IdsPartitioned

--------------------------------------------------------------------------------
(* Type correctness. *)

\* The initial state is well typed.
LEMMA InitTypeOK == Init => TypeOK
<1> SUFFICES ASSUME Init PROVE TypeOK
  OBVIOUS
<1>1. NewEntityState \in EntityState
  BY DEF NewEntityState, EntityState, NoFrame
<1>2. NewWireState \in WireState
  BY DEF NewWireState, WireState, NoFrame
<1>3. allocated \in 0 .. MaxNetworkId
  BY LifecycleAssumption DEF Init
<1> QED BY <1>1, <1>2, <1>3 DEF Init, TypeOK

\* Every id a flush sends is a network id, and the ids stay within the limit.
LEMMA FlushIds ==
    ASSUME TypeOK, NEW serialized \in SUBSET active,
           NEW ids \in [Unnamed(serialized) -> NetworkIds], AllocatesIds(ids)
    PROVE  LET used == {ids[e] : e \in DOMAIN ids}
           IN  /\ used \subseteq NetworkIds
               /\ Cardinality(used \ free) \in Nat
               /\ allocated + Cardinality(used \ free) \in 0 .. MaxNetworkId
               /\ \A e \in serialized : WireId(e, ids) \in NetworkIds
               /\ \A e \in Entities : WireId(e, ids) \in NetworkIds \cup {NoId}
<1> DEFINE used == {ids[e] : e \in DOMAIN ids}
           k == Cardinality(used \ free)
<1>1. used \subseteq NetworkIds
  OBVIOUS
<1>2. k \in Nat
  BY <1>1, IdsFinite
<1>3. used \ free = allocated + 1 .. allocated + k
  BY DEF AllocatesIds
<1> HIDE DEF used, k
<1>4. allocated \in 0 .. MaxNetworkId /\ MaxNetworkId \in Nat
  BY LifecycleAssumption DEF TypeOK
<1>5. allocated + k \in 0 .. MaxNetworkId
  <2>1. CASE k = 0
    BY <2>1, <1>4
  <2>2. CASE k # 0
    <3>1. allocated + k \in allocated + 1 .. allocated + k
      BY <2>2, <1>2, <1>4
    <3>2. allocated + k \in NetworkIds
      BY <3>1, <1>3, <1>1
    <3> QED BY <3>2, <1>4 DEF NetworkIds
  <2> QED BY <2>1, <2>2
<1>6. \A e \in Entities : es[e].id \in NetworkIds \cup {NoId}
  BY DEF TypeOK, EntityState
<1>7. active \subseteq Entities
  BY DEF TypeOK
<1>8. \A e \in serialized : WireId(e, ids) \in NetworkIds
  BY <1>6, <1>7 DEF WireId, Unnamed
<1>9. \A e \in Entities : WireId(e, ids) \in NetworkIds \cup {NoId}
  BY <1>6 DEF WireId
<1> QED BY <1>1, <1>2, <1>5, <1>8, <1>9 DEF used, k

\* A flush sends well-formed records.
LEMMA FlushRecordsType ==
    ASSUME TypeOK, NEW resent \in SUBSET destroys, NEW serialized \in SUBSET active,
           NEW sent \in SUBSET serialized,
           NEW ids \in [Unnamed(serialized) -> NetworkIds], AllocatesIds(ids)
    PROVE  FlushRecords(resent, sent, ids) \subseteq Rec
<1>1. \A d \in resent : DestroyRecord(d) \in Rec
  BY DEF TypeOK, Destroy, DestroyRecord, Rec, NoFrame
<1>2. ASSUME NEW e \in sent  PROVE UpsertRecord(e, WireId(e, ids)) \in Rec
  <2>1. WireId(e, ids) \in NetworkIds
    BY FlushIds
  <2>2. Life(e) \in Lives /\ es[e].baseline \in Nat
    BY DEF TypeOK, Life, Lives, EntityState
  <2> QED BY <2>1, <2>2 DEF UpsertRecord, Rec
<1> QED BY <1>1, <1>2 DEF FlushRecords

\* The client's state of a wire id stays well formed.
LEMMA AppliedType ==
    ASSUME NEW w \in WireState, NEW r \in Rec, NEW f \in Nat
    PROVE  /\ AppliedRecord(w, r, f) \in WireState
           /\ RejectedRecord(w, r) \in WireState
<1>1. AppliedDestroy(w, f) \in WireState
  <2> DEFINE v == IF Alive(w) \/ w.tombstone = NoFrame THEN AdvancedVersion(w) ELSE w.version
             t == IF f > w.tombstone THEN f ELSE w.tombstone
  <2>1. v \in Nat /\ t \in Nat
    BY DEF WireState, AdvancedVersion
  <2>2. NewWireState \in WireState
    BY DEF NewWireState, WireState, NoFrame
  <2>3. AppliedDestroy(w, f) = [NewWireState EXCEPT !.version = v, !.tombstone = t]
    BY DEF AppliedDestroy
  <2> HIDE DEF v, t
  <2> QED BY <2>1, <2>2, <2>3 DEF WireState
<1>2. AppliedUpsert(w, r, f) \in WireState
  BY DEF AppliedUpsert, WireState, EnsuredVersion, NoFrame, Rec
<1>3. RejectedRecord(w, r) \in WireState
  BY DEF RejectedRecord, WireState, EnsuredVersion
<1> QED BY <1>1, <1>2, <1>3 DEF AppliedRecord

\* An acknowledged frame leaves an entity state well formed and its id alone.
LEMMA AckStateType ==
    ASSUME NEW s \in EntityState, NEW f \in Nat
    PROVE  AckState(s, f) \in EntityState /\ AckState(s, f).id = s.id
BY DEF AckState, EntityState

--------------------------------------------------------------------------------
\* Every action keeps the types.
LEMMA NextTypeOK == TypeOK /\ [Next]_vars => TypeOK'
<1> SUFFICES ASSUME TypeOK, [Next]_vars PROVE TypeOK'
  OBVIOUS
<1>1. ASSUME NEW stopped \in SUBSET Entities, NEW started \in SUBSET Entities,
             Step(stopped, started)
      PROVE  TypeOK'
  <2>1. frame + 1 \in Nat /\ stopped \in SUBSET active
    BY <1>1 DEF Step, TypeOK
  <2>2. Deactivate(stopped, frame + 1)
    BY <1>1 DEF Step
  <2>3. /\ es' \in [Entities -> EntityState]
        /\ condemned' \subseteq NetworkIds
        /\ destroys' \subseteq Destroy
    BY <2>1, <2>2, DeactivateType
  <2>4. lives' \in [Entities -> Nat]
    BY <1>1 DEF Step, TypeOK
  <2> QED BY <1>1, <2>1, <2>3, <2>4 DEF Step, TypeOK
<1>2. ASSUME NEW gone \in SUBSET Entities, BeginFlush(gone)
      PROVE  TypeOK'
  <2>1. frame \in Nat /\ gone \in SUBSET active /\ Deactivate(gone, frame)
    BY <1>2 DEF BeginFlush, TypeOK
  <2>2. /\ es' \in [Entities -> EntityState]
        /\ condemned' \subseteq NetworkIds
        /\ destroys' \subseteq Destroy
    BY <2>1, DeactivateType
  <2> QED BY <1>2, <2>2 DEF BeginFlush, TypeOK
<1>3. ASSUME NEW resent \in SUBSET destroys, NEW serialized \in SUBSET active,
             NEW sent \in SUBSET serialized,
             NEW ids \in [Unnamed(serialized) -> NetworkIds],
             NEW pos \in Orders(FlushRecords(resent, sent, ids)),
             Flush(resent, sent, ids, pos)
      PROVE  TypeOK'
  <2> DEFINE used   == {ids[e] : e \in DOMAIN ids}
             packet == [frame |-> frame, recs |-> FlushRecords(resent, sent, ids), pos |-> pos]
  <2>1. AllocatesIds(ids)
    BY <1>3 DEF Flush
  <2>2. allocated + Cardinality(used \ free) \in 0 .. MaxNetworkId
    BY <2>1, FlushIds
  <2>3. allocated' \in 0 .. MaxNetworkId
    BY <1>3, <2>2 DEF Flush
  <2>4. packet.recs \subseteq Rec /\ packet.frame \in Nat
    BY <2>1, FlushRecordsType DEF TypeOK
  <2>5. packet.pos \in [packet.recs -> Nat]
    BY DEF Orders
  <2>6. \A p \in net' : p.frame \in Nat /\ p.recs \subseteq Rec /\ p.pos \in [p.recs -> Nat]
    <3>1. net' \subseteq net \cup {packet}
      BY <1>3 DEF Flush
    <3> HIDE DEF packet
    <3> QED BY <3>1, <2>4, <2>5 DEF TypeOK
  <2>7. tracked' \subseteq net'
    <3>1. CASE packet.recs = {}
      BY <1>3, <3>1 DEF Flush, TypeOK
    <3>2. CASE packet.recs # {}
      <4>1. net' = net \cup {packet} /\ tracked' = TrackPacket(packet)
        BY <1>3, <3>2 DEF Flush
      <4>2. TrackPacket(packet) \subseteq tracked \cup {packet}
        BY DEF TrackPacket
      <4> QED BY <4>1, <4>2 DEF TypeOK
    <3> QED BY <3>1, <3>2
  <2>8. acks' \subseteq net'
    BY <1>3 DEF Flush, TypeOK
  <2>9. ASSUME NEW e \in Entities
        PROVE  [es[e] EXCEPT !.id = WireId(e, ids),
                             !.pending = IF e \in sent THEN @ \cup {frame} ELSE @] \in EntityState
    <3>1. WireId(e, ids) \in NetworkIds \cup {NoId}
      BY <2>1, FlushIds
    <3>2. es[e] \in EntityState /\ frame \in Nat
      BY DEF TypeOK
    <3> DEFINE q == IF e \in sent THEN es[e].pending \cup {frame} ELSE es[e].pending
    <3>3. q \in SUBSET Nat
      BY <3>2 DEF EntityState
    <3> HIDE DEF q
    <3>4. [es[e] EXCEPT !.id = WireId(e, ids), !.pending = q] \in EntityState
      BY <3>1, <3>2, <3>3 DEF EntityState
    <3> QED BY <3>4 DEF q
  <2>10. es' \in [Entities -> EntityState]
    BY <1>3, <2>9 DEF Flush
  <2>11. destroys' \subseteq Destroy
    <3>1. \A d \in destroys : d \in Destroy /\ [d EXCEPT !.frame = frame] \in Destroy
      BY DEF TypeOK, Destroy
    <3> QED BY <1>3, <3>1 DEF Flush
  <2>12. free' \subseteq NetworkIds
    BY <1>3 DEF Flush, TypeOK
  <2>13. phase' \in {"inbound", "stepping", "sending"}
    BY <1>3 DEF Flush
  <2> HIDE DEF used, packet
  <2> QED
    BY <1>3, <2>3, <2>6, <2>7, <2>8, <2>10, <2>11, <2>12, <2>13 DEF Flush, TypeOK
<1>4. ASSUME NEW p \in acks, ReceiveAck(p)
      PROVE  TypeOK'
  <2>1. p \in net /\ p.frame \in Nat
    BY DEF TypeOK
  <2>2. es' \in [Entities -> EntityState]
    BY <1>4, <2>1, AckStateType DEF ReceiveAck, TypeOK
  <2>3. version' \in [NetworkIds -> Nat]
    BY <1>4 DEF ReceiveAck, TypeOK
  <2>4. free' \subseteq NetworkIds /\ condemned' \subseteq NetworkIds
    BY <1>4 DEF ReceiveAck, FreedIds, TypeOK
  <2>5. tracked' \subseteq net' /\ destroys' \subseteq Destroy
    BY <1>4 DEF ReceiveAck, TypeOK
  <2> QED BY <1>4, <2>2, <2>3, <2>4, <2>5 DEF ReceiveAck, TypeOK
<1>5. ASSUME NEW p \in net, ReceiveUpdate(p)
      PROVE  TypeOK'
  <2>1. p.frame \in Nat /\ p.recs \subseteq Rec /\ Reached(p) \subseteq p.recs
    BY DEF TypeOK, Reached
  <2>2. ASSUME NEW n \in NetworkIds  PROVE cl'[n] \in WireState
    <3>1. cl[n] \in WireState
      BY DEF TypeOK
    <3>2. CASE \E r \in Reached(p) : r.id = n
      <4> DEFINE r == CHOOSE s \in Reached(p) : s.id = n
      <4>1. r \in Rec
        BY <3>2, <2>1
      <4>2. cl'[n] \in {AppliedRecord(cl[n], r, p.frame), RejectedRecord(cl[n], r)}
        BY <1>5, <3>2 DEF ReceiveUpdate
      <4> HIDE DEF r
      <4> QED BY <4>1, <4>2, <3>1, <2>1, AppliedType
    <3>3. CASE ~(\E r \in Reached(p) : r.id = n)
      <4>1. cl'[n] = cl[n]
        BY <1>5, <3>3 DEF ReceiveUpdate
      <4> QED BY <4>1, <3>1
    <3> QED BY <3>2, <3>3
  <2>3. cl' \in [NetworkIds -> WireState]
    <3>1. cl' = [n \in NetworkIds |-> cl'[n]]
      BY <1>5 DEF ReceiveUpdate
    <3> QED BY <3>1, <2>2
  <2>4. acks' \subseteq net'
    BY <1>5 DEF ReceiveUpdate, TypeOK
  <2>5. \A r \in Applied(p) : r.id \in NetworkIds
    BY <2>1 DEF Applied, Rec
  <2>6. \A n \in NetworkIds : Alive(cl[n]) => cl[n].owner \in Lives
    BY DEF TypeOK, WireState, Alive
  <2>7. buried' \subseteq Lives
    BY <1>5, <2>5, <2>6 DEF ReceiveUpdate, TypeOK
  <2> QED
    BY <1>5, <2>3, <2>4, <2>7 DEF ReceiveUpdate, serverVars, idVars, TypeOK
<1>6. CASE UNCHANGED vars
  BY <1>6 DEF vars, serverVars, idVars, TypeOK
<1> QED BY <1>1, <1>2, <1>3, <1>4, <1>5, <1>6 DEF Next

\* The types of the variables hold in every reachable state: no destroy is ever
\* queued for an entity without an id, and ids never exceed the wire limit.
THEOREM TypeCorrect == Spec => []TypeOK
<1>1. Init => TypeOK
  BY InitTypeOK
<1>2. TypeOK /\ [Next]_vars => TypeOK'
  BY NextTypeOK
<1> QED BY <1>1, <1>2, PTL DEF Spec

--------------------------------------------------------------------------------
(* The id table. *)

\* A flush hands out ids that nobody holds, or fresh ones next in line.
LEMMA FlushPartition ==
    ASSUME IdInv, NEW resent \in SUBSET destroys, NEW serialized \in SUBSET active,
           NEW sent \in SUBSET serialized,
           NEW ids \in [Unnamed(serialized) -> NetworkIds],
           NEW pos, Flush(resent, sent, ids, pos)
    PROVE  Idle' /\ IdsPartitioned'
<1> DEFINE used == {ids[e] : e \in DOMAIN ids}
           k == Cardinality(used \ free)
<1>1. TypeOK /\ AllocatesIds(ids)
  BY DEF IdInv, Flush
<1>2. k \in Nat /\ used \subseteq NetworkIds /\ used \ free = allocated + 1 .. allocated + k
  BY <1>1, FlushIds DEF AllocatesIds
<1>3. allocated' = allocated + k /\ free' = free \ used /\ active' = active
      /\ condemned' = condemned
  BY DEF Flush
<1>4. allocated \in Nat
  BY LifecycleAssumption, <1>1 DEF TypeOK
<1>5. /\ 1 .. allocated = Held \cup condemned \cup free
      /\ Held \cap condemned = {}
      /\ Held \cap free = {}
      /\ condemned \cap free = {}
      /\ condemned = {d.id : d \in destroys}
      /\ \A d, x \in destroys : d.id = x.id => d = x
      /\ \A e, g \in active : es[e].id = es[g].id /\ es[e].id # NoId => e = g
  BY DEF IdInv, IdsPartitioned
<1>6. \A e \in Entities : es'[e].id = WireId(e, ids)
  <2>1. es \in [Entities -> EntityState]
    BY <1>1 DEF TypeOK
  <2>2. \A e \in Entities : \A q : [es[e] EXCEPT !.id = WireId(e, ids), !.pending = q].id = WireId(e, ids)
    BY <2>1 DEF EntityState
  <2> QED BY <2>2 DEF Flush
<1>7. DOMAIN ids = {e \in serialized : es[e].id = NoId}
      /\ active \subseteq Entities /\ \A e, g \in DOMAIN ids : ids[e] = ids[g] => e = g
  BY <1>1 DEF Unnamed, TypeOK, AllocatesIds
<1>8. \A e \in Entities : WireId(e, ids) = IF e \in DOMAIN ids THEN ids[e] ELSE es[e].id
  BY DEF WireId
<1>9. \A n \in NetworkIds : n # NoId
  BY LifecycleAssumption DEF NetworkIds, NoId
<1>10. Held' = Held \cup used
  <2>1. \A e \in DOMAIN ids : e \in active /\ e \in Entities /\ es'[e].id = ids[e] /\ ids[e] # NoId
    BY <1>6, <1>7, <1>8, <1>9
  <2>2. \A e \in active \ DOMAIN ids : es'[e].id = es[e].id
    BY <1>6, <1>7, <1>8
  <2>3. \A e \in DOMAIN ids : es[e].id = NoId
    BY <1>7
  <2> QED BY <2>1, <2>2, <2>3, <1>3 DEF Held
<1>11. Idle'
  BY <1>3, <1>6, <1>7, <1>8 DEF IdInv, Idle
<1>12. used \cap (Held \cup condemned) = {}
  <2> HIDE DEF used, k
  <2>1. \A n \in used \ free : n \notin 1 .. allocated
    BY <1>2, <1>4
  <2> QED BY <2>1, <1>5
<1>13. 1 .. allocated' = (1 .. allocated) \cup (used \ free)
  BY <1>2, <1>3, <1>4
<1>14. \A e, g \in active' : es'[e].id = es'[g].id /\ es'[e].id # NoId => e = g
  <2>1. \A e \in DOMAIN ids : ids[e] \in used
    OBVIOUS
  <2>2. \A e \in active : es[e].id # NoId => es[e].id \in Held
    BY DEF Held
  <2> HIDE DEF used
  <2> QED BY <2>1, <2>2, <1>3, <1>5, <1>6, <1>7, <1>8, <1>12
<1> HIDE DEF used, k
<1>15. /\ 1 .. allocated' = Held' \cup condemned' \cup free'
       /\ Held' \cap condemned' = {}
       /\ Held' \cap free' = {}
       /\ condemned' \cap free' = {}
  BY <1>3, <1>5, <1>10, <1>12, <1>13
<1>16. /\ condemned' = {d.id : d \in destroys'}
       /\ \A d, x \in destroys' : d.id = x.id => d = x
  <2> DEFINE m(d) == IF d \in resent THEN [d EXCEPT !.frame = frame] ELSE d
  <2>1. destroys' = {m(d) : d \in destroys}
    BY DEF Flush
  <2>2. \A d \in destroys : m(d).id = d.id
    BY <1>1 DEF TypeOK, Destroy
  <2> HIDE DEF m
  <2> QED BY <2>1, <2>2, <1>3, <1>5
<1> QED BY <1>11, <1>14, <1>15, <1>16 DEF IdsPartitioned

\* An ACK frees exactly the ids of the destroys it erases.
LEMMA AckPartition ==
    ASSUME IdInv, NEW p \in acks, ReceiveAck(p)
    PROVE  Idle' /\ IdsPartitioned'
<1> DEFINE erased == IF p \in tracked THEN AcknowledgedDestroys(p) ELSE {}
           freed  == {d.id : d \in erased} \cap condemned
<1>1. erased \subseteq destroys
  BY DEF AcknowledgedDestroys
<1>2. /\ destroys' = destroys \ erased
      /\ condemned' = condemned \ freed
      /\ free' = free \cup freed
      /\ allocated' = allocated
      /\ active' = active
  BY DEF ReceiveAck, FreedIds
<1>3. /\ 1 .. allocated = Held \cup condemned \cup free
      /\ Held \cap condemned = {}
      /\ Held \cap free = {}
      /\ condemned \cap free = {}
      /\ condemned = {d.id : d \in destroys}
      /\ \A d, x \in destroys : d.id = x.id => d = x
      /\ \A e, g \in active : es[e].id = es[g].id /\ es[e].id # NoId => e = g
  BY DEF IdInv, IdsPartitioned
<1>4. active \subseteq Entities /\ p.frame \in Nat /\ es \in [Entities -> EntityState]
  BY DEF IdInv, TypeOK
<1>5. \A e \in Entities : es'[e].id = es[e].id
  BY <1>4, AckStateType DEF ReceiveAck
<1>6. Held' = Held
  BY <1>2, <1>4, <1>5 DEF Held
<1>7. freed = {d.id : d \in erased}
  BY <1>1, <1>3
<1> HIDE DEF erased
<1>8. condemned' = {d.id : d \in destroys'}
  BY <1>1, <1>2, <1>3, <1>7
<1>9. /\ 1 .. allocated' = Held' \cup condemned' \cup free'
      /\ Held' \cap condemned' = {}
      /\ Held' \cap free' = {}
      /\ condemned' \cap free' = {}
  <2>1. freed \subseteq condemned
    OBVIOUS
  <2> HIDE DEF freed
  <2> QED BY <2>1, <1>2, <1>3, <1>6
<1>10. Idle'
  BY <1>2, <1>5 DEF IdInv, Idle
<1> QED BY <1>2, <1>3, <1>4, <1>5, <1>8, <1>9, <1>10, ZenonT(60) DEF IdsPartitioned

\* The id table's invariant is inductive.
LEMMA NextIdInv == IdInv /\ [Next]_vars => IdInv'
<1> SUFFICES ASSUME IdInv, [Next]_vars PROVE Idle' /\ IdsPartitioned'
  BY NextTypeOK DEF IdInv
<1>1. ASSUME NEW stopped \in SUBSET Entities, NEW started \in SUBSET Entities,
             Step(stopped, started)
      PROVE  Idle' /\ IdsPartitioned'
  <2>1. frame + 1 \in Nat /\ stopped \in SUBSET active /\ started \cap active = {}
    BY <1>1 DEF Step, IdInv, TypeOK
  <2>2. /\ Deactivate(stopped, frame + 1)
        /\ active' = (active \ stopped) \cup started
        /\ UNCHANGED <<allocated, free>>
    BY <1>1 DEF Step
  <2> QED BY <2>1, <2>2, DeactivateIds
<1>2. ASSUME NEW gone \in SUBSET Entities, BeginFlush(gone)
      PROVE  Idle' /\ IdsPartitioned'
  <2>1. frame \in Nat /\ gone \in SUBSET active
    BY <1>2 DEF BeginFlush, IdInv, TypeOK
  <2>2. /\ Deactivate(gone, frame)
        /\ active' = (active \ gone) \cup {}
        /\ UNCHANGED <<allocated, free>>
    BY <1>2 DEF BeginFlush
  <2>3. {} \in SUBSET Entities /\ {} \cap active = {}
    OBVIOUS
  <2> QED BY <2>1, <2>2, <2>3, DeactivateIds
<1>3. ASSUME NEW resent \in SUBSET destroys, NEW serialized \in SUBSET active,
             NEW sent \in SUBSET serialized,
             NEW ids \in [Unnamed(serialized) -> NetworkIds],
             NEW pos \in Orders(FlushRecords(resent, sent, ids)),
             Flush(resent, sent, ids, pos)
      PROVE  Idle' /\ IdsPartitioned'
  BY <1>3, FlushPartition
<1>4. ASSUME NEW p \in acks, ReceiveAck(p)
      PROVE  Idle' /\ IdsPartitioned'
  BY <1>4, AckPartition
<1>5. ASSUME NEW p \in net, ReceiveUpdate(p)
      PROVE  Idle' /\ IdsPartitioned'
  BY <1>5 DEF ReceiveUpdate, serverVars, idVars, IdInv, Idle, IdsPartitioned, Held
<1>6. CASE UNCHANGED vars
  BY <1>6 DEF vars, serverVars, idVars, IdInv, Idle, IdsPartitioned, Held
<1> QED BY <1>1, <1>2, <1>3, <1>4, <1>5, <1>6 DEF Next

\* The id table's invariant holds initially.
LEMMA InitIdInv == Init => IdInv
<1> SUFFICES ASSUME Init PROVE Idle /\ IdsPartitioned
  BY InitTypeOK DEF IdInv
<1>1. Idle
  BY DEF Init, Idle, NewEntityState
<1>2. 1 .. allocated = {} /\ Held = {}
  BY DEF Init, Held
<1> QED BY <1>1, <1>2 DEF Init, IdsPartitioned

\* No network id leaks and none is given to two entities, whatever is lost,
\* repeated or late, and however often entities are stopped and restarted.
THEOREM IdsPartitionedAlways == Spec => []IdsPartitioned
<1>1. Init => IdInv
  BY InitIdInv
<1>2. IdInv /\ [Next]_vars => IdInv'
  BY NextIdInv
<1>3. IdInv => IdsPartitioned
  BY DEF IdInv
<1> QED BY <1>1, <1>2, <1>3, PTL DEF Spec

--------------------------------------------------------------------------------
(* What a client shows, for handles that are replicated at most once.       *)

\* The newest frame the client has applied to a wire id.
Seen(n) == IF Alive(cl[n]) THEN cl[n].frame ELSE cl[n].tombstone

\* The server replicates the life under the wire id, or still destroys it.
Holds(who, n) ==
    \/ \E e \in active : Life(e) = who /\ es[e].id = n
    \/ \E d \in destroys : d.who = who /\ d.id = n

\* Every handle has at most one life, and at most one destroy after it.
OneLife ==
    /\ \A e \in Entities : lives[e] \in {0, 1}
    /\ \A e \in active : lives[e] = 1
    /\ \A d \in destroys : /\ d.who.entity \notin active
                           /\ lives[d.who.entity] = 1 /\ d.who.life = 1
    /\ \A d, x \in destroys : d.who.entity = x.who.entity => d = x

\* A packet carries the frame of an earlier flush.
SentBefore == \A p \in net : p.frame <= frame /\ (phase # "inbound" => p.frame < frame)

\* A record belongs to the one life of its entity and to the id that life holds.
RecordHome ==
    \A p \in net : \A r \in p.recs :
        /\ lives[r.who.entity] = 1 /\ r.who.life = 1
        /\ r.who.entity \in active => ~r.destroy /\ es[r.who.entity].id = r.id
        /\ \A d \in destroys : d.who.entity = r.who.entity => d.id = r.id

\* Updates of a life are sent before its destroys.
UpsertBeforeDestroy ==
    \A p, q \in net : \A r \in p.recs, s \in q.recs :
        ~r.destroy /\ s.destroy /\ r.who.entity = s.who.entity => p.frame < q.frame

\* An update whose life has given up its id is older than what the client saw.
HolderOrSeen ==
    \A p \in net : \A r \in p.recs :
        ~r.destroy => Holds(r.who, r.id) \/ p.frame < Seen(r.id)

\* Records of earlier holders of an id are older than those of the present one.
OlderRetired ==
    \A p, q \in net : \A r \in p.recs, s \in q.recs :
        r.id = s.id /\ ~Holds(r.who, r.id) /\ Holds(s.who, s.id) => p.frame < q.frame

\* What the client acknowledged it has seen.
AcksSeen == \A p \in acks : \A r \in p.recs : p.frame <= Seen(r.id)

\* A live local entity has no tombstone.
WireShape == \A n \in NetworkIds : Alive(cl[n]) => cl[n].tombstone = NoFrame

\* The frame of a local entity is that of an update of its owner.
AliveShown ==
    \A n \in NetworkIds : Alive(cl[n]) =>
        \E p \in net : \E r \in p.recs :
            ~r.destroy /\ r.id = n /\ r.who = cl[n].owner /\ p.frame = cl[n].frame

\* A buried life is over and the client has seen something newer than its updates.
BuriedGone ==
    \A b \in buried :
        /\ b.entity \notin active /\ lives[b.entity] = 1 /\ b.life = 1
        /\ \A p \in net : \A r \in p.recs : r.who = b /\ ~r.destroy => p.frame < Seen(r.id)

\* What an ACK, an id and a record of a life say about each other.
LifeInv ==
    /\ IdInv /\ OneLife /\ SentBefore /\ RecordHome /\ UpsertBeforeDestroy
    /\ HolderOrSeen /\ OlderRetired /\ AcksSeen
    /\ WireShape /\ AliveShown /\ BuriedGone /\ NoOrphan /\ NeverAliased

--------------------------------------------------------------------------------
(* Facts about holders and about the newest frame seen. *)

\* What the types say of a packet's records.
LEMMA RecordTypes ==
    ASSUME TypeOK, NEW p \in net, NEW r \in p.recs
    PROVE  /\ p.frame \in Nat /\ r \in Rec /\ r.id \in NetworkIds /\ r.id # NoId
           /\ r.who.entity \in Entities /\ r.who.life \in Nat
           /\ r.who = [entity |-> r.who.entity, life |-> r.who.life]
           /\ r.destroy \in BOOLEAN
<1>1. r \in Rec /\ p.frame \in Nat
  BY DEF TypeOK
<1>2. r.who \in Lives /\ r.id \in NetworkIds /\ r.destroy \in BOOLEAN
  BY <1>1 DEF Rec
<1>3. r.id # NoId
  BY <1>2, LifecycleAssumption DEF NetworkIds, NoId
<1> QED BY <1>1, <1>2, <1>3 DEF Lives

\* A record belongs to some life.
LEMMA RecordOwned ==
    ASSUME TypeOK, RecordHome, NEW p \in net, NEW r \in p.recs
    PROVE  r \in Rec /\ r.who # Nobody
<1>1. r \in Rec
  BY RecordTypes
<1>2. r.who.life = 1
  BY DEF RecordHome
<1>3. Nobody.life = 0
  BY DEF Nobody
<1> QED BY <1>1, <1>2, <1>3

\* What the types say of a queued destroy.
LEMMA DestroyTypes ==
    ASSUME TypeOK, NEW d \in destroys
    PROVE  /\ d.id \in NetworkIds /\ d.born \in Nat /\ d.frame \in Nat
           /\ d.who.entity \in Entities /\ d.who.life \in Nat
           /\ d.who = [entity |-> d.who.entity, life |-> d.who.life]
<1>1. d.who \in Lives /\ d.id \in NetworkIds /\ d.born \in Nat /\ d.frame \in Nat
  BY DEF TypeOK, Destroy
<1> QED BY <1>1 DEF Lives

\* One life holds an id.
LEMMA OneHolder ==
    ASSUME IdInv, NEW a, NEW b, NEW n \in NetworkIds, Holds(a, n), Holds(b, n)
    PROVE  a = b
<1>1. n # NoId
  BY LifecycleAssumption DEF NetworkIds, NoId
<1>2. /\ Held \cap condemned = {}
      /\ condemned = {d.id : d \in destroys}
      /\ \A d, x \in destroys : d.id = x.id => d = x
      /\ \A e, g \in active : es[e].id = es[g].id /\ es[e].id # NoId => e = g
  BY DEF IdInv, IdsPartitioned
<1>3. \A e \in active : es[e].id = n => n \in Held
  BY <1>1 DEF Held
<1> QED BY <1>1, <1>2, <1>3 DEF Holds

\* The newest frame seen is a number.
LEMMA SeenType ==
    ASSUME TypeOK, NEW n \in NetworkIds
    PROVE  Seen(n) \in Nat
BY DEF TypeOK, WireState, Seen

\* An applied record is newer than all the client saw of its id, and is the
\* newest from then on.
LEMMA AppliesSeen ==
    ASSUME NEW w \in WireState, NEW r \in Rec, NEW f \in Nat, r.who # Nobody,
           Alive(w) => w.tombstone = NoFrame, RecordApplies(w, r, f)
    PROVE  LET v == AppliedRecord(w, r, f) IN
           /\ f > IF Alive(w) THEN w.frame ELSE w.tombstone
           /\ f = IF Alive(v) THEN v.frame ELSE v.tombstone
           /\ Alive(v) <=> ~r.destroy
           /\ ~Alive(v) => v.shows = v.owner
           /\ Alive(v) => /\ v.tombstone = NoFrame
                          /\ v.owner = IF Alive(w) THEN w.owner ELSE r.who
                          /\ v.shows = r.who /\ v.frame = f
<1> DEFINE v == AppliedRecord(w, r, f)
<1>1. w.frame \in Nat /\ w.tombstone \in Nat /\ NoFrame = 0
  BY DEF WireState, NoFrame
<1>2. CASE r.destroy
  <2>1. DestroyApplies(w, f) /\ v = AppliedDestroy(w, f)
    BY <1>2 DEF RecordApplies, AppliedRecord
  <2>2. f > IF Alive(w) THEN w.frame ELSE w.tombstone
    BY <2>1 DEF DestroyApplies
  <2>3. f > w.tombstone
    BY <2>2, <1>1
  <2>4. v.owner = Nobody /\ v.shows = Nobody /\ v.tombstone = f
    <3> DEFINE u == IF Alive(w) \/ w.tombstone = NoFrame THEN AdvancedVersion(w) ELSE w.version
    <3>1. v = [NewWireState EXCEPT !.version = u, !.tombstone = f]
      BY <2>1, <2>3 DEF AppliedDestroy
    <3> HIDE DEF u, v
    <3> QED BY <3>1 DEF NewWireState
  <2> HIDE DEF v
  <2>5. ~Alive(v)
    BY <2>4 DEF Alive
  <2> QED BY <2>2, <2>4, <2>5, <1>2 DEF v
<1>3. CASE ~r.destroy
  <2>1. UpsertApplies(w, r, f) /\ v = AppliedUpsert(w, r, f)
    BY <1>3 DEF RecordApplies, AppliedRecord
  <2>2. f > IF Alive(w) THEN w.frame ELSE w.tombstone
    BY <2>1 DEF UpsertApplies
  <2>3. /\ v.owner = IF Alive(w) THEN w.owner ELSE r.who
        /\ v.shows = r.who /\ v.frame = f
        /\ v.tombstone = IF r.full THEN NoFrame ELSE w.tombstone
    BY <2>1 DEF AppliedUpsert
  <2>4. v.tombstone = NoFrame
    BY <2>1, <2>3 DEF UpsertApplies
  <2> HIDE DEF v
  <2>5. Alive(v)
    BY <2>3 DEF Alive
  <2> QED BY <2>2, <2>3, <2>4, <2>5, <1>3 DEF v
<1> QED BY <1>2, <1>3

--------------------------------------------------------------------------------
(* The client's steps. *)

\* A step that leaves what a wire id shows alone.
Kept(n) ==
    /\ cl'[n].owner = cl[n].owner /\ cl'[n].shows = cl[n].shows
    /\ cl'[n].frame = cl[n].frame /\ cl'[n].tombstone = cl[n].tombstone

\* A step that applies a record of the packet to a wire id.
Took(p, n) ==
    \E r \in p.recs : /\ r.id = n /\ RecordApplies(cl[n], r, p.frame)
                      /\ cl'[n] = AppliedRecord(cl[n], r, p.frame)

\* Receiving a packet does one or the other.  All ids of an acknowledged packet
\* take a record, and so does an id on which only destroys were sent.
LEMMA ClientEffect ==
    ASSUME TypeOK, NEW p \in net, ReceiveUpdate(p), NEW n \in NetworkIds
    PROVE  /\ Kept(n) \/ Took(p, n)
           /\ Applied(p) = p.recs /\ (\E r \in p.recs : r.id = n) => Took(p, n)
           /\ /\ \E r \in Applied(p) : r.id = n
              /\ \A s \in p.recs : s.id = n => s.destroy
              => Took(p, n)
<1>1. Reached(p) \subseteq p.recs /\ Applied(p) \subseteq Reached(p)
  BY DEF Reached, Applied
<1>2. CASE \E r \in Reached(p) : r.id = n
  <2> DEFINE r == CHOOSE s \in Reached(p) : s.id = n
  <2>1. r \in Reached(p) /\ r.id = n
    BY <1>2
  <2>2. cl'[n] = IF r \in Applied(p) THEN AppliedRecord(cl[n], r, p.frame)
                                     ELSE RejectedRecord(cl[n], r)
    BY <1>2 DEF ReceiveUpdate
  <2> HIDE DEF r
  <2>3. r \in Applied(p) => Took(p, n)
    BY <2>1, <2>2, <1>1 DEF Applied, Took
  <2>4. r \notin Applied(p) => Kept(n)
    <3>1. cl[n] \in WireState
      BY DEF TypeOK
    <3> QED BY <2>2, <3>1 DEF RejectedRecord, WireState, Kept
  <2>5. Applied(p) = p.recs => r \in Applied(p)
    BY <2>1, <1>1
  <2>6. ASSUME NEW s \in Applied(p), s.id = n, \A t \in p.recs : t.id = n => t.destroy
        PROVE  r \in Applied(p)
    <3>1. r.destroy /\ s.destroy
      BY <2>1, <2>6, <1>1
    <3>2. RecordApplies(cl[n], s, p.frame)
      BY <2>6 DEF Applied
    <3>3. RecordApplies(cl[n], r, p.frame)
      BY <3>1, <3>2 DEF RecordApplies
    <3> QED BY <2>1, <3>3 DEF Applied
  <2> QED BY <2>3, <2>4, <2>5, <2>6
<1>3. CASE ~(\E r \in Reached(p) : r.id = n)
  <2>1. cl'[n] = cl[n]
    BY <1>3 DEF ReceiveUpdate
  <2>2. Kept(n)
    BY <2>1 DEF Kept
  <2> QED BY <2>2, <1>1, <1>3
<1> QED BY <1>2, <1>3

\* A record that is taken is newer than what the client saw, and the newest then.
LEMMA TookSeen ==
    ASSUME TypeOK, WireShape, RecordHome, NEW p \in net, NEW n \in NetworkIds, Took(p, n)
    PROVE  p.frame > Seen(n) /\ Seen(n)' = p.frame
<1>1. PICK r \in p.recs : /\ r.id = n /\ RecordApplies(cl[n], r, p.frame)
                          /\ cl'[n] = AppliedRecord(cl[n], r, p.frame)
  BY DEF Took
<1>2. cl[n] \in WireState /\ p.frame \in Nat
  BY DEF TypeOK
<1>3. r \in Rec /\ r.who # Nobody
  BY RecordOwned
<1>4. Alive(cl[n]) => cl[n].tombstone = NoFrame
  BY DEF WireShape
<1>5. /\ p.frame > IF Alive(cl[n]) THEN cl[n].frame ELSE cl[n].tombstone
      /\ p.frame = IF Alive(cl'[n]) THEN cl'[n].frame ELSE cl'[n].tombstone
  BY <1>1, <1>2, <1>3, <1>4, AppliesSeen
<1> QED BY <1>5 DEF Seen, Alive

\* What the client has seen of an id never shrinks.
LEMMA SeenGrows ==
    ASSUME TypeOK, WireShape, RecordHome, NEW p \in net, ReceiveUpdate(p), NEW n \in NetworkIds
    PROVE  Seen(n) \in Nat /\ Seen(n)' \in Nat /\ Seen(n) <= Seen(n)'
<1>1. p.frame \in Nat /\ Seen(n) \in Nat
  BY SeenType DEF TypeOK
<1>2. Kept(n) => Seen(n)' = Seen(n)
  BY DEF Kept, Seen, Alive
<1> QED BY <1>1, <1>2, ClientEffect, TookSeen

\* A destroy newer than a local entity is the destroy of its owner, and its
\* packet carries nothing else for that id.
LEMMA DestroyIsOwners ==
    ASSUME LifeInv, NEW p \in net, NEW r \in p.recs, r.destroy,
           Alive(cl[r.id]), p.frame > Seen(r.id)
    PROVE  /\ r.who = cl[r.id].owner
           /\ \A s \in p.recs : s.id = r.id => s.destroy
<1> DEFINE n == r.id
<1>0. TypeOK /\ IdInv
  BY DEF LifeInv, IdInv
<1>1. n \in NetworkIds /\ p.frame \in Nat /\ Seen(n) \in Nat
  BY <1>0, RecordTypes, SeenType
<1>2. PICK q \in net : \E s \in q.recs :
          ~s.destroy /\ s.id = n /\ s.who = cl[n].owner /\ q.frame = cl[n].frame
  BY <1>1 DEF LifeInv, AliveShown
<1>3. Holds(cl[n].owner, n) /\ Seen(n) = cl[n].frame
  BY <1>1 DEF LifeInv, NoOrphan, Holds, Seen
<1> HIDE DEF n
<1>4. ASSUME NEW s \in p.recs, s.id = n  PROVE s.who = cl[n].owner
  <2>1. CASE Holds(s.who, n)
    BY <2>1, <1>0, <1>1, <1>3, OneHolder
  <2>2. CASE ~Holds(s.who, n)
    <3>1. p.frame < q.frame
      BY <2>2, <1>2, <1>3, <1>4 DEF LifeInv, OlderRetired
    <3>2. q.frame \in Nat
      BY <1>0 DEF TypeOK
    <3> QED BY <3>1, <3>2, <1>1, <1>2, <1>3 DEF n
  <2> QED BY <2>1, <2>2
<1>5. r.who = cl[n].owner
  BY <1>4 DEF n
<1>6. ASSUME NEW s \in p.recs, s.id = n  PROVE s.destroy
  <2>1. s.destroy \in BOOLEAN /\ s.who = r.who
    BY <1>0, <1>4, <1>5, <1>6, RecordTypes
  <2>2. ~s.destroy => p.frame < p.frame
    BY <2>1 DEF LifeInv, UpsertBeforeDestroy
  <2> QED BY <2>1, <2>2, <1>1
<1> QED BY <1>5, <1>6 DEF n

\* Receiving a packet keeps the invariant.
LEMMA ReceiveUpdateLife ==
    ASSUME LifeInv, IdInv', NEW p \in net, ReceiveUpdate(p)
    PROVE  LifeInv'
<1>0. TypeOK /\ IdInv /\ WireShape /\ RecordHome
  BY DEF LifeInv, IdInv
<1>1. UNCHANGED <<frame, phase, active, lives, es, destroys, net>>
  BY DEF ReceiveUpdate, serverVars
<1>2. \A who, n : Holds(who, n)' <=> Holds(who, n)
  BY <1>1 DEF Holds, Life
<1>3. \A n \in NetworkIds : Seen(n) \in Nat /\ Seen(n)' \in Nat /\ Seen(n) <= Seen(n)'
  BY <1>0, SeenGrows
<1>4. \A q \in net : q.frame \in Nat /\ \A r \in q.recs : r.id \in NetworkIds
  BY <1>0, RecordTypes DEF TypeOK
<1>5. OneLife' /\ SentBefore' /\ RecordHome' /\ UpsertBeforeDestroy'
  BY <1>1 DEF LifeInv, OneLife, SentBefore, RecordHome, UpsertBeforeDestroy
<1>6. HolderOrSeen'
  BY <1>1, <1>2, <1>3, <1>4 DEF LifeInv, HolderOrSeen
<1>7. OlderRetired'
  BY <1>1, <1>2 DEF LifeInv, OlderRetired
<1>8. AcksSeen'
  <2> SUFFICES ASSUME NEW q \in acks', NEW r \in q.recs PROVE q.frame <= Seen(r.id)'
    BY DEF AcksSeen
  <2>1. CASE q \in acks
    <3>1. q \in net /\ q.frame <= Seen(r.id)
      BY <2>1, <1>0 DEF LifeInv, AcksSeen, TypeOK
    <3> QED BY <3>1, <1>3, <1>4
  <2>2. CASE q \notin acks
    <3>1. q = p /\ Applied(p) = p.recs
      BY <2>2 DEF ReceiveUpdate
    <3>2. Took(p, r.id)
      BY <3>1, <1>0, <1>4, ClientEffect
    <3>3. Seen(r.id)' = p.frame
      BY <3>1, <3>2, <1>0, <1>4, TookSeen
    <3> QED BY <3>1, <3>3, <1>4
  <2> QED BY <2>1, <2>2
<1>9. ASSUME NEW n \in NetworkIds
      PROVE  /\ Alive(cl'[n]) => /\ cl'[n].tombstone = NoFrame
                                 /\ Holds(cl'[n].owner, n)
                                 /\ \E q \in net : \E r \in q.recs :
                                      /\ ~r.destroy /\ r.id = n
                                      /\ r.who = cl'[n].owner /\ q.frame = cl'[n].frame
             /\ cl'[n].shows = cl'[n].owner
  <2>1. CASE Kept(n)
    <3>1. Alive(cl'[n]) <=> Alive(cl[n])
      BY <2>1 DEF Kept, Alive
    <3>2. /\ Alive(cl[n]) => cl[n].tombstone = NoFrame
          /\ cl[n].shows = cl[n].owner
      BY DEF LifeInv, WireShape, NeverAliased
    <3>3. Alive(cl[n]) => Holds(cl[n].owner, n)
      BY DEF LifeInv, NoOrphan, Holds
    <3>4. Alive(cl[n]) => \E q \in net : \E r \in q.recs :
             /\ ~r.destroy /\ r.id = n
             /\ r.who = cl[n].owner /\ q.frame = cl[n].frame
      BY DEF LifeInv, AliveShown
    <3> QED BY <2>1, <3>1, <3>2, <3>3, <3>4 DEF Kept
  <2>2. CASE Took(p, n)
    <3>1. PICK r \in p.recs : /\ r.id = n /\ RecordApplies(cl[n], r, p.frame)
                              /\ cl'[n] = AppliedRecord(cl[n], r, p.frame)
      BY <2>2 DEF Took
    <3>2. cl[n] \in WireState /\ p.frame \in Nat
      BY <1>0 DEF TypeOK
    <3>3. r \in Rec /\ r.who # Nobody
      BY <1>0, RecordOwned
    <3>4. Alive(cl[n]) => cl[n].tombstone = NoFrame
      BY <1>0 DEF WireShape
    <3>5. /\ Alive(cl'[n]) <=> ~r.destroy
          /\ ~Alive(cl'[n]) => cl'[n].shows = cl'[n].owner
          /\ Alive(cl'[n]) => /\ cl'[n].tombstone = NoFrame
                              /\ cl'[n].owner = IF Alive(cl[n]) THEN cl[n].owner ELSE r.who
                              /\ cl'[n].shows = r.who /\ cl'[n].frame = p.frame
      BY <3>1, <3>2, <3>3, <3>4, AppliesSeen
    <3>6. ~r.destroy => Holds(r.who, n)
      <4>1. p.frame > Seen(n) /\ Seen(n) \in Nat
        BY <2>2, <1>0, <1>3, TookSeen
      <4> QED BY <3>1, <3>2, <4>1 DEF LifeInv, HolderOrSeen
    <3>7. ~r.destroy /\ Alive(cl[n]) => cl[n].owner = r.who
      <4>1. Alive(cl[n]) => Holds(cl[n].owner, n)
        BY DEF LifeInv, NoOrphan, Holds
      <4> QED BY <4>1, <3>6, <1>0, OneHolder
    <3>8. ~r.destroy => cl'[n].owner = r.who
      BY <3>5, <3>7
    <3> QED BY <3>1, <3>5, <3>6, <3>8
  <2> QED BY <2>1, <2>2, <1>0, ClientEffect
<1>10. WireShape' /\ NeverAliased'
  BY <1>9 DEF WireShape, NeverAliased, Alive
<1>11. AliveShown'
  BY <1>9, <1>1 DEF AliveShown, Alive
<1>12. NoOrphan'
  <2>1. \A n \in NetworkIds : Alive(cl'[n]) =>
          \/ \E e \in active : Life(e) = cl'[n].owner /\ es[e].id = n
          \/ \E d \in destroys : d.who = cl'[n].owner /\ d.id = n
    BY <1>9 DEF Holds
  <2> QED BY <2>1, <1>1 DEF NoOrphan, Life, Alive
<1>13. BuriedGone'
  <2> SUFFICES ASSUME NEW b \in buried'
               PROVE  /\ b.entity \notin active /\ lives[b.entity] = 1 /\ b.life = 1
                      /\ \A q \in net : \A r \in q.recs :
                           r.who = b /\ ~r.destroy => q.frame < Seen(r.id)'
    BY <1>1 DEF BuriedGone
  <2>1. CASE b \in buried
    <3>1. /\ b.entity \notin active /\ lives[b.entity] = 1 /\ b.life = 1
          /\ \A q \in net : \A r \in q.recs : r.who = b /\ ~r.destroy => q.frame < Seen(r.id)
      BY <2>1 DEF LifeInv, BuriedGone
    <3> QED BY <3>1, <1>3, <1>4
  <2>2. CASE b \notin buried
    <3>1. PICK s \in Applied(p) : s.destroy /\ Alive(cl[s.id]) /\ b = cl[s.id].owner
      BY <2>2 DEF ReceiveUpdate
    <3>2. s \in p.recs /\ RecordApplies(cl[s.id], s, p.frame)
      BY <3>1 DEF Applied, Reached
    <3>3. s.id \in NetworkIds /\ s.id # NoId
      BY <3>2, <1>0, RecordTypes
    <3>4. p.frame > Seen(s.id)
      BY <3>1, <3>2 DEF RecordApplies, DestroyApplies, Seen
    <3>5. s.who = b /\ \A t \in p.recs : t.id = s.id => t.destroy
      BY <3>1, <3>2, <3>4, DestroyIsOwners
    <3>6. Took(p, s.id)
      BY <3>1, <3>3, <3>5, <1>0, ClientEffect
    <3>7. Seen(s.id)' = p.frame
      BY <3>3, <3>6, <1>0, TookSeen
    <3>8. b.entity \notin active /\ lives[b.entity] = 1 /\ b.life = 1
      BY <3>1, <3>2, <3>5, <1>0 DEF RecordHome
    <3>9. Holds(b, s.id)
      BY <3>1, <3>3 DEF LifeInv, NoOrphan, Holds
    <3>10. PICK d \in destroys : d.who = b /\ d.id = s.id
      <4>1. \A e \in active : Life(e) # b
        BY <3>8 DEF Life
      <4> QED BY <3>9, <4>1 DEF Holds
    <3>11. ASSUME NEW q \in net, NEW r \in q.recs, r.who = b, ~r.destroy
           PROVE  q.frame < Seen(r.id)'
      <4>1. r.id = s.id
        BY <3>10, <3>11, <1>0 DEF RecordHome
      <4>2. q.frame < p.frame
        BY <3>1, <3>2, <3>5, <3>11 DEF LifeInv, UpsertBeforeDestroy
      <4> QED BY <4>1, <4>2, <3>7
    <3> QED BY <3>8, <3>11
  <2> QED BY <2>1, <2>2
<1> QED BY <1>5, <1>6, <1>7, <1>8, <1>10, <1>11, <1>12, <1>13 DEF LifeInv

--------------------------------------------------------------------------------
(* The server's steps. *)

\* Deactivating entities, and starting ones that were never replicated, moves
\* holders from the active entities to the queue of destroys.
LEMMA DeactivateLife ==
    ASSUME LifeInv, IdInv', NEW gone \in SUBSET active, NEW now \in Nat, Deactivate(gone, now),
           NEW started \in SUBSET Entities, started \cap active = {},
           \A e \in started : lives[e] = 0,
           active' = (active \ gone) \cup started,
           lives' = [e \in Entities |-> IF e \in started THEN lives[e] + 1 ELSE lives[e]],
           UNCHANGED <<net, acks, cl, buried>>,
           SentBefore'
    PROVE  LifeInv'
<1> DEFINE known == {e \in gone : es[e].id # NoId}
<1>0. TypeOK /\ IdInv
  BY DEF LifeInv, IdInv
<1>1. active \subseteq Entities /\ gone \subseteq Entities /\ known \subseteq gone
      /\ lives \in [Entities -> Nat]
  BY <1>0 DEF TypeOK
<1>2. \A e \in Entities : es'[e] = IF e \in gone THEN NewEntityState ELSE es[e]
  BY DEF Deactivate
<1>3. destroys' = destroys \cup
         {[who |-> Life(e), id |-> es[e].id, born |-> now, frame |-> now] : e \in known}
  BY DEF Deactivate
<1>4. \A e \in active : lives[e] = 1 /\ lives'[e] = 1 /\ Life(e) = [entity |-> e, life |-> 1]
  <2>1. \A e \in active : lives[e] = 1
    BY DEF LifeInv, OneLife
  <2>2. \A e \in active : lives'[e] = 1
    BY <2>1, <1>1
  <2> QED BY <2>1, <2>2 DEF Life
<1>5. \A e \in started : lives'[e] = 1 /\ e \in Entities
  BY <1>1
<1>6. \A e \in Entities : lives[e] = 1 => lives'[e] = 1 /\ e \notin started
  BY <1>1
<1>7. \A d \in destroys' :
         \/ d \in destroys
         \/ \E e \in known : /\ d = [who |-> Life(e), id |-> es[e].id, born |-> now, frame |-> now]
                             /\ d.who.entity = e /\ d.who.life = 1 /\ d.id = es[e].id
  <2> SUFFICES ASSUME NEW d \in destroys', d \notin destroys
               PROVE  \E e \in known :
                         /\ d = [who |-> Life(e), id |-> es[e].id, born |-> now, frame |-> now]
                         /\ d.who.entity = e /\ d.who.life = 1 /\ d.id = es[e].id
    OBVIOUS
  <2>1. PICK e \in known : d = [who |-> Life(e), id |-> es[e].id, born |-> now, frame |-> now]
    BY <1>3
  <2>2. d.who = Life(e) /\ d.id = es[e].id
    BY <2>1
  <2>3. d.who.entity = e /\ d.who.life = 1
    BY <2>2, <1>4
  <2> QED BY <2>1, <2>2, <2>3
<1>8. \A d \in destroys : /\ d.who.entity \in Entities /\ d.who.entity \notin active
                          /\ lives[d.who.entity] = 1 /\ d.who.life = 1
  BY <1>0, DestroyTypes DEF LifeInv, OneLife
<1>9. OneLife'
  <2>1. \A e \in Entities : lives'[e] \in {0, 1}
    BY <1>1, <1>5, <1>6 DEF LifeInv, OneLife
  <2>2. \A e \in active' : lives'[e] = 1
    BY <1>4, <1>5
  <2>3. \A d \in destroys' : /\ d.who.entity \notin active'
                             /\ lives'[d.who.entity] = 1 /\ d.who.life = 1
    <3> SUFFICES ASSUME NEW d \in destroys'
                 PROVE  /\ d.who.entity \notin active'
                        /\ lives'[d.who.entity] = 1 /\ d.who.life = 1
      OBVIOUS
    <3>1. CASE d \in destroys
      BY <3>1, <1>8, <1>6
    <3>2. CASE d \notin destroys
      <4>1. PICK e \in known : d.who.entity = e /\ d.who.life = 1
        BY <3>2, <1>7
      <4> QED BY <4>1, <1>1, <1>4, <1>6
    <3> QED BY <3>1, <3>2
  <2>4. \A d, x \in destroys' : d.who.entity = x.who.entity => d = x
    <3>1. \A d, x \in destroys : d.who.entity = x.who.entity => d = x
      BY DEF LifeInv, OneLife
    <3> QED BY <3>1, <1>1, <1>7, <1>8
  <2> QED BY <2>1, <2>2, <2>3, <2>4 DEF OneLife
<1>10. ASSUME NEW who, NEW n \in NetworkIds
       PROVE  Holds(who, n)' <=> Holds(who, n)
  <2>1. n # NoId /\ NewEntityState.id = NoId
    BY LifecycleAssumption DEF NetworkIds, NoId, NewEntityState
  <2>2. \A e \in active \ gone : Life(e)' = Life(e) /\ es'[e] = es[e] /\ e \in active'
    BY <1>1, <1>2, <1>4 DEF Life
  <2>3. ASSUME Holds(who, n)  PROVE Holds(who, n)'
    <3>1. CASE \E d \in destroys : d.who = who /\ d.id = n
      BY <3>1, <1>3 DEF Holds
    <3>2. CASE \E e \in active \ gone : Life(e) = who /\ es[e].id = n
      BY <3>2, <2>2 DEF Holds
    <3>3. CASE \E e \in gone : Life(e) = who /\ es[e].id = n
      <4>1. PICK e \in known : Life(e) = who /\ es[e].id = n
        BY <3>3, <2>1
      <4> DEFINE d == [who |-> Life(e), id |-> es[e].id, born |-> now, frame |-> now]
      <4>2. d \in destroys' /\ d.who = who /\ d.id = n
        BY <4>1, <1>3
      <4> QED BY <4>2 DEF Holds
    <3> QED BY <2>3, <3>1, <3>2, <3>3 DEF Holds
  <2>4. ASSUME Holds(who, n)'  PROVE Holds(who, n)
    <3>1. CASE \E d \in destroys' : d.who = who /\ d.id = n
      <4>1. PICK d \in destroys' : d.who = who /\ d.id = n
        BY <3>1
      <4>2. CASE d \in destroys
        BY <4>1, <4>2 DEF Holds
      <4>3. CASE d \notin destroys
        <5>1. PICK e \in known : d = [who |-> Life(e), id |-> es[e].id, born |-> now, frame |-> now]
          BY <4>3, <1>7
        <5>2. e \in active /\ Life(e) = who /\ es[e].id = n
          BY <4>1, <5>1
        <5> QED BY <5>2 DEF Holds
      <4> QED BY <4>2, <4>3
    <3>2. CASE \E e \in active' : Life(e)' = who /\ es'[e].id = n
      <4>1. PICK e \in active' : Life(e)' = who /\ es'[e].id = n
        BY <3>2
      <4>2. CASE e \in active \ gone
        BY <4>1, <4>2, <2>2 DEF Holds
      <4>3. CASE e \in started
        <5>1. es'[e].id = NoId
          BY <4>3, <1>1, <1>2, <2>1 DEF LifeInv, IdInv, Idle
        <5> QED BY <5>1, <4>1, <2>1
      <4> QED BY <4>1, <4>2, <4>3
    <3> QED BY <2>4, <3>1, <3>2 DEF Holds
  <2> QED BY <2>3, <2>4
<1>11. ASSUME NEW p \in net, NEW r \in p.recs
       PROVE  /\ lives'[r.who.entity] = 1 /\ r.who.life = 1
              /\ r.who.entity \in active' => ~r.destroy /\ es'[r.who.entity].id = r.id
              /\ \A d \in destroys' : d.who.entity = r.who.entity => d.id = r.id
  <2>1. r.id \in NetworkIds /\ r.id # NoId /\ r.who.entity \in Entities
    BY <1>0, RecordTypes
  <2>2. /\ lives[r.who.entity] = 1 /\ r.who.life = 1
        /\ r.who.entity \in active => ~r.destroy /\ es[r.who.entity].id = r.id
        /\ \A d \in destroys : d.who.entity = r.who.entity => d.id = r.id
    BY DEF LifeInv, RecordHome
  <2>3. r.who.entity \notin started /\ lives'[r.who.entity] = 1
    BY <2>1, <2>2, <1>6
  <2>4. r.who.entity \in active' => ~r.destroy /\ es'[r.who.entity].id = r.id
    BY <2>1, <2>2, <2>3, <1>2
  <2>5. \A d \in destroys' : d.who.entity = r.who.entity => d.id = r.id
    BY <2>2, <1>7
  <2> QED BY <2>2, <2>3, <2>4, <2>5
<1>12. RecordHome'
  BY <1>11 DEF RecordHome
<1>13. \A n : Seen(n)' = Seen(n)
  BY DEF Seen
<1>14. \A p \in net : \A r \in p.recs : r.id \in NetworkIds
  BY <1>0, RecordTypes
<1>15. UpsertBeforeDestroy' /\ AcksSeen' /\ WireShape' /\ AliveShown' /\ NeverAliased'
  BY <1>13 DEF LifeInv, UpsertBeforeDestroy, AcksSeen, WireShape, AliveShown, NeverAliased
<1>16. HolderOrSeen'
  BY <1>10, <1>13, <1>14 DEF LifeInv, HolderOrSeen
<1>17. OlderRetired'
  BY <1>10, <1>14 DEF LifeInv, OlderRetired
<1>18. NoOrphan'
  <2>1. \A n \in NetworkIds : Alive(cl[n]) => Holds(cl[n].owner, n)
    BY DEF LifeInv, NoOrphan, Holds
  <2>2. \A n \in NetworkIds : Alive(cl[n]) => Holds(cl[n].owner, n)'
    BY <2>1, <1>10
  <2> QED BY <2>2 DEF NoOrphan, Holds
<1>19. BuriedGone'
  <2>1. \A b \in buried : b.entity \in Entities
    BY <1>0 DEF TypeOK, Lives
  <2> QED BY <2>1, <1>6, <1>13 DEF LifeInv, BuriedGone
<1> QED BY <1>9, <1>12, <1>15, <1>16, <1>17, <1>18, <1>19 DEF LifeInv

\* A flush sends records of holders only, in a packet newer than all others.
LEMMA FlushLife ==
    ASSUME LifeInv, IdInv', NEW resent \in SUBSET destroys, NEW serialized \in SUBSET active,
           NEW sent \in SUBSET serialized,
           NEW ids \in [Unnamed(serialized) -> NetworkIds],
           NEW pos, Flush(resent, sent, ids, pos)
    PROVE  LifeInv'
<1> DEFINE packet == [frame |-> frame, recs |-> FlushRecords(resent, sent, ids), pos |-> pos]
<1>0. TypeOK /\ IdInv /\ AllocatesIds(ids)
  BY DEF LifeInv, IdInv, Flush
<1>1. UNCHANGED <<frame, active, lives, acks, cl, buried>> /\ phase = "sending" /\ phase' = "inbound"
  BY DEF Flush
<1>2. net \subseteq net' /\ net' \subseteq net \cup {packet}
  BY DEF Flush
<1>3. \A e \in Entities : es'[e].id = WireId(e, ids)
  <2>1. es \in [Entities -> EntityState]
    BY <1>0 DEF TypeOK
  <2>2. \A e \in Entities : \A q : [es[e] EXCEPT !.id = WireId(e, ids), !.pending = q].id = WireId(e, ids)
    BY <2>1 DEF EntityState
  <2> QED BY <2>2 DEF Flush
<1>4. active \subseteq Entities /\ \A e \in active : es[e].id # NoId => es'[e].id = es[e].id
  <2>1. active \subseteq Entities
    BY <1>0 DEF TypeOK
  <2>2. \A e \in active : es[e].id # NoId => e \notin DOMAIN ids
    BY DEF Unnamed
  <2> QED BY <2>1, <2>2, <1>3 DEF WireId
<1>5. /\ \A d \in destroys : \E x \in destroys' : x.who = d.who /\ x.id = d.id
      /\ \A x \in destroys' : \E d \in destroys : /\ x.who = d.who /\ x.id = d.id
                                                  /\ x = IF d \in resent THEN [d EXCEPT !.frame = frame] ELSE d
  <2> DEFINE m(d) == IF d \in resent THEN [d EXCEPT !.frame = frame] ELSE d
  <2>1. destroys' = {m(d) : d \in destroys}
    BY DEF Flush
  <2>2. \A d \in destroys : m(d).id = d.id /\ m(d).who = d.who
    BY <1>0 DEF TypeOK, Destroy
  <2>3. \A x \in destroys' : \E d \in destroys : x = m(d)
    BY <2>1
  <2>4. \A d \in destroys : m(d) \in destroys'
    BY <2>1
  <2>5. \A x \in destroys' : \E d \in destroys : x.who = d.who /\ x.id = d.id /\ x = m(d)
    BY <2>2, <2>3
  <2> QED BY <2>2, <2>4, <2>5
<1>6. OneLife'
  <2>1. /\ \A e \in Entities : lives[e] \in {0, 1}
        /\ \A e \in active : lives[e] = 1
        /\ \A d \in destroys : /\ d.who.entity \notin active
                               /\ lives[d.who.entity] = 1 /\ d.who.life = 1
        /\ \A d, x \in destroys : d.who.entity = x.who.entity => d = x
    BY DEF LifeInv, OneLife
  <2>2. \A d, x \in destroys' : d.who.entity = x.who.entity => d = x
    BY <2>1, <1>5
  <2>3. \A d \in destroys' : /\ d.who.entity \notin active
                             /\ lives[d.who.entity] = 1 /\ d.who.life = 1
    BY <2>1, <1>5
  <2> QED BY <2>1, <2>2, <2>3, <1>1 DEF OneLife
<1>7. ASSUME NEW r \in packet.recs
      PROVE  /\ r.id \in NetworkIds /\ lives[r.who.entity] = 1 /\ r.who.life = 1
             /\ Holds(r.who, r.id)'
             /\ r.who.entity \in active => ~r.destroy /\ es'[r.who.entity].id = r.id
             /\ r.who.entity \notin active => r.destroy
             /\ \A d \in destroys' : d.who.entity = r.who.entity => d.id = r.id
  <2>1. CASE \E d \in resent : r = DestroyRecord(d)
    <3>1. PICK d \in resent : r.destroy /\ r.who = d.who /\ r.id = d.id
      BY <2>1 DEF DestroyRecord
    <3>2. d.id \in NetworkIds
      BY <1>0, DestroyTypes
    <3>3. /\ d.who.entity \notin active /\ lives[d.who.entity] = 1 /\ d.who.life = 1
          /\ \A x \in destroys : d.who.entity = x.who.entity => d = x
      BY DEF LifeInv, OneLife
    <3>4. Holds(r.who, r.id)'
      <4>1. \E x \in destroys' : x.who = d.who /\ x.id = d.id
        BY <1>5
      <4> QED BY <3>1, <4>1 DEF Holds
    <3>5. \A x \in destroys' : x.who.entity = r.who.entity => x.id = r.id
      BY <3>1, <3>3, <1>5
    <3> QED BY <3>1, <3>2, <3>3, <3>4, <3>5
  <2>2. CASE \E e \in sent : r = UpsertRecord(e, WireId(e, ids))
    <3>1. PICK e \in sent : ~r.destroy /\ r.who = Life(e) /\ r.id = WireId(e, ids)
      BY <2>2 DEF UpsertRecord
    <3>2. e \in active /\ e \in Entities /\ es'[e].id = r.id
      BY <3>1, <1>3, <1>4
    <3>3. r.id \in NetworkIds
      BY <3>1, <1>0, FlushIds
    <3>4. lives[e] = 1
      BY <3>2 DEF LifeInv, OneLife
    <3>5. r.who.entity = e /\ r.who.life = 1
      BY <3>1, <3>4 DEF Life
    <3>6. Life(e)' = r.who
      BY <3>1, <1>1 DEF Life
    <3>7. Holds(r.who, r.id)'
      BY <3>2, <3>6, <1>1 DEF Holds
    <3>8. \A d \in destroys' : d.who.entity # e
      BY <3>2, <1>1, <1>6 DEF OneLife
    <3> QED BY <3>1, <3>2, <3>3, <3>4, <3>5, <3>7, <3>8
  <2> QED BY <2>1, <2>2 DEF FlushRecords
<1>8. packet.frame = frame /\ frame \in Nat
  BY <1>0 DEF TypeOK
<1>9. \A p \in net : p.frame \in Nat /\ p.frame < frame
  BY <1>0, <1>1 DEF LifeInv, SentBefore, TypeOK
<1> HIDE DEF packet
<1>10. SentBefore'
  BY <1>1, <1>2, <1>8, <1>9 DEF SentBefore
<1>11. ASSUME NEW p \in net, NEW r \in p.recs
       PROVE  /\ r.id \in NetworkIds
              /\ Holds(r.who, r.id)' <=> Holds(r.who, r.id)
              /\ lives[r.who.entity] = 1 /\ r.who.life = 1
              /\ r.who.entity \in active => ~r.destroy /\ es'[r.who.entity].id = r.id
              /\ \A d \in destroys' : d.who.entity = r.who.entity => d.id = r.id
  <2>1. r.id \in NetworkIds /\ r.id # NoId
    BY <1>0, RecordTypes
  <2>2. /\ lives[r.who.entity] = 1 /\ r.who.life = 1
        /\ r.who.entity \in active => ~r.destroy /\ es[r.who.entity].id = r.id
        /\ \A d \in destroys : d.who.entity = r.who.entity => d.id = r.id
    BY DEF LifeInv, RecordHome
  <2>3. r.who.entity \in active => es'[r.who.entity].id = r.id
    BY <2>1, <2>2, <1>4
  <2>4. \A d \in destroys' : d.who.entity = r.who.entity => d.id = r.id
    BY <2>2, <1>5
  <2>5. \A e \in active : Life(e)' = Life(e) /\ Life(e).entity = e
    BY <1>1 DEF Life
  <2>6. Holds(r.who, r.id) => Holds(r.who, r.id)'
    BY <2>1, <2>5, <1>1, <1>4, <1>5 DEF Holds
  <2>7. Holds(r.who, r.id)' => Holds(r.who, r.id)
    BY <2>2, <2>5, <1>1, <1>5 DEF Holds
  <2> QED BY <2>1, <2>2, <2>3, <2>4, <2>6, <2>7
<1>12. RecordHome'
  BY <1>1, <1>2, <1>7, <1>11 DEF RecordHome
<1>13. UpsertBeforeDestroy'
  <2> SUFFICES ASSUME NEW p \in net', NEW q \in net', NEW r \in p.recs, NEW s \in q.recs,
                      ~r.destroy, s.destroy, r.who.entity = s.who.entity
               PROVE  p.frame < q.frame
    BY DEF UpsertBeforeDestroy
  <2>1. s.who.entity \notin active
    BY <1>2, <1>7, <1>11
  <2>2. p \in net
    BY <2>1, <1>2, <1>7
  <2>3. CASE q \in net
    BY <2>2, <2>3 DEF LifeInv, UpsertBeforeDestroy
  <2>4. CASE q = packet
    BY <2>2, <2>4, <1>8, <1>9
  <2> QED BY <2>3, <2>4, <1>2
<1>14. \A n : Seen(n)' = Seen(n)
  BY <1>1 DEF Seen
<1>15. HolderOrSeen'
  <2> SUFFICES ASSUME NEW p \in net', NEW r \in p.recs, ~r.destroy
               PROVE  Holds(r.who, r.id)' \/ p.frame < Seen(r.id)'
    BY DEF HolderOrSeen
  <2>1. CASE p \in net
    BY <2>1, <1>11, <1>14 DEF LifeInv, HolderOrSeen
  <2>2. CASE p = packet
    BY <2>2, <1>7
  <2> QED BY <2>1, <2>2, <1>2
<1>16. OlderRetired'
  <2> SUFFICES ASSUME NEW p \in net', NEW q \in net', NEW r \in p.recs, NEW s \in q.recs,
                      r.id = s.id, ~Holds(r.who, r.id)', Holds(s.who, s.id)'
               PROVE  p.frame < q.frame
    BY DEF OlderRetired
  <2>1. p \in net
    BY <1>2, <1>7
  <2>2. CASE q \in net
    BY <2>1, <2>2, <1>11 DEF LifeInv, OlderRetired
  <2>3. CASE q = packet
    BY <2>1, <2>3, <1>8, <1>9
  <2> QED BY <2>2, <2>3, <1>2
<1>17. AcksSeen' /\ WireShape' /\ NeverAliased'
  BY <1>1, <1>14 DEF LifeInv, AcksSeen, WireShape, NeverAliased
<1>18. AliveShown'
  BY <1>1, <1>2 DEF LifeInv, AliveShown
<1>19. NoOrphan'
  <2> SUFFICES ASSUME NEW n \in NetworkIds, Alive(cl[n])
               PROVE  \/ \E e \in active : Life(e)' = cl[n].owner /\ es'[e].id = n
                      \/ \E d \in destroys' : d.who = cl[n].owner /\ d.id = n
    BY <1>1 DEF NoOrphan
  <2>1. n # NoId
    BY LifecycleAssumption DEF NetworkIds, NoId
  <2>2. \A e \in active : Life(e)' = Life(e)
    BY <1>1 DEF Life
  <2> QED BY <2>1, <2>2, <1>4, <1>5 DEF LifeInv, NoOrphan
<1>20. BuriedGone'
  <2> SUFFICES ASSUME NEW b \in buried
               PROVE  /\ b.entity \notin active /\ lives[b.entity] = 1 /\ b.life = 1
                      /\ \A p \in net' : \A r \in p.recs :
                           r.who = b /\ ~r.destroy => p.frame < Seen(r.id)
    BY <1>1, <1>14 DEF BuriedGone
  <2>1. /\ b.entity \notin active /\ lives[b.entity] = 1 /\ b.life = 1
        /\ \A p \in net : \A r \in p.recs : r.who = b /\ ~r.destroy => p.frame < Seen(r.id)
    BY DEF LifeInv, BuriedGone
  <2>2. \A r \in packet.recs : r.who = b => r.destroy
    BY <2>1, <1>7
  <2> QED BY <2>1, <2>2, <1>2
<1> QED
  BY <1>6, <1>10, <1>12, <1>13, <1>15, <1>16, <1>17, <1>18, <1>19, <1>20 DEF LifeInv

\* An ACK erases a destroy only if its packet carried a destroy of that entity.
LEMMA ErasedWasSent ==
    ASSUME IdInv, NEW p \in net, NEW d \in AcknowledgedDestroys(p)
    PROVE  d \in destroys /\ \E r \in p.recs : r.destroy /\ r.who.entity = d.who.entity
<1> DEFINE e == d.who.entity
           M == {x \in Matches(e, p.frame) : x.born <= d.born}
           R == {r \in p.recs : r.destroy /\ r.who.entity = e}
<1>1. d \in destroys /\ d \in Matches(e, p.frame) /\ Cardinality(M) <= Cardinality(R)
  BY DEF AcknowledgedDestroys, DestroyAckCount
<1>2. d.born \in Nat
  BY <1>1, DestroyTypes DEF IdInv
<1>3. d \in M
  BY <1>1, <1>2
<1>4. IsFiniteSet(destroys)
  <2> DEFINE f == [x \in destroys |-> x.id]
  <2>1. f \in [destroys -> NetworkIds]
    BY DestroyTypes DEF IdInv
  <2>2. \A x, y \in destroys : f[x] = f[y] => x = y
    BY DEF IdInv, IdsPartitioned
  <2>3. f \in Injection(destroys, NetworkIds)
    BY <2>1, <2>2 DEF Injection, IsInjective
  <2>4. IsFiniteSet(NetworkIds)
    BY IdsFinite
  <2> HIDE DEF f
  <2> QED BY <2>3, <2>4, FS_Injection
<1>5. M \in SUBSET destroys
  BY DEF Matches
<1>6. IsFiniteSet(M)
  BY <1>4, <1>5, FS_Subset
<1>7. Cardinality(M) \in Nat /\ Cardinality(M) # 0
  BY <1>3, <1>6, FS_EmptySet, FS_CardinalityType
<1>8. R # {}
  <2>1. Cardinality({}) = 0
    BY FS_EmptySet
  <2> HIDE DEF M
  <2> QED BY <2>1, <1>1, <1>7
<1> QED BY <1>1, <1>8

\* An ACK frees an id only after the client has seen the destroy.
LEMMA ReceiveAckLife ==
    ASSUME LifeInv, IdInv', NEW p \in acks, ReceiveAck(p)
    PROVE  LifeInv'
<1> DEFINE erased == IF p \in tracked THEN AcknowledgedDestroys(p) ELSE {}
<1>0. TypeOK /\ IdInv /\ p \in net
  BY DEF LifeInv, IdInv, TypeOK
<1>1. UNCHANGED <<frame, phase, active, lives, net, acks, cl, buried>> /\ destroys' = destroys \ erased
  BY DEF ReceiveAck
<1>2. active \subseteq Entities /\ p.frame \in Nat /\ es \in [Entities -> EntityState]
  BY <1>0 DEF TypeOK
<1>3. \A e \in Entities : es'[e].id = es[e].id
  BY <1>2, AckStateType DEF ReceiveAck
<1>4. \A d \in erased : d \in destroys /\ \E r \in p.recs : r.destroy /\ r.who.entity = d.who.entity
  BY <1>0, ErasedWasSent
<1> HIDE DEF erased
<1>5. OneLife' /\ SentBefore' /\ UpsertBeforeDestroy'
  BY <1>1 DEF LifeInv, OneLife, SentBefore, UpsertBeforeDestroy
<1>6. RecordHome'
  BY <1>1, <1>2, <1>3 DEF LifeInv, RecordHome
<1>7. \A n : Seen(n)' = Seen(n)
  BY <1>1 DEF Seen
<1>8. AcksSeen' /\ WireShape' /\ AliveShown' /\ NeverAliased' /\ BuriedGone'
  BY <1>1, <1>7 DEF LifeInv, AcksSeen, WireShape, AliveShown, NeverAliased, BuriedGone
<1>9. \A e \in active : Life(e)' = Life(e)
  BY <1>1 DEF Life
<1>10. \A who, n : Holds(who, n)' => Holds(who, n)
  BY <1>1, <1>2, <1>3, <1>9 DEF Holds
<1>11. ASSUME NEW who, NEW n, Holds(who, n), ~Holds(who, n)'
       PROVE  \E d \in destroys : /\ d.who = who /\ d.id = n
                                  /\ \E s \in p.recs : s.destroy /\ s.who.entity = who.entity /\ s.id = n
  <2>1. PICK d \in erased : d.who = who /\ d.id = n
    BY <1>1, <1>2, <1>3, <1>9, <1>11 DEF Holds
  <2>2. PICK s \in p.recs : s.destroy /\ s.who.entity = d.who.entity
    BY <1>4
  <2>3. s.id = d.id
    BY <1>0, <1>4, <2>2 DEF LifeInv, RecordHome
  <2> QED BY <1>4, <2>1, <2>2, <2>3
<1>12. ASSUME NEW q \in net, NEW r \in q.recs, ~r.destroy,
              Holds(r.who, r.id), ~Holds(r.who, r.id)'
       PROVE  q.frame < Seen(r.id)
  <2>1. PICK s \in p.recs : s.destroy /\ s.who.entity = r.who.entity /\ s.id = r.id
    BY <1>11, <1>12
  <2>2. q.frame < p.frame
    BY <1>0, <1>12, <2>1 DEF LifeInv, UpsertBeforeDestroy
  <2>3. p.frame <= Seen(r.id)
    BY <2>1 DEF LifeInv, AcksSeen
  <2>4. q.frame \in Nat /\ Seen(r.id) \in Nat
    BY <1>0, RecordTypes, SeenType
  <2> QED BY <2>2, <2>3, <2>4, <1>2
<1>13. HolderOrSeen'
  BY <1>1, <1>7, <1>12 DEF LifeInv, HolderOrSeen
<1>14. OlderRetired'
  <2> SUFFICES ASSUME NEW q \in net, NEW x \in net, NEW r \in q.recs, NEW s \in x.recs,
                      r.id = s.id, ~Holds(r.who, r.id)', Holds(s.who, s.id)'
               PROVE  q.frame < x.frame
    BY <1>1 DEF OlderRetired
  <2>1. Holds(s.who, s.id) /\ s.id \in NetworkIds
    BY <1>0, <1>10, RecordTypes
  <2>2. ~Holds(r.who, r.id)
    <3> SUFFICES ASSUME Holds(r.who, r.id) PROVE FALSE
      OBVIOUS
    <3>1. r.who = s.who
      BY <2>1, <1>0, OneHolder
    <3> QED BY <3>1
  <2> QED BY <2>1, <2>2 DEF LifeInv, OlderRetired
<1>15. NoOrphan'
  <2> SUFFICES ASSUME NEW n \in NetworkIds, Alive(cl[n])
               PROVE  \/ \E e \in active : Life(e)' = cl[n].owner /\ es'[e].id = n
                      \/ \E d \in destroys' : d.who = cl[n].owner /\ d.id = n
    BY <1>1 DEF NoOrphan
  <2>1. PICK who : who = cl[n].owner
    OBVIOUS
  <2>2. Holds(who, n)
    BY <2>1 DEF LifeInv, NoOrphan, Holds
  <2>3. PICK q \in net : \E r \in q.recs :
           ~r.destroy /\ r.id = n /\ r.who = who /\ q.frame = cl[n].frame
    BY <2>1 DEF LifeInv, AliveShown
  <2>4. q.frame \in Nat /\ Seen(n) = q.frame
    BY <2>3, <1>0 DEF Seen, TypeOK
  <2>5. Holds(who, n)'
    BY <2>2, <2>3, <2>4, <1>12
  <2> QED BY <2>1, <2>5, <1>1 DEF Holds
<1> QED BY <1>5, <1>6, <1>8, <1>13, <1>14, <1>15 DEF LifeInv

\* The invariant is inductive as long as no handle is replicated twice.
LEMMA NextLifeInv ==
    ASSUME MayRestart = FALSE
    PROVE  LifeInv /\ [Next]_vars => LifeInv'
<1> SUFFICES ASSUME LifeInv, [Next]_vars PROVE LifeInv'
  OBVIOUS
<1>0. IdInv /\ IdInv' /\ TypeOK
  BY NextIdInv DEF LifeInv, IdInv
<1>1. ASSUME NEW stopped \in SUBSET Entities, NEW started \in SUBSET Entities,
             Step(stopped, started)
      PROVE  LifeInv'
  <2>1. /\ frame + 1 \in Nat /\ stopped \in SUBSET active /\ started \cap active = {}
        /\ \A e \in started : lives[e] = 0
    BY <1>0, <1>1 DEF Step, TypeOK
  <2>2. /\ Deactivate(stopped, frame + 1)
        /\ active' = (active \ stopped) \cup started
        /\ lives' = [e \in Entities |-> IF e \in started THEN lives[e] + 1 ELSE lives[e]]
        /\ UNCHANGED <<net, acks, cl, buried>>
    BY <1>1 DEF Step
  <2>3. SentBefore'
    BY <1>0, <1>1 DEF Step, LifeInv, SentBefore, TypeOK
  <2> QED BY <2>1, <2>2, <2>3, <1>0, DeactivateLife
<1>2. ASSUME NEW gone \in SUBSET Entities, BeginFlush(gone)
      PROVE  LifeInv'
  <2>1. frame \in Nat /\ gone \in SUBSET active
    BY <1>0, <1>2 DEF BeginFlush, TypeOK
  <2>2. /\ Deactivate(gone, frame)
        /\ active' = (active \ gone) \cup {}
        /\ UNCHANGED <<lives, net, acks, cl, buried>>
    BY <1>2 DEF BeginFlush
  <2>3. lives' = [e \in Entities |-> IF e \in {} THEN lives[e] + 1 ELSE lives[e]]
    BY <2>2, <1>0 DEF TypeOK
  <2>4. SentBefore'
    BY <1>2 DEF BeginFlush, LifeInv, SentBefore
  <2>5. {} \in SUBSET Entities /\ {} \cap active = {} /\ \A e \in {} : lives[e] = 0
    OBVIOUS
  <2> QED BY <2>1, <2>2, <2>3, <2>4, <2>5, <1>0, DeactivateLife
<1>3. ASSUME NEW resent \in SUBSET destroys, NEW serialized \in SUBSET active,
             NEW sent \in SUBSET serialized,
             NEW ids \in [Unnamed(serialized) -> NetworkIds],
             NEW pos \in Orders(FlushRecords(resent, sent, ids)),
             Flush(resent, sent, ids, pos)
      PROVE  LifeInv'
  BY <1>0, <1>3, FlushLife
<1>4. ASSUME NEW p \in acks, ReceiveAck(p)
      PROVE  LifeInv'
  BY <1>0, <1>4, ReceiveAckLife
<1>5. ASSUME NEW p \in net, ReceiveUpdate(p)
      PROVE  LifeInv'
  BY <1>0, <1>5, ReceiveUpdateLife
<1>6. CASE UNCHANGED vars
  <2>1. /\ UNCHANGED <<frame, phase, active, lives, es, destroys, net, acks, cl, buried>>
        /\ UNCHANGED vars
    BY <1>6 DEF vars, serverVars
  <2>2. \A who, n : Holds(who, n)' <=> Holds(who, n)
    BY <2>1 DEF Holds, Life
  <2>3. \A n : Seen(n)' = Seen(n)
    BY <2>1 DEF Seen
  <2>4. OneLife' /\ SentBefore' /\ RecordHome' /\ UpsertBeforeDestroy' /\ WireShape' /\ AliveShown'
    BY <2>1 DEF LifeInv, OneLife, SentBefore, RecordHome, UpsertBeforeDestroy, WireShape, AliveShown
  <2>5. HolderOrSeen' /\ OlderRetired' /\ AcksSeen' /\ BuriedGone'
    BY <2>1, <2>2, <2>3 DEF LifeInv, HolderOrSeen, OlderRetired, AcksSeen, BuriedGone
  <2>6. NoOrphan' /\ NeverAliased'
    BY <2>1 DEF LifeInv, NoOrphan, NeverAliased, Life
  <2> QED BY <2>4, <2>5, <2>6, <1>0 DEF LifeInv
<1> QED BY <1>1, <1>2, <1>3, <1>4, <1>5, <1>6 DEF Next

\* The invariant holds in every reachable state.
LEMMA LifeInvAlways ==
    ASSUME MayRestart = FALSE
    PROVE  Spec => []LifeInv
<1>1. Init => LifeInv
  <2> SUFFICES ASSUME Init PROVE LifeInv
    OBVIOUS
  <2>1. IdInv
    BY InitIdInv
  <2>2. \A n \in NetworkIds : ~Alive(cl[n]) /\ cl[n].shows = cl[n].owner
    BY DEF Init, NewWireState, Alive
  <2>3. OneLife
    BY DEF Init, OneLife
  <2>4. /\ SentBefore /\ RecordHome /\ UpsertBeforeDestroy
        /\ HolderOrSeen /\ OlderRetired /\ AcksSeen /\ BuriedGone
    BY DEF Init, SentBefore, RecordHome, UpsertBeforeDestroy, HolderOrSeen, OlderRetired,
           AcksSeen, BuriedGone
  <2>5. WireShape /\ AliveShown /\ NoOrphan /\ NeverAliased
    BY <2>2 DEF WireShape, AliveShown, NoOrphan, NeverAliased
  <2> QED BY <2>1, <2>3, <2>4, <2>5 DEF LifeInv
<1>2. LifeInv /\ [Next]_vars => LifeInv'
  BY NextLifeInv
<1> QED BY <1>1, <1>2, PTL DEF Spec

\* A reused wire id never writes one entity's state into the local entity of
\* another, however late, often or out of order packets and ACKs arrive.
THEOREM NeverAliasedAlways == MayRestart = FALSE => (Spec => []NeverAliased)
<1> SUFFICES ASSUME MayRestart = FALSE PROVE Spec => []NeverAliased
  OBVIOUS
<1>1. Spec => []LifeInv
  BY LifeInvAlways
<1>2. LifeInv => NeverAliased
  BY DEF LifeInv
<1> QED BY <1>1, <1>2, PTL

\* Whatever the client shows, the server replicates or still means to destroy:
\* the destroy queue gives an id up only after the client has applied the destroy.
THEOREM NoOrphanAlways == MayRestart = FALSE => (Spec => []NoOrphan)
<1> SUFFICES ASSUME MayRestart = FALSE PROVE Spec => []NoOrphan
  OBVIOUS
<1>1. Spec => []LifeInv
  BY LifeInvAlways
<1>2. LifeInv => NoOrphan
  BY DEF LifeInv
<1> QED BY <1>1, <1>2, PTL

\* An entity whose destroy was applied never comes back on the client: its late
\* updates are older than the tombstone, or than the id's next entity.
THEOREM NoResurrectionAlways == MayRestart = FALSE => (Spec => []NoResurrection)
<1> SUFFICES ASSUME MayRestart = FALSE PROVE Spec => []NoResurrection
  OBVIOUS
<1>1. Spec => []LifeInv
  BY LifeInvAlways
<1>2. LifeInv => NoResurrection
  <2> SUFFICES ASSUME LifeInv, NEW n \in NetworkIds, cl[n].owner \in buried PROVE FALSE
    BY DEF NoResurrection
  <2>1. TypeOK
    BY DEF LifeInv, IdInv
  <2>2. cl[n].owner.life = 1 /\ Nobody.life = 0
    BY DEF LifeInv, BuriedGone, Nobody
  <2>3. Alive(cl[n])
    BY <2>2 DEF Alive
  <2>4. PICK p \in net : \E r \in p.recs :
           ~r.destroy /\ r.id = n /\ r.who = cl[n].owner /\ p.frame = cl[n].frame
    BY <2>3 DEF LifeInv, AliveShown
  <2>5. p.frame < Seen(n)
    BY <2>4 DEF LifeInv, BuriedGone
  <2>6. Seen(n) = p.frame /\ p.frame \in Nat
    BY <2>1, <2>3, <2>4 DEF Seen, TypeOK
  <2> QED BY <2>5, <2>6
<1> QED BY <1>1, <1>2, PTL

--------------------------------------------------------------------------------
(* The tombstones of the client. *)

\* Tombstones are as old as the count of the records that made them.
Aged(of, n) ==
  /\ n \in Nat /\ of = [w \in DOMAIN of |-> of[w]]
  /\ \A w \in DOMAIN of : of[w].age \in Nat /\ of[w].age < n

\* The ages are queued in their order, and those of the tombstones that are
\* there have not been consumed yet.
Queued(of, ages, begin, n) ==
  /\ IsSeq(ages) /\ begin \in 0 .. Len(ages)
  /\ \A k \in 1 .. Len(ages) : ages[k].age \in Nat /\ ages[k].age < n
  /\ \A j, k \in 1 .. Len(ages) : j < k => ages[j].age < ages[k].age
  /\ \A w \in DOMAIN of : \E k \in (begin + 1) .. Len(ages) :
       ages[k].wire = w /\ ages[k].gen = of[w].gen /\ ages[k].age = of[w].age

TombsOK(t) ==
  /\ t = [of |-> t.of, ages |-> t.ages, begin |-> t.begin, next |-> t.next]
  /\ Aged(t.of, t.next) /\ Queued(t.of, t.ages, t.begin, t.next)

\* o lists the wire ids with a tombstone by age.
OrderOK(of, o) ==
  /\ IsSeq(o) /\ \A k \in 1 .. Len(o) : o[k] \in DOMAIN of
  /\ \A w \in DOMAIN of : \E k \in 1 .. Len(o) : o[k] = w
  /\ \A j, k \in 1 .. Len(o) : j < k => of[o[j]].age < of[o[k]].age

\* The inductive invariant.
TombInv ==
  /\ TombsOK(tombs) /\ OrderOK(tombs.of, order)
  /\ Len(order) <= MaxTombstones /\ Len(tombs.ages) <= 2 * MaxTombstones

\* The table of the client counts as everybody does.
LEMMA SameCardinality ==
  ASSUME NEW S
  PROVE  Str!Cardinality(S) = Cardinality(S)
BY Zenon DEF Str!Cardinality, Cardinality

\* The order counts the tombstones and tells them apart.
LEMMA OrderCounts ==
  ASSUME NEW of, NEW n, Aged(of, n), NEW o, OrderOK(of, o)
  PROVE  /\ IsFiniteSet(DOMAIN of) /\ Cardinality(DOMAIN of) = Len(o) /\ Len(o) \in Nat
         /\ \A j, k \in 1 .. Len(o) : o[j] = o[k] => j = k
<1>1. PICK m \in Nat : m = Len(o)
  BY DEF OrderOK, IsSeq
<1>2. PICK D : D = DOMAIN of
  OBVIOUS
<1>3. \A j, k \in 1 .. m : o[j] = o[k] => j = k
  <2> SUFFICES ASSUME NEW j \in 1 .. m, NEW k \in 1 .. m, o[j] = o[k], j < k PROVE FALSE
    BY <1>1
  <2>1. of[o[j]].age < of[o[k]].age /\ o[k] \in DOMAIN of
    BY <1>1 DEF OrderOK
  <2> QED BY <2>1 DEF Aged
<1>4. o \in Bijection(1 .. m, D)
  <2>1. o \in [1 .. m -> D]
    BY <1>1, <1>2 DEF OrderOK, IsSeq
  <2>2. \A w \in D : \E k \in 1 .. m : o[k] = w
    BY <1>1, <1>2 DEF OrderOK
  <2> QED BY <2>1, <2>2, <1>3 DEF Bijection, Injection, Surjection, IsInjective
<1>5. IsFiniteSet(1 .. m) /\ Cardinality(1 .. m) = m
  BY FS_Interval
<1>6. ExistsBijection(1 .. m, D)
  BY <1>4 DEF ExistsBijection
<1>7. IsFiniteSet(D) /\ Cardinality(D) = m
  BY <1>5, <1>6, FS_Bijection
<1> QED BY <1>1, <1>2, <1>3, <1>7

\* Consumed ages are dropped.
LEMMA DropOK ==
  ASSUME NEW t, TombsOK(t), NEW c, c = Str!DropConsumed(t)
  PROVE  TombsOK(c) /\ c.of = t.of /\ c.next = t.next /\ Len(c.ages) <= Len(t.ages)
<1>1. PICK of, ages, begin, n : of = t.of /\ ages = t.ages /\ begin = t.begin /\ n = t.next
  OBVIOUS
<1>2. t = [of |-> of, ages |-> ages, begin |-> begin, next |-> n]
  BY <1>1 DEF TombsOK
<1>3. /\ Aged(of, n) /\ IsSeq(ages) /\ Len(ages) \in Nat /\ begin \in 0 .. Len(ages)
      /\ \A k \in 1 .. Len(ages) : ages[k].age \in Nat /\ ages[k].age < n
      /\ \A j, k \in 1 .. Len(ages) : j < k => ages[j].age < ages[k].age
      /\ \A w \in DOMAIN of : \E k \in (begin + 1) .. Len(ages) :
           ages[k].wire = w /\ ages[k].gen = of[w].gen /\ ages[k].age = of[w].age
  BY <1>1 DEF TombsOK, Queued, IsSeq
<1>4. CASE begin = Len(ages)
  <2>1. c = [of |-> of, ages |-> <<>>, begin |-> 0, next |-> n]
    BY <1>1, <1>2, <1>4 DEF Str!DropConsumed
  <2>2. DOMAIN of = {}
    <3> SUFFICES ASSUME NEW w \in DOMAIN of PROVE FALSE
      OBVIOUS
    <3>1. PICK k \in (begin + 1) .. Len(ages) : ages[k].wire = w
      BY <1>3
    <3> QED BY <1>3, <1>4, <3>1
  <2>3. Queued(of, <<>>, 0, n)
    BY <2>2, EmptyIsSeq DEF Queued
  <2> QED BY <1>1, <1>3, <2>1, <2>3, EmptyIsSeq DEF TombsOK
<1>5. CASE begin # Len(ages) /\ begin >= CompactAt /\ begin * 2 >= Len(ages)
  <2>1. PICK m, s : m = Len(ages) /\ s = SubSeq(ages, begin + 1, m)
    OBVIOUS
  <2>2. c = [of |-> of, ages |-> s, begin |-> 0, next |-> n]
    BY <1>1, <1>2, <1>5, <2>1 DEF Str!DropConsumed
  <2>3. m \in Nat /\ begin + 1 \in 1 .. m + 1 /\ begin + 1 <= m
    BY <1>3, <1>5, <2>1
  <2>4. /\ IsSeq(s) /\ Len(s) = m - begin
        /\ \A i \in 1 .. Len(s) : s[i] = ages[(begin + 1) + i - 1]
    BY <1>3, <2>1, <2>3, RestIsSeq
  <2>5. Len(s) \in Nat /\ \A i \in 1 .. Len(s) : s[i] = ages[begin + i] /\ begin + i \in 1 .. m
    BY <1>3, <2>3, <2>4
  <2>6. \A k \in 1 .. Len(s) : s[k].age \in Nat /\ s[k].age < n
    BY <1>3, <2>1, <2>5
  <2>7. \A j, k \in 1 .. Len(s) : j < k => s[j].age < s[k].age
    <3> SUFFICES ASSUME NEW j \in 1 .. Len(s), NEW k \in 1 .. Len(s), j < k
                 PROVE  s[j].age < s[k].age
      OBVIOUS
    <3>1. begin + j \in 1 .. m /\ begin + k \in 1 .. m /\ begin + j < begin + k
      BY <1>3, <2>1, <2>5
    <3> QED BY <1>3, <2>1, <2>5, <3>1
  <2>8. ASSUME NEW w \in DOMAIN of
        PROVE  \E k \in 1 .. Len(s) : s[k].wire = w /\ s[k].gen = of[w].gen /\ s[k].age = of[w].age
    <3>1. PICK k \in (begin + 1) .. m :
             ages[k].wire = w /\ ages[k].gen = of[w].gen /\ ages[k].age = of[w].age
      BY <1>3, <2>1
    <3>2. k - begin \in 1 .. Len(s) /\ begin + (k - begin) = k
      BY <1>3, <2>3, <2>4
    <3>3. s[k - begin] = ages[k]
      BY <2>5, <3>2
    <3> QED BY <3>1, <3>2, <3>3
  <2>9. Queued(of, s, 0, n)
    BY <2>4, <2>5, <2>6, <2>7, <2>8 DEF Queued
  <2>10. TombsOK(c)
    BY <1>3, <2>2, <2>9 DEF TombsOK
  <2> QED BY <1>1, <1>3, <2>1, <2>2, <2>3, <2>4, <2>10
<1>6. CASE begin # Len(ages) /\ ~(begin >= CompactAt /\ begin * 2 >= Len(ages))
  <2>1. c = t
    BY <1>1, <1>6 DEF Str!DropConsumed
  <2> QED BY <1>1, <1>3, <2>1
<1> QED BY <1>4, <1>5, <1>6

\* The ages are rebuilt in the order of the tombstones.
LEMMA RebuiltOK ==
  ASSUME NEW of, NEW n, Aged(of, n), NEW o, OrderOK(of, o), NEW r, r = Str!RebuiltAges(of)
  PROVE  Queued(of, r, 0, n) /\ Len(r) = Len(o)
<1> DEFINE m == Len(o)
           Sorted(q) == /\ {q[i] : i \in DOMAIN q} = DOMAIN of
                        /\ \A i, j \in DOMAIN q : i < j => of[q[i]].age < of[q[j]].age
<1>1. Cardinality(DOMAIN of) = m /\ m \in Nat
  BY OrderCounts
<1>2. o \in [1 .. m -> DOMAIN of] /\ Sorted(o)
  <2>1. o = [k \in 1 .. m |-> o[k]] /\ (\A k \in 1 .. m : o[k] \in DOMAIN of)
        /\ (\A w \in DOMAIN of : \E k \in 1 .. m : o[k] = w)
        /\ \A j, k \in 1 .. m : j < k => of[o[j]].age < of[o[k]].age
    BY DEF OrderOK, IsSeq
  <2>2. DOMAIN o = 1 .. m
    BY <2>1
  <2>3. {o[i] : i \in DOMAIN o} = DOMAIN of
    BY <2>1, <2>2
  <2> QED BY <2>1, <2>2, <2>3
<1>3. PICK q : q = Str!OldestFirst(of)
  OBVIOUS
<1>4. q = CHOOSE p \in [1 .. Str!Cardinality(DOMAIN of) -> DOMAIN of] : Sorted(p)
  BY <1>3, Zenon DEF Str!OldestFirst
<1>5. q \in [1 .. m -> DOMAIN of] /\ Sorted(q)
  <2> HIDE DEF Sorted, m
  <2>1. o \in [1 .. Str!Cardinality(DOMAIN of) -> DOMAIN of] /\ Sorted(o)
    BY <1>1, <1>2, SameCardinality
  <2>2. q \in [1 .. Str!Cardinality(DOMAIN of) -> DOMAIN of] /\ Sorted(q)
    BY <1>4, <2>1, Zenon
  <2> QED BY <1>1, <2>2, SameCardinality
<1>6. r = [i \in DOMAIN q |-> [wire |-> q[i], gen |-> of[q[i]].gen, age |-> of[q[i]].age]]
  BY <1>3 DEF Str!RebuiltAges
<1>7. DOMAIN q = 1 .. m
  BY <1>5
<1>8. r = [i \in 1 .. m |-> [wire |-> q[i], gen |-> of[q[i]].gen, age |-> of[q[i]].age]]
  BY <1>6, <1>7
<1>9. IsSeq(r) /\ Len(r) = m
  <2> HIDE DEF m
  <2>1. r = [i \in 1 .. m |-> r[i]]
    BY <1>8
  <2> QED BY <1>1, <2>1, FunctionIsSeq
<1>10. \A k \in 1 .. m : r[k].wire = q[k] /\ r[k].gen = of[q[k]].gen /\ r[k].age = of[q[k]].age
  BY <1>8
<1>11. \A k \in 1 .. m : r[k].age \in Nat /\ r[k].age < n
  BY <1>5, <1>10 DEF Aged
<1>12. \A j, k \in 1 .. m : j < k => r[j].age < r[k].age
  BY <1>5, <1>7, <1>10
<1>13. \A w \in DOMAIN of : \E k \in (0 + 1) .. m :
         r[k].wire = w /\ r[k].gen = of[w].gen /\ r[k].age = of[w].age
  <2>1. \A w \in DOMAIN of : \E k \in 1 .. m : q[k] = w
    BY <1>5, <1>7
  <2> QED BY <1>10, <2>1
<1> HIDE DEF m
<1>14. 0 \in 0 .. m
  BY <1>1
<1>15. Queued(of, r, 0, n)
  BY <1>9, <1>11, <1>12, <1>13, <1>14, Zenon DEF Queued
<1> QED BY <1>9, <1>15 DEF m

\* Compaction keeps what the queue stands for, and bounds it.
LEMMA CompactOK ==
  ASSUME NEW t, TombsOK(t), NEW o, OrderOK(t.of, o), Len(o) <= 2 * MaxTombstones,
         NEW c, c = Str!CompactAges(t)
  PROVE  TombsOK(c) /\ c.of = t.of /\ c.next = t.next /\ Len(c.ages) <= 2 * MaxTombstones
<1>1. PICK d : d = Str!DropConsumed(t)
  OBVIOUS
<1>2. TombsOK(d) /\ d.of = t.of /\ d.next = t.next
  BY <1>1, DropOK
<1>3. MaxTombstones * 2 = 2 * MaxTombstones /\ MaxTombstones \in Nat
  BY StoreAssumption
<1>4. CASE Len(d.ages) <= MaxTombstones * 2
  <2>1. c = d
    BY <1>1, <1>4 DEF Str!CompactAges
  <2> QED BY <1>2, <1>3, <1>4, <2>1
<1>5. CASE ~(Len(d.ages) <= MaxTombstones * 2)
  <2>1. PICK r : r = Str!RebuiltAges(t.of)
    OBVIOUS
  <2>2. c = [d EXCEPT !.ages = r, !.begin = 0]
    BY <1>1, <1>5, <2>1 DEF Str!CompactAges
  <2>3. c = [of |-> t.of, ages |-> r, begin |-> 0, next |-> t.next]
    BY <1>2, <2>2 DEF TombsOK
  <2>4. Aged(t.of, t.next)
    BY DEF TombsOK
  <2>5. Queued(t.of, r, 0, t.next) /\ Len(r) = Len(o)
    BY <2>1, <2>4, RebuiltOK
  <2> QED BY <2>3, <2>4, <2>5 DEF TombsOK
<1> QED BY <1>4, <1>5

\* The tombstones but those of W.
Fewer(of, W) == [x \in DOMAIN of \ W |-> of[x]]

\* Of some of the tombstones the queue stands for all it did.
LEMMA FewerQueued ==
  ASSUME NEW of, NEW n, Aged(of, n), NEW ages, NEW begin, Queued(of, ages, begin, n),
         NEW W, NEW g, g = Fewer(of, W)
  PROVE  /\ Aged(g, n) /\ Queued(g, ages, begin, n) /\ DOMAIN g = DOMAIN of \ W
         /\ \A x \in DOMAIN g : g[x] = of[x]
<1>1. DOMAIN g = DOMAIN of \ W /\ \A x \in DOMAIN g : g[x] = of[x]
  BY DEF Fewer
<1>2. g = [x \in DOMAIN g |-> g[x]]
  BY DEF Fewer
<1>3. Aged(g, n)
  BY <1>1, <1>2 DEF Aged
<1>4. Queued(g, ages, begin, n)
  BY <1>1 DEF Queued
<1> QED BY <1>1, <1>3, <1>4

\* The order without one wire id.
LEMMA OthersOK ==
  ASSUME NEW of, NEW n, Aged(of, n), NEW o, OrderOK(of, o), NEW w,
         NEW c, c = Str!Others(o, w), NEW g, g = Fewer(of, {w})
  PROVE  OrderOK(g, c) /\ Len(c) \in Nat /\ Len(c) <= Len(o)
<1>1. PICK S : S = {k \in DOMAIN o : o[k] # w}
  OBVIOUS
<1>2. IsSeq(o) /\ DOMAIN o = 1 .. Len(o) /\ S \subseteq 1 .. Len(o)
  <2>1. IsSeq(o)
    BY DEF OrderOK
  <2> QED BY <1>1, <2>1, SeqOfElements
<1>3. c = Chosen(o, S)
  <2>1. c = Str!Chosen(o, S)
    BY <1>1 DEF Str!Others
  <2>2. Str!Chosen(o, S) = Chosen(o, S)
    BY Zenon DEF Str!Chosen, Chosen
  <2> QED BY <2>1, <2>2
<1>4. ChosenFrom(c, o, S)
  BY <1>2, <1>3, ChosenPlaces
<1>5. IsSeq(c) /\ Len(c) \in Nat
  BY <1>4 DEF ChosenFrom, IsSeq
<1>6. PICK at \in [1 .. Len(c) -> S] :
       /\ \A k \in 1 .. Len(c) : c[k] = o[at[k]]
       /\ \A j, k \in 1 .. Len(c) : j < k => at[j] < at[k]
       /\ \A i \in S : \E k \in 1 .. Len(c) : at[k] = i
  BY <1>4 DEF ChosenFrom
<1>7. DOMAIN g = DOMAIN of \ {w} /\ \A x \in DOMAIN g : g[x] = of[x]
  BY DEF Fewer
<1>8. \A k \in 1 .. Len(c) : at[k] \in 1 .. Len(o) /\ c[k] = o[at[k]] /\ c[k] \in DOMAIN g
  <2> SUFFICES ASSUME NEW k \in 1 .. Len(c)
               PROVE  at[k] \in 1 .. Len(o) /\ c[k] = o[at[k]] /\ c[k] \in DOMAIN g
    OBVIOUS
  <2>1. at[k] \in S /\ c[k] = o[at[k]]
    BY <1>6
  <2>2. at[k] \in 1 .. Len(o) /\ o[at[k]] # w
    BY <1>1, <1>2, <2>1
  <2> QED BY <1>7, <2>1, <2>2 DEF OrderOK
<1>9. ASSUME NEW x \in DOMAIN g PROVE \E k \in 1 .. Len(c) : c[k] = x
  <2>1. PICK i \in 1 .. Len(o) : o[i] = x
    BY <1>7 DEF OrderOK
  <2>2. i \in S
    BY <1>1, <1>2, <1>7, <2>1
  <2> QED BY <1>6, <2>1, <2>2
<1>10. ASSUME NEW j \in 1 .. Len(c), NEW k \in 1 .. Len(c), j < k PROVE g[c[j]].age < g[c[k]].age
  <2>1. at[j] < at[k] /\ at[j] \in 1 .. Len(o) /\ at[k] \in 1 .. Len(o)
    BY <1>6, <1>8, <1>10
  <2>2. of[o[at[j]]].age < of[o[at[k]]].age
    BY <2>1 DEF OrderOK
  <2> QED BY <1>7, <1>8, <2>2
<1>11. OrderOK(g, c)
  BY <1>5, <1>8, <1>9, <1>10 DEF OrderOK
<1>12. Aged(g, n)
  <2>1. g = [x \in DOMAIN g |-> g[x]]
    BY DEF Fewer
  <2> QED BY <1>7, <2>1 DEF Aged
<1>13. /\ IsFiniteSet(DOMAIN of) /\ Cardinality(DOMAIN of) = Len(o)
       /\ Cardinality(DOMAIN g) = Len(c)
  BY <1>11, <1>12, OrderCounts
<1>14. Cardinality(DOMAIN g) <= Cardinality(DOMAIN of)
  BY <1>7, <1>13, FS_Subset
<1> QED BY <1>5, <1>11, <1>13, <1>14

\* One more tombstone, or a later one of its wire id, is the youngest.
LEMMA RecordedOK ==
  ASSUME NEW t, TombsOK(t), NEW o, OrderOK(t.of, o), NEW w, NEW f,
         NEW r, r = Str!Recorded(t, w, f), NEW p, p = Append(Str!Others(o, w), w)
  PROVE  TombsOK(r) /\ OrderOK(r.of, p) /\ Len(p) <= Len(o) + 1
<1>1. PICK of, ages, begin, n : of = t.of /\ ages = t.ages /\ begin = t.begin /\ n = t.next
  OBVIOUS
<1>2. Aged(of, n) /\ Queued(of, ages, begin, n) /\ OrderOK(of, o)
  BY <1>1 DEF TombsOK
<1>3. PICK gen : gen = IF w \in DOMAIN of THEN of[w].gen + 1 ELSE 0
  OBVIOUS
<1>4. PICK v, a, g, q : /\ v = [frame |-> f, gen |-> gen, age |-> n] /\ g = Str!With(of, w, v)
                        /\ a = [wire |-> w, gen |-> gen, age |-> n] /\ q = Append(ages, a)
  OBVIOUS
<1>5. r = [of |-> g, ages |-> q, begin |-> begin, next |-> n + 1]
  BY <1>1, <1>3, <1>4 DEF Str!Recorded
<1>6. v.gen = gen /\ v.age = n /\ a.wire = w /\ a.gen = gen /\ a.age = n
  BY <1>4
<1>7. /\ g = [x \in DOMAIN g |-> g[x]] /\ DOMAIN g = DOMAIN of \cup {w} /\ g[w] = v
      /\ \A x \in DOMAIN of \ {w} : g[x] = of[x]
  BY <1>4 DEF Str!With
<1>8. /\ n \in Nat /\ IsSeq(ages) /\ Len(ages) \in Nat /\ begin \in 0 .. Len(ages)
      /\ \A x \in DOMAIN of : of[x].age \in Nat /\ of[x].age < n
  BY <1>2 DEF Aged, Queued, IsSeq
<1>9. Aged(g, n + 1)
  BY <1>6, <1>7, <1>8 DEF Aged
<1>10. /\ IsSeq(q) /\ Len(q) = Len(ages) + 1 /\ q[Len(ages) + 1] = a
       /\ \A i \in 1 .. Len(ages) : q[i] = ages[i]
  BY <1>4, <1>8, AppendIsSeq
<1>11. Queued(g, q, begin, n + 1)
  <2>1. \A k \in 1 .. Len(q) : q[k].age \in Nat /\ q[k].age < n + 1
    <3> SUFFICES ASSUME NEW k \in 1 .. Len(q) PROVE q[k].age \in Nat /\ q[k].age < n + 1
      OBVIOUS
    <3>1. CASE k = Len(ages) + 1
      BY <1>6, <1>8, <1>10, <3>1
    <3>2. CASE k \in 1 .. Len(ages)
      BY <1>2, <1>8, <1>10, <3>2 DEF Queued
    <3> QED BY <1>8, <1>10, <3>1, <3>2
  <2>2. ASSUME NEW j \in 1 .. Len(q), NEW k \in 1 .. Len(q), j < k PROVE q[j].age < q[k].age
    <3>1. j \in 1 .. Len(ages) /\ q[j] = ages[j]
      BY <1>8, <1>10, <2>2
    <3>2. CASE k = Len(ages) + 1
      BY <1>2, <1>6, <1>10, <3>1, <3>2 DEF Queued
    <3>3. CASE k \in 1 .. Len(ages)
      BY <1>2, <1>10, <2>2, <3>1, <3>3 DEF Queued
    <3> QED BY <1>8, <1>10, <3>2, <3>3
  <2>3. ASSUME NEW x \in DOMAIN g
        PROVE  \E k \in (begin + 1) .. Len(q) :
                 q[k].wire = x /\ q[k].gen = g[x].gen /\ q[k].age = g[x].age
    <3>1. CASE x = w
      <4>1. Len(ages) + 1 \in (begin + 1) .. Len(q)
        BY <1>8, <1>10
      <4> QED BY <1>6, <1>7, <1>10, <3>1, <4>1
    <3>2. CASE x # w
      <4>1. x \in DOMAIN of /\ g[x] = of[x]
        BY <1>7, <3>2
      <4>2. PICK k \in (begin + 1) .. Len(ages) :
               ages[k].wire = x /\ ages[k].gen = of[x].gen /\ ages[k].age = of[x].age
        BY <1>2, <4>1 DEF Queued
      <4>3. k \in (begin + 1) .. Len(q) /\ k \in 1 .. Len(ages)
        BY <1>8, <1>10
      <4>4. q[k] = ages[k]
        BY <1>10, <4>3
      <4> QED BY <4>1, <4>2, <4>3, <4>4
    <3> QED BY <3>1, <3>2
  <2>4. begin \in 0 .. Len(q)
    BY <1>8, <1>10
  <2> QED BY <1>10, <2>1, <2>2, <2>3, <2>4 DEF Queued
<1>12. TombsOK(r)
  BY <1>5, <1>9, <1>11 DEF TombsOK
<1>13. PICK c, h : c = Str!Others(o, w) /\ h = Fewer(of, {w})
  OBVIOUS
<1>14. OrderOK(h, c) /\ Len(c) \in Nat /\ Len(c) <= Len(o) /\ IsSeq(c)
  <2>1. OrderOK(h, c) /\ Len(c) \in Nat /\ Len(c) <= Len(o)
    BY <1>2, <1>13, OthersOK
  <2> QED BY <2>1 DEF OrderOK
<1>15. /\ IsSeq(p) /\ Len(p) = Len(c) + 1 /\ p[Len(c) + 1] = w
       /\ \A i \in 1 .. Len(c) : p[i] = c[i]
  BY <1>13, <1>14, AppendIsSeq
<1>16. \A i \in 1 .. Len(c) : c[i] \in DOMAIN of \ {w} /\ h[c[i]] = of[c[i]] /\ g[c[i]] = of[c[i]]
  <2>1. \A i \in 1 .. Len(c) : c[i] \in DOMAIN h
    BY <1>14 DEF OrderOK
  <2> QED BY <1>7, <1>13, <2>1 DEF Fewer
<1>17. OrderOK(g, p)
  <2>1. \A k \in 1 .. Len(p) : p[k] \in DOMAIN g
    <3> SUFFICES ASSUME NEW k \in 1 .. Len(p) PROVE p[k] \in DOMAIN g
      OBVIOUS
    <3>1. k = Len(c) + 1 \/ k \in 1 .. Len(c)
      BY <1>14, <1>15
    <3> QED BY <1>7, <1>15, <1>16, <3>1
  <2>2. ASSUME NEW x \in DOMAIN g PROVE \E k \in 1 .. Len(p) : p[k] = x
    <3>1. CASE x = w
      <4>1. Len(c) + 1 \in 1 .. Len(p)
        BY <1>14, <1>15
      <4> QED BY <1>15, <3>1, <4>1
    <3>2. CASE x # w
      <4>1. x \in DOMAIN h
        BY <1>7, <1>13, <3>2 DEF Fewer
      <4>2. PICK k \in 1 .. Len(c) : c[k] = x
        BY <1>14, <4>1 DEF OrderOK
      <4>3. k \in 1 .. Len(p)
        BY <1>14, <1>15
      <4> QED BY <1>15, <4>2, <4>3
    <3> QED BY <3>1, <3>2
  <2>3. ASSUME NEW j \in 1 .. Len(p), NEW k \in 1 .. Len(p), j < k PROVE g[p[j]].age < g[p[k]].age
    <3>1. j \in 1 .. Len(c) /\ p[j] = c[j]
      BY <1>14, <1>15, <2>3
    <3>2. g[p[j]] = of[c[j]] /\ of[c[j]].age \in Nat /\ of[c[j]].age < n /\ g[p[j]] = h[c[j]]
      BY <1>8, <1>16, <3>1
    <3>3. CASE k = Len(c) + 1
      BY <1>6, <1>7, <1>15, <3>2, <3>3
    <3>4. CASE k \in 1 .. Len(c)
      <4>1. h[c[j]].age < h[c[k]].age
        BY <1>14, <2>3, <3>1, <3>4 DEF OrderOK
      <4> QED BY <1>15, <1>16, <3>2, <3>4, <4>1
    <3> QED BY <1>14, <1>15, <3>3, <3>4
  <2> QED BY <1>15, <2>1, <2>2, <2>3 DEF OrderOK
<1>18. Len(o) \in Nat /\ r.of = g
  BY <1>2, <1>5 DEF OrderOK, IsSeq
<1> QED BY <1>12, <1>14, <1>15, <1>17, <1>18

\* The order without its oldest wire id.
LEMMA TailOK ==
  ASSUME NEW of, NEW n, Aged(of, n), NEW o, OrderOK(of, o), Len(o) > 0,
         NEW g, g = Fewer(of, {o[1]})
  PROVE  OrderOK(g, Tail(o)) /\ Len(Tail(o)) = Len(o) - 1
<1>1. PICK p : p = Tail(o)
  OBVIOUS
<1>2. IsSeq(o) /\ Len(o) \in Nat /\ \A k \in 1 .. Len(o) : o[k] \in DOMAIN of
  BY DEF OrderOK, IsSeq
<1>3. IsSeq(p) /\ Len(p) = Len(o) - 1 /\ \A i \in 1 .. Len(p) : p[i] = o[i + 1]
  <2>1. PICK R : o \in Seq(R)
    BY <1>2, SeqOfElements
  <2>2. o # <<>>
    BY <1>2, EmptyIsSeq
  <2>3. p \in Seq(R) /\ Len(p) = Len(o) - 1 /\ \A i \in 1 .. Len(p) : p[i] = o[i + 1]
    BY <1>1, <2>1, <2>2, HeadTailProperties
  <2> QED BY <2>3, SeqIsSeq
<1>4. DOMAIN g = DOMAIN of \ {o[1]} /\ \A x \in DOMAIN g : g[x] = of[x]
  BY DEF Fewer
<1>5. \A j, k \in 1 .. Len(o) : o[j] = o[k] => j = k
  BY OrderCounts
<1>6. ASSUME NEW k \in 1 .. Len(p) PROVE k + 1 \in 1 .. Len(o) /\ p[k] = o[k + 1] /\ p[k] \in DOMAIN g
  <2>1. k + 1 \in 1 .. Len(o) /\ 1 \in 1 .. Len(o) /\ k + 1 # 1
    BY <1>2, <1>3
  <2>2. o[k + 1] # o[1] /\ o[k + 1] \in DOMAIN of
    BY <1>2, <1>5, <2>1
  <2> QED BY <1>3, <1>4, <2>1, <2>2
<1>7. ASSUME NEW x \in DOMAIN g PROVE \E k \in 1 .. Len(p) : p[k] = x
  <2>1. PICK i \in 1 .. Len(o) : o[i] = x
    BY <1>4 DEF OrderOK
  <2>2. i # 1
    BY <1>4, <2>1
  <2>3. i - 1 \in 1 .. Len(p) /\ (i - 1) + 1 = i
    BY <1>2, <1>3, <2>2
  <2>4. p[i - 1] = o[i]
    BY <1>3, <2>3
  <2> QED BY <2>1, <2>3, <2>4
<1>8. ASSUME NEW j \in 1 .. Len(p), NEW k \in 1 .. Len(p), j < k PROVE g[p[j]].age < g[p[k]].age
  <2>1. j + 1 \in 1 .. Len(o) /\ k + 1 \in 1 .. Len(o) /\ j + 1 < k + 1
    BY <1>6, <1>8
  <2>2. of[o[j + 1]].age < of[o[k + 1]].age
    BY <2>1 DEF OrderOK
  <2> QED BY <1>4, <1>6, <2>2
<1>9. OrderOK(g, p)
  BY <1>3, <1>6, <1>7, <1>8 DEF OrderOK
<1> QED BY <1>1, <1>3, <1>9

\* With one tombstone too many, ages are consumed up to that of the oldest.
LEMMA EvictOldest ==
  ASSUME NEW t, TombsOK(t), NEW o, OrderOK(t.of, o), Len(o) = MaxTombstones + 1
  PROVE  \E g, k :
           /\ g = Fewer(t.of, {o[1]})
           /\ Queued(g, t.ages, k, t.next)
           /\ Str!Evict(t) = Str!CompactAges([t EXCEPT !.begin = k, !.of = g])
<1>1. PICK of, ages, begin, n : of = t.of /\ ages = t.ages /\ begin = t.begin /\ n = t.next
  OBVIOUS
<1>2. Aged(of, n) /\ Queued(of, ages, begin, n) /\ OrderOK(of, o)
  BY <1>1 DEF TombsOK
<1>3. /\ n \in Nat /\ IsSeq(ages) /\ Len(ages) \in Nat /\ begin \in 0 .. Len(ages)
      /\ \A k \in 1 .. Len(ages) : ages[k].age \in Nat
      /\ \A j, k \in 1 .. Len(ages) : j < k => ages[j].age < ages[k].age
      /\ \A x \in DOMAIN of : of[x].age \in Nat
  BY <1>2 DEF Aged, Queued, IsSeq
<1>4. 1 \in 1 .. Len(o) /\ MaxTombstones \in Nat /\ Len(o) - MaxTombstones = 1
  BY StoreAssumption
<1>5. PICK w : w = o[1]
  OBVIOUS
<1>6. w \in DOMAIN of
  BY <1>2, <1>4, <1>5 DEF OrderOK
<1>7. \A x \in DOMAIN of : x # w => of[w].age < of[x].age
  <2> SUFFICES ASSUME NEW x \in DOMAIN of, x # w PROVE of[w].age < of[x].age
    OBVIOUS
  <2>1. PICK i \in 1 .. Len(o) : o[i] = x
    BY <1>2 DEF OrderOK
  <2>2. 1 < i
    BY <1>5, <2>1
  <2> QED BY <1>2, <1>4, <1>5, <2>1, <2>2 DEF OrderOK
<1>8. PICK k \in (begin + 1) .. Len(ages) :
         ages[k].wire = w /\ ages[k].gen = of[w].gen /\ ages[k].age = of[w].age
  BY <1>2, <1>6 DEF Queued
<1>9. k \in 1 .. Len(ages) /\ k \in Nat /\ begin < k
  BY <1>3
<1>10. ASSUME NEW i \in (begin + 1) .. k, Str!IsCurrent(of, ages[i]) PROVE i = k
  <2>1. i \in 1 .. Len(ages)
    BY <1>3, <1>9
  <2>2. ages[i].wire \in DOMAIN of /\ of[ages[i].wire].age = ages[i].age
    BY <1>10 DEF Str!IsCurrent
  <2>3. ~(ages[i].age < of[w].age)
    BY <1>3, <1>6, <1>7, <2>2
  <2>4. ~(i < k)
    BY <1>3, <1>8, <1>9, <2>1, <2>3
  <2> QED BY <1>9, <2>4
<1>11. Str!IsCurrent(of, ages[k])
  BY <1>6, <1>8 DEF Str!IsCurrent
<1>12. Str!Live(t, k) = {k}
  <2>1. k \in (begin + 1) .. k
    BY <1>3, <1>9
  <2> QED BY <1>1, <1>10, <1>11, <2>1 DEF Str!Live
<1>13. ASSUME NEW m \in (begin + 1) .. Len(ages), m < k PROVE Str!Live(t, m) = {}
  <2> SUFFICES ASSUME NEW i \in (begin + 1) .. m, Str!IsCurrent(of, ages[i]) PROVE FALSE
    BY <1>1 DEF Str!Live
  <2>1. i \in (begin + 1) .. k /\ i # k
    BY <1>3, <1>9, <1>13
  <2> QED BY <1>10, <2>1
<1>14. Str!Cardinality({k}) = 1 /\ Str!Cardinality({}) = 0
  BY SameCardinality, FS_Singleton, FS_EmptySet
<1> DEFINE ends == {m \in (begin + 1) .. Len(ages) : Str!Cardinality(Str!Live(t, m)) = 1} \cup {Len(ages)}
<1>15. k \in ends /\ \A m \in ends : k <= m
  <2>1. k \in ends
    BY <1>12, <1>14
  <2>2. ASSUME NEW m \in ends PROVE k <= m
    <3>1. m \in (begin + 1) .. Len(ages)
      BY <1>3, <1>9
    <3>2. CASE m = Len(ages)
      BY <1>3, <1>9, <3>2
    <3>3. CASE Str!Cardinality(Str!Live(t, m)) = 1
      <4>1. ASSUME m < k PROVE FALSE
        <5>1. Str!Live(t, m) = {}
          BY <1>13, <3>1, <4>1
        <5> QED BY <1>14, <3>3, <5>1
      <4> QED BY <1>3, <1>9, <3>1, <4>1
    <3> QED BY <3>2, <3>3
  <2> QED BY <2>1, <2>2
<1>16. \A m \in ends : m \in Nat
  BY <1>3
<1> HIDE DEF ends
<1>17. PICK end : end = CHOOSE i \in ends : \A m \in ends : i <= m
  OBVIOUS
<1>18. end \in ends /\ \A m \in ends : end <= m
  BY <1>15, <1>17, Zenon
<1>19. end = k
  BY <1>9, <1>15, <1>16, <1>18
<1>20. PICK g : g = Fewer(of, {w})
  OBVIOUS
<1>21. Str!Evict(t) = Str!CompactAges([t EXCEPT !.begin = k, !.of = g])
  <2>1. PICK over : over = Str!Cardinality(DOMAIN t.of) - MaxTombstones
    OBVIOUS
  <2>2. over = 1
    BY <1>1, <1>2, <1>4, <2>1, OrderCounts, SameCardinality
  <2>3. PICK E : E = {m \in (t.begin + 1) .. Len(t.ages) : Str!Cardinality(Str!Live(t, m)) = over} \cup {Len(t.ages)}
    OBVIOUS
  <2>4. E = ends
    BY <1>1, <2>2, <2>3 DEF ends
  <2>5. PICK last : last = CHOOSE i \in E : \A m \in E : i <= m
    OBVIOUS
  <2>6. last = k
    BY <1>17, <1>19, <2>4, <2>5, Zenon
  <2>7. PICK h : h = [x \in DOMAIN t.of \ {t.ages[i].wire : i \in Str!Live(t, last)} |-> t.of[x]]
    OBVIOUS
  <2>8. {t.ages[i].wire : i \in Str!Live(t, last)} = {w}
    BY <1>1, <1>8, <1>12, <2>6
  <2>9. h = g
    BY <1>1, <1>20, <2>7, <2>8 DEF Fewer
  <2>10. ~(over <= 0)
    BY <2>2
  <2>11. Str!Evict(t) = Str!CompactAges([t EXCEPT !.begin = last, !.of = h])
    BY <2>1, <2>3, <2>5, <2>7, <2>10, Zenon DEF Str!Evict
  <2> QED BY <2>6, <2>9, <2>11
<1>22. Queued(g, ages, k, n)
  <2>1. Queued(g, ages, begin, n) /\ DOMAIN g = DOMAIN of \ {w} /\ \A x \in DOMAIN g : g[x] = of[x]
    <3>1. PICK W : W = {w} /\ g = Fewer(of, W)
      BY <1>20
    <3>2. Queued(g, ages, begin, n)
      BY <1>2, <3>1, FewerQueued, Zenon
    <3>3. DOMAIN g = DOMAIN of \ {w} /\ \A x \in DOMAIN g : g[x] = of[x]
      BY <1>20 DEF Fewer
    <3> QED BY <3>2, <3>3
  <2>2. ASSUME NEW x \in DOMAIN g
        PROVE  \E i \in (k + 1) .. Len(ages) :
                 ages[i].wire = x /\ ages[i].gen = g[x].gen /\ ages[i].age = g[x].age
    <3>1. PICK i \in (begin + 1) .. Len(ages) :
             ages[i].wire = x /\ ages[i].gen = g[x].gen /\ ages[i].age = g[x].age
      BY <2>1 DEF Queued
    <3>2. of[w].age < ages[i].age /\ i \in 1 .. Len(ages)
      BY <1>3, <1>7, <2>1, <3>1
    <3>3. k < i
      BY <1>3, <1>8, <1>9, <3>2, SMTT(30)
    <3>4. i \in (k + 1) .. Len(ages)
      BY <1>9, <3>2, <3>3
    <3> QED BY <3>1, <3>4
  <2>3. k \in 0 .. Len(ages)
    BY <1>9
  <2> QED BY <2>1, <2>2, <2>3 DEF Queued
<1> QED BY <1>1, <1>5, <1>20, <1>21, <1>22

\* Eviction leaves the youngest.
LEMMA EvictOK ==
  ASSUME NEW t, TombsOK(t), NEW o, OrderOK(t.of, o), Len(o) <= MaxTombstones + 1,
         Len(t.ages) <= 2 * MaxTombstones, NEW d, d = Str!Evict(t),
         NEW p, p = IF Len(o) > MaxTombstones THEN Tail(o) ELSE o
  PROVE  TombsOK(d) /\ OrderOK(d.of, p) /\ Len(p) <= MaxTombstones /\ Len(d.ages) <= 2 * MaxTombstones
<1>1. MaxTombstones \in Nat /\ MaxTombstones > 0 /\ Len(o) \in Nat /\ Aged(t.of, t.next)
  BY StoreAssumption DEF OrderOK, IsSeq, TombsOK
<1>2. CASE Len(o) <= MaxTombstones
  <2>1. Str!Cardinality(DOMAIN t.of) - MaxTombstones <= 0
    BY <1>1, <1>2, OrderCounts, SameCardinality
  <2>2. d = t
    BY <2>1, Zenon DEF Str!Evict
  <2> QED BY <1>1, <1>2, <2>2
<1>3. CASE Len(o) = MaxTombstones + 1
  <2>1. PICK g, k : /\ g = Fewer(t.of, {o[1]})
                    /\ Queued(g, t.ages, k, t.next)
                    /\ d = Str!CompactAges([t EXCEPT !.begin = k, !.of = g])
    BY <1>3, EvictOldest
  <2>2. OrderOK(g, Tail(o)) /\ Len(Tail(o)) = MaxTombstones /\ p = Tail(o)
    BY <1>1, <1>3, <2>1, TailOK
  <2>3. PICK e : e = [t EXCEPT !.begin = k, !.of = g]
    OBVIOUS
  <2>4. e = [of |-> g, ages |-> t.ages, begin |-> k, next |-> t.next]
    BY <2>3 DEF TombsOK
  <2>5. Aged(g, t.next)
    <3>1. Queued(t.of, t.ages, t.begin, t.next)
      BY DEF TombsOK
    <3>2. PICK W : W = {o[1]} /\ g = Fewer(t.of, W)
      BY <2>1
    <3> QED BY <1>1, <3>1, <3>2, FewerQueued
  <2>6. TombsOK(e) /\ e.of = g
    BY <2>1, <2>4, <2>5 DEF TombsOK
  <2>7. MaxTombstones <= 2 * MaxTombstones
    BY <1>1
  <2>8. TombsOK(d) /\ d.of = g /\ Len(d.ages) <= 2 * MaxTombstones
    BY <2>1, <2>2, <2>3, <2>6, <2>7, CompactOK
  <2> QED BY <1>1, <2>2, <2>8
<1> QED BY <1>1, <1>2, <1>3

\* A destroy is recorded.
LEMMA RecordTombstoneStep ==
  ASSUME TombInv, NEW w, NEW f, Str!RecordTombstone(w, f)
  PROVE  TombInv'
<1>1. CASE UNCHANGED <<tombs, order>>
  BY <1>1 DEF TombInv
<1>2. CASE ~UNCHANGED <<tombs, order>>
  <2>1. PICK r, o : r = Str!Recorded(tombs, w, f) /\ o = Append(Str!Others(order, w), w)
    OBVIOUS
  <2>2. PICK c : c = Str!CompactAges(r)
    OBVIOUS
  <2>3. tombs' = Str!Evict(c) /\ order' = IF Len(o) > MaxTombstones THEN Tail(o) ELSE o
    BY <1>2, <2>1, <2>2 DEF Str!RecordTombstone
  <2>4. TombsOK(r) /\ OrderOK(r.of, o) /\ Len(o) <= Len(order) + 1
    BY <2>1, RecordedOK DEF TombInv
  <2>5. MaxTombstones \in Nat \ {0} /\ Len(o) \in Nat /\ Len(order) \in Nat /\ Len(order) <= MaxTombstones
    BY <2>4, StoreAssumption DEF OrderOK, IsSeq, TombInv
  <2>6. Len(o) <= MaxTombstones + 1 /\ Len(o) <= 2 * MaxTombstones
    BY <2>4, <2>5
  <2>7. TombsOK(c) /\ c.of = r.of /\ Len(c.ages) <= 2 * MaxTombstones
    BY <2>2, <2>4, <2>6, CompactOK
  <2> QED BY <2>3, <2>4, <2>6, <2>7, EvictOK DEF TombInv
<1> QED BY <1>1, <1>2

\* A full record takes a tombstone away.
LEMMA EraseTombstoneStep ==
  ASSUME TombInv, NEW w, Str!EraseTombstone(w)
  PROVE  TombInv'
<1>1. PICK g, o : g = Fewer(tombs.of, {w}) /\ o = Str!Others(order, w)
  OBVIOUS
<1>2. tombs' = [tombs EXCEPT !.of = g] /\ order' = o
  BY <1>1 DEF Str!EraseTombstone, Str!Without, Fewer
<1>3. Aged(tombs.of, tombs.next) /\ Queued(tombs.of, tombs.ages, tombs.begin, tombs.next)
  BY DEF TombInv, TombsOK
<1>4. tombs' = [of |-> g, ages |-> tombs.ages, begin |-> tombs.begin, next |-> tombs.next]
  BY <1>2 DEF TombInv, TombsOK
<1>5. Aged(g, tombs.next) /\ Queued(g, tombs.ages, tombs.begin, tombs.next)
  BY <1>1, <1>3, FewerQueued
<1>6. OrderOK(g, o) /\ Len(o) \in Nat /\ Len(o) <= Len(order)
  BY <1>1, <1>3, OthersOK DEF TombInv
<1>7. Len(order) \in Nat /\ MaxTombstones \in Nat
  BY StoreAssumption DEF TombInv, OrderOK, IsSeq
<1>8. TombsOK(tombs')
  BY <1>4, <1>5 DEF TombsOK
<1> QED BY <1>2, <1>4, <1>6, <1>7, <1>8 DEF TombInv

\* Every step of the client's table keeps the invariant.
LEMMA NextTombInv ==
  ASSUME TombInv, Str!Next
  PROVE  TombInv'
<1>1. CASE \E w \in Wires, f \in 1 .. StoreFrames : Str!RejectFullUpsert(w, f)
  BY <1>1 DEF Str!RejectFullUpsert, TombInv
<1>2. ASSUME NEW w \in Wires, NEW f \in 1 .. StoreFrames, NEW m \in Modes, NEW b \in BOOLEAN,
             Str!FullUpsert(w, f, m, b, b)
      PROVE  TombInv'
  <2>1. Str!EraseTombstone(w)
    BY <1>2, Zenon DEF Str!FullUpsert
  <2> QED BY <2>1, EraseTombstoneStep
<1>3. CASE \E w \in Wires, f \in 1 .. StoreFrames, b \in BOOLEAN : Str!DeltaUpsert(w, f, b, b)
  BY <1>3 DEF Str!DeltaUpsert, TombInv
<1>4. ASSUME NEW w \in Wires, NEW f \in 1 .. StoreFrames, Str!Destroy(w, f) PROVE TombInv'
  <2>1. Str!RecordTombstone(w, f)
    BY <1>4, SMTT(30) DEF Str!Destroy
  <2> QED BY <2>1, RecordTombstoneStep
<1>5. CASE Str!ApplyBufferedFrame
  BY <1>5 DEF Str!ApplyBufferedFrame, TombInv
<1>6. CASE \E i \in 1 .. Len(store.ent), m \in Modes : Str!SetEntityMode(i, m)
  BY <1>6 DEF Str!SetEntityMode, TombInv
<1>7. ASSUME NEW errors, Str!ApplyRollback(errors) PROVE TombInv'
  BY <1>7 DEF Str!ApplyRollback, TombInv
<1>8. ASSUME NEW done, Str!BlendSnapErrors(done) PROVE TombInv'
  BY <1>8 DEF Str!BlendSnapErrors, TombInv
<1>9. CASE \E local \in locals.alive : Str!ApplicationDestroys(local)
  BY <1>9 DEF Str!ApplicationDestroys, TombInv
<1> QED BY <1>1, <1>2, <1>3, <1>4, <1>5, <1>6, <1>7, <1>8, <1>9, Zenon DEF Str!Next

\* Only the oldest tombstone is given up: whatever stale ages are queued before
\* it, however often the queue is compacted or rebuilt, and whatever the limit.
THEOREM OldestAlwaysEvicted == MCSpec => []OldestTombstoneEvicted
<1>1. MCInit => TombInv
  <2> SUFFICES ASSUME MCInit PROVE TombInv
    OBVIOUS
  <2>1. tombs = [of |-> <<>>, ages |-> <<>>, begin |-> 0, next |-> 0] /\ order = <<>>
    BY DEF MCInit, Str!Init
  <2>2. DOMAIN <<>> = {} /\ <<>> = [w \in {} |-> <<>>[w]]
    OBVIOUS
  <2>3. Aged(<<>>, 0)
    BY <2>2 DEF Aged
  <2>4. Queued(<<>>, <<>>, 0, 0)
    BY <2>2, EmptyIsSeq DEF Queued
  <2>5. OrderOK(<<>>, <<>>)
    BY <2>2, EmptyIsSeq DEF OrderOK
  <2> QED BY <2>1, <2>3, <2>4, <2>5, EmptyIsSeq, StoreAssumption DEF TombInv, TombsOK
<1>2. TombInv /\ [MCNext]_<<part, vars, storeVars>> => TombInv'
  <2> SUFFICES ASSUME TombInv, [MCNext]_<<part, vars, storeVars>> PROVE TombInv'
    OBVIOUS
  <2>1. CASE UNCHANGED <<tombs, order>>
    BY <2>1 DEF TombInv
  <2>2. CASE Str!Next
    BY <2>2, NextTombInv
  <2> QED BY <2>1, <2>2 DEF MCNext, storeVars
<1>3. TombInv => OldestTombstoneEvicted
  <2> SUFFICES ASSUME TombInv PROVE Str!OldestTombstoneEvicted
    BY DEF OldestTombstoneEvicted
  <2>1. OrderOK(tombs.of, order) /\ IsSeq(order) /\ Len(order) \in Nat /\ DOMAIN order = 1 .. Len(order)
    <3>1. OrderOK(tombs.of, order) /\ IsSeq(order)
      BY DEF TombInv, OrderOK
    <3> QED BY <3>1, SeqOfElements DEF IsSeq
  <2>2. DOMAIN tombs.of = Str!Range(order)
    BY <2>1 DEF OrderOK, Str!Range
  <2>3. \A k \in 1 .. (Len(order) - 1) : tombs.of[order[k]].age < tombs.of[order[k + 1]].age
    <3> SUFFICES ASSUME NEW k \in 1 .. (Len(order) - 1)
                 PROVE  tombs.of[order[k]].age < tombs.of[order[k + 1]].age
      OBVIOUS
    <3>1. k \in 1 .. Len(order) /\ k + 1 \in 1 .. Len(order) /\ k < k + 1
      BY <2>1
    <3> QED BY <2>1, <3>1 DEF OrderOK
  <2>4. Len(tombs.ages) <= 2 * MaxTombstones
    BY DEF TombInv
  <2> QED BY <2>2, <2>3, <2>4 DEF Str!OldestTombstoneEvicted
<1> QED BY <1>1, <1>2, <1>3, PTL DEF MCSpec


================================================================================
