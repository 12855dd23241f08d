-------------------------- MODULE ServerFramesProofs --------------------------
(* Proofs about what is kept and made of server frames.                         *)
(*                                                                              *)
(* FramePool: the counts of the frames are exact, every held frame is what was  *)
(* captured for its holder, and no index is lost or handed out twice, for every *)
(* number of clients, slots, entities and frames. A reference is                *)
(* <<client, slot, place, index, frame>>, its place 0 for the baseline (and its *)
(* frame 0) and i for the i-th pending entry. An operation goes through states  *)
(* of the pool that are consistent with a set of references (Sound): releasing  *)
(* one takes it out of the set, retaining one puts it in.                       *)
(*                                                                              *)
(* Display: what is drawn moves without a jump and what is left of a correction *)
(* shrinks, for every set of values, ring, and number of frames. The invariant  *)
(* relates the frames as they are presented to the frames as they are predicted *)
(* (Fades).                                                                     *)
(*                                                                              *)
(* BufferedPlayback: the registry shows the frame that was applied last and a   *)
(* cue is heard once, for every set of components and every ring. A frame is    *)
(* pushed as its difference to the one before, so that the invariant speaks of  *)
(* what the next frame will not push (PlayedRing, RegistryFollows), and of      *)
(* where the cues that were not heard yet wait (CuesWait).                      *)
EXTENDS MCServerFrames, NaturalFacts, FiniteSetTheorems, SequenceTheorems, TLAPS

\* The references a client's entity state holds, and all of them.
Holds(h, st) ==
  IF h[3] = 0 THEN st.baseline # None /\ h[4] = st.baseline /\ h[5] = 0
  ELSE /\ h[3] <= Len(st.pending)
       /\ h[4] = st.pending[h[3]].id /\ h[5] = st.pending[h[3]].frame
Places == Clients \X Slots \X Nat \X Nat \X Nat
RefsOf(c, s, st) == {h \in Places : h[1] = c /\ h[2] = s /\ Holds(h, st)}
Refs == {h \in Places : Holds(h, state[h[1]][h[2]])}

\* The references to one frame.
To(H, q) == {h \in H : h[4] = q}

\* The shape of what is shared.
SharedOK(sh) ==
  /\ sh = [pool |-> sh.pool, free |-> sh.free, slot |-> sh.slot]
  /\ sh.pool \in Seq(QuantizedFrame \cup {FreeFrame})
  /\ sh.free \in Seq(1..Len(sh.pool))
  /\ sh.slot \in [Slots -> ReplicatedSlot]

\* A frame is counted as often as it is referred to, and in use if it is at all.
Counted(sh, H) ==
  \A q \in 1..Len(sh.pool) : /\ sh.pool[q].refs = Cardinality(To(H, q))
                             /\ sh.pool[q].active <=> To(H, q) # {}

\* The free list has every index that is not in use, once.
FreeOK(sh) ==
  /\ \A q \in 1..Len(sh.pool) : sh.pool[q].active <=> ~\E i \in 1..Len(sh.free) : sh.free[i] = q
  /\ \A i, j \in 1..Len(sh.free) : sh.free[i] = sh.free[j] => i = j

\* The slots list the frames of their entities, but for those in X: emptied.
ListsOK(sh, X) ==
  \A s \in Slots :
    sh.slot[s].frames =
      IF s \in X THEN {} ELSE {q \in 1..Len(sh.pool) : sh.pool[q].active /\ sh.pool[q].slot = s}

Good(sh, H, X) ==
  /\ SharedOK(sh) /\ H \subseteq Places /\ IsFiniteSet(H)
  /\ \A h \in H : h[4] \in 1..Len(sh.pool)
  /\ Counted(sh, H) /\ FreeOK(sh) /\ ListsOK(sh, X)

\* A held frame is what was captured for its holder, a frame in use is of the
\* entity in its slot, and the cache is an index; but for the emptied slots.
ViewIn(sh, c, s) == IF sh.slot[s].cacheable THEN Everyone ELSE View[c]
Fits(sh, h) ==
  /\ sh.pool[h[4]].slot = h[2] /\ sh.pool[h[4]].entity = sh.slot[h[2]].entity
  /\ sh.pool[h[4]].view = ViewIn(sh, h[1], h[2])
  /\ h[3] # 0 => sh.pool[h[4]].frame = h[5]
Owned(sh, H, X) == \A h \in H : h[2] \notin X => Fits(sh, h)
InPlace(sh, f) ==
  /\ f.entity = sh.slot[f.slot].entity
  /\ sh.slot[f.slot].cacheable => f.view = Everyone
ActiveOwn(sh, X) ==
  \A q \in 1..Len(sh.pool) :
    sh.pool[q].active /\ sh.pool[q].slot \notin X => InPlace(sh, sh.pool[q])
CacheOK(sh) == \A s \in Slots : sh.slot[s].cache = None \/ sh.slot[s].cache \in 1..Len(sh.pool)

Sound(sh, H, X) == Good(sh, H, X) /\ Owned(sh, H, X) /\ ActiveOwn(sh, X) /\ CacheOK(sh)

\* What is in use after a release was in use before, and is what it was.
SameFrame(a, b) ==
  a.slot = b.slot /\ a.entity = b.entity /\ a.frame = b.frame /\ a.view = b.view
SameSlot(a, b) ==
  a.entity = b.entity /\ a.cacheable = b.cacheable /\ a.cache = b.cache /\ a.at = b.at
Kept(sh, sh2) ==
  /\ Len(sh2.pool) = Len(sh.pool)
  /\ \A q \in 1..Len(sh.pool) :
       sh2.pool[q].active => sh.pool[q].active /\ SameFrame(sh2.pool[q], sh.pool[q])
  /\ \A s \in Slots : SameSlot(sh2.slot[s], sh.slot[s])

--------------------------------------------------------------------------------
(* One reference *)

LEMMA FrameTypes ==
    ASSUME NEW f \in QuantizedFrame \cup {FreeFrame}
    PROVE  /\ f.active \in BOOLEAN /\ f.refs \in Nat
           /\ f.active => f \in QuantizedFrame
           /\ ~f.active => f = FreeFrame
<1>1. CASE f \in QuantizedFrame
  <2>1. f.active = TRUE /\ f.refs \in Nat
    BY <1>1 DEF QuantizedFrame
  <2> QED BY <1>1, <2>1
<1>2. CASE f = FreeFrame
  <2>1. f.active = FALSE /\ f.refs \in Nat
    BY <1>2 DEF FreeFrame
  <2> QED BY <1>2, <2>1
<1> QED BY <1>1, <1>2

LEMMA KeptRefl == \A sh : Kept(sh, sh)
BY DEF Kept, SameFrame, SameSlot

LEMMA KeptTrans ==
    ASSUME NEW a, NEW b, NEW c, Kept(a, b), Kept(b, c)
    PROVE  Kept(a, c)
BY DEF Kept, SameFrame, SameSlot

LEMMA ToRemove ==
    ASSUME NEW H, NEW h \in H, NEW q, IsFiniteSet(H)
    PROVE  /\ IsFiniteSet(To(H, q)) /\ Cardinality(To(H, q)) \in Nat
           /\ q # h[4] => To(H \ {h}, q) = To(H, q)
           /\ Cardinality(To(H \ {h}, h[4])) = Cardinality(To(H, h[4])) - 1
           /\ To(H \ {h}, h[4]) = {} <=> Cardinality(To(H, h[4])) = 1
<1>1. IsFiniteSet(To(H, q)) /\ IsFiniteSet(To(H, h[4]))
  BY FS_Subset DEF To
<1>2. q # h[4] => To(H \ {h}, q) = To(H, q)
  BY DEF To
<1>3. To(H \ {h}, h[4]) = To(H, h[4]) \ {h} /\ h \in To(H, h[4])
  BY DEF To
<1>4. Cardinality(To(H, q)) \in Nat /\ Cardinality(To(H, h[4])) \in Nat
  BY <1>1, FS_CardinalityType
<1>5. /\ Cardinality(To(H, h[4]) \ {h}) = Cardinality(To(H, h[4])) - 1
      /\ IsFiniteSet(To(H, h[4]) \ {h})
  BY <1>1, <1>3, FS_RemoveElement
<1>6. To(H, h[4]) \ {h} = {} <=> Cardinality(To(H, h[4]) \ {h}) = 0
  BY <1>5, FS_EmptySet
<1>7. To(H \ {h}, h[4]) = {} <=> Cardinality(To(H, h[4])) - 1 = 0
  BY <1>3, <1>5, <1>6
<1>8. To(H \ {h}, h[4]) = {} <=> Cardinality(To(H, h[4])) = 1
  BY <1>4, <1>7
<1> QED BY <1>1, <1>2, <1>3, <1>4, <1>5, <1>8

LEMMA ToAdd ==
    ASSUME NEW H, NEW h, h \notin H, NEW q, IsFiniteSet(H)
    PROVE  /\ IsFiniteSet(To(H, q)) /\ Cardinality(To(H, q)) \in Nat
           /\ q # h[4] => To(H \cup {h}, q) = To(H, q)
           /\ Cardinality(To(H \cup {h}, h[4])) = Cardinality(To(H, h[4])) + 1
           /\ To(H \cup {h}, h[4]) # {}
<1>1. IsFiniteSet(To(H, q)) /\ IsFiniteSet(To(H, h[4]))
  BY FS_Subset DEF To
<1>2. q # h[4] => To(H \cup {h}, q) = To(H, q)
  BY DEF To
<1>3. To(H \cup {h}, h[4]) = To(H, h[4]) \cup {h} /\ h \notin To(H, h[4])
  BY DEF To
<1>4. Cardinality(To(H, q)) \in Nat /\ Cardinality(To(H, h[4])) \in Nat
  BY <1>1, FS_CardinalityType
<1>5. Cardinality(To(H, h[4]) \cup {h}) = Cardinality(To(H, h[4])) + 1
  BY <1>1, <1>3, FS_AddElement
<1> QED BY <1>1, <1>2, <1>3, <1>4, <1>5

\* What Release does, field by field.
LEMMA ReleaseShape ==
    ASSUME NEW sh, SharedOK(sh), NEW q \in 1..Len(sh.pool), sh.pool[q].active,
           NEW p, p = sh.pool[q], p.refs > 1
    PROVE  Release(sh, q) = [pool |-> [sh.pool EXCEPT ![q] = [p EXCEPT !.refs = p.refs - 1]],
                             free |-> sh.free, slot |-> sh.slot]
<1>1. q # None
  BY DEF None
<1>2. IsActive(sh, q)
  BY <1>1 DEF IsActive
<1>3. sh = [pool |-> sh.pool, free |-> sh.free, slot |-> sh.slot]
  BY DEF SharedOK
<1>4. Release(sh, q) = [sh EXCEPT !.pool[q].refs = @ - 1]
  BY <1>2 DEF Release
<1> QED BY <1>3, <1>4

LEMMA FreeShape ==
    ASSUME NEW sh, SharedOK(sh), NEW q \in 1..Len(sh.pool), sh.pool[q].active,
           NEW p, p = sh.pool[q], ~(p.refs > 1)
    PROVE  Release(sh, q) =
             [pool |-> [sh.pool EXCEPT ![q] = FreeFrame],
              free |-> Append(sh.free, q),
              slot |-> [sh.slot EXCEPT ![p.slot] =
                         [sh.slot[p.slot] EXCEPT !.frames = sh.slot[p.slot].frames \ {q}]]]
<1>1. q # None
  BY DEF None
<1>2. IsActive(sh, q)
  BY <1>1 DEF IsActive
<1>3. sh = [pool |-> sh.pool, free |-> sh.free, slot |-> sh.slot]
  BY DEF SharedOK
<1>4. Release(sh, q) = [sh EXCEPT !.pool[q] = FreeFrame,
                                  !.slot[p.slot].frames = @ \ {q},
                                  !.free = Append(@, q)]
  BY <1>2 DEF Release
<1> QED BY <1>3, <1>4

LEMMA RetainRecord ==
    ASSUME NEW sh, sh = [pool |-> sh.pool, free |-> sh.free, slot |-> sh.slot],
           NEW q, q # None, sh.pool[q].active, NEW p, p = sh.pool[q]
    PROVE  Retain(sh, q) = [pool |-> [sh.pool EXCEPT ![q] = [p EXCEPT !.refs = p.refs + 1]],
                            free |-> sh.free, slot |-> sh.slot]
<1>1. IsActive(sh, q)
  BY DEF IsActive
<1>2. Retain(sh, q) = [sh EXCEPT !.pool[q].refs = @ + 1]
  BY <1>1 DEF Retain
<1> QED BY <1>2

LEMMA RetainShape ==
    ASSUME NEW sh, SharedOK(sh), NEW q \in 1..Len(sh.pool), sh.pool[q].active,
           NEW r, r = Retain(sh, q), NEW p, p = sh.pool[q]
    PROVE  r = [pool |-> [sh.pool EXCEPT ![q] = [p EXCEPT !.refs = p.refs + 1]],
                free |-> sh.free, slot |-> sh.slot]
<1>1. q # None
  BY DEF None
<1>2. sh = [pool |-> sh.pool, free |-> sh.free, slot |-> sh.slot]
  BY DEF SharedOK
<1> QED BY <1>1, <1>2, RetainRecord

\* A count changes: all the rest of the frame stays.
LEMMA CountOnly ==
    ASSUME NEW p \in QuantizedFrame, NEW n \in Nat, NEW f, f = [p EXCEPT !.refs = n]
    PROVE  f \in QuantizedFrame /\ f.active /\ f.refs = n /\ SameFrame(f, p)
<1>1. f \in QuantizedFrame /\ f.active = TRUE /\ f.refs = n
  BY DEF QuantizedFrame
<1>2. f.slot = p.slot /\ f.entity = p.entity /\ f.frame = p.frame /\ f.view = p.view
  BY DEF QuantizedFrame
<1> QED BY <1>1, <1>2 DEF SameFrame

\* The count of a frame changes with the references to it.
LEMMA Recount ==
    ASSUME NEW sh, NEW H, NEW X, Good(sh, H, X),
           NEW q \in 1..Len(sh.pool), sh.pool[q].active,
           NEW f \in QuantizedFrame, SameFrame(f, sh.pool[q]),
           NEW sh2, sh2 = [pool |-> [sh.pool EXCEPT ![q] = f], free |-> sh.free, slot |-> sh.slot],
           NEW H2 \in SUBSET Places, IsFiniteSet(H2), \A h \in H2 : h[4] \in 1..Len(sh.pool),
           f.refs = Cardinality(To(H2, q)), To(H2, q) # {},
           \A x : x # q => To(H2, x) = To(H, x)
    PROVE  Good(sh2, H2, X) /\ Kept(sh, sh2)
<1>0. sh.pool \in Seq(QuantizedFrame \cup {FreeFrame}) /\ SharedOK(sh)
  BY DEF Good, SharedOK
<1>1. /\ sh2.free = sh.free /\ sh2.slot = sh.slot
      /\ sh2.pool \in Seq(QuantizedFrame \cup {FreeFrame})
      /\ Len(sh2.pool) = Len(sh.pool)
      /\ sh2.pool[q] = f
      /\ \A x \in 1..Len(sh.pool) : x # q => sh2.pool[x] = sh.pool[x]
  BY <1>0
<1>2. f.active = TRUE
  BY DEF QuantizedFrame
<1>3. SharedOK(sh2)
  BY <1>0, <1>1 DEF SharedOK
<1> HIDE DEF SameFrame
<1>4. Counted(sh2, H2)
  <2> SUFFICES ASSUME NEW x \in 1..Len(sh2.pool)
               PROVE  /\ sh2.pool[x].refs = Cardinality(To(H2, x))
                      /\ sh2.pool[x].active <=> To(H2, x) # {}
    BY DEF Counted
  <2>1. CASE x = q
    BY <1>1, <1>2, <2>1
  <2>2. CASE x # q
    BY <1>1, <2>2 DEF Good, Counted
  <2> QED BY <2>1, <2>2
<1>5. \A x \in 1..Len(sh.pool) : sh2.pool[x].active <=> sh.pool[x].active
  BY <1>1, <1>2
<1>6. FreeOK(sh2)
  <2>1. FreeOK(sh)
    BY DEF Good
  <2>2. \A x \in 1..Len(sh2.pool) :
          sh2.pool[x].active <=> ~\E i \in 1..Len(sh2.free) : sh2.free[i] = x
    <3> SUFFICES ASSUME NEW x \in 1..Len(sh.pool)
                 PROVE  sh2.pool[x].active <=> ~\E i \in 1..Len(sh.free) : sh.free[i] = x
      BY <1>1
    <3> QED BY <1>5, <2>1, Zenon DEF FreeOK
  <2>3. \A i, j \in 1..Len(sh2.free) : sh2.free[i] = sh2.free[j] => i = j
    BY <1>1, <2>1 DEF FreeOK
  <2> QED BY <2>2, <2>3 DEF FreeOK
<1>7. \A x \in 1..Len(sh.pool) : sh2.pool[x].slot = sh.pool[x].slot
  BY <1>1 DEF SameFrame
<1>8. ListsOK(sh2, X)
  BY <1>1, <1>5, <1>7, ZenonT(60) DEF Good, ListsOK
<1>9. Kept(sh, sh2)
  BY <1>1, <1>5 DEF Kept, SameFrame, SameSlot
<1> QED BY <1>1, <1>3, <1>4, <1>6, <1>8, <1>9 DEF Good

\* The reference h is dropped.
LEMMA ReleaseOne ==
    ASSUME NEW sh, NEW H, NEW X, Good(sh, H, X), NEW h \in H
    PROVE  Good(Release(sh, h[4]), H \ {h}, X) /\ Kept(sh, Release(sh, h[4]))
<1>1. PICK q : q = h[4]
  OBVIOUS
<1>2. PICK p : p = sh.pool[q]
  OBVIOUS
<1>3. PICK r : r = Release(sh, q)
  OBVIOUS
<1>4. q \in 1..Len(sh.pool) /\ SharedOK(sh) /\ IsFiniteSet(H)
  BY <1>1 DEF Good
<1>5. h \in To(H, q)
  BY <1>1 DEF To
<1>6. sh.pool[q].active /\ p.refs = Cardinality(To(H, q))
  BY <1>2, <1>4, <1>5 DEF Good, Counted
<1>7. p \in QuantizedFrame
  <2>1. p \in QuantizedFrame \cup {FreeFrame}
    BY <1>2, <1>4 DEF SharedOK
  <2> QED BY <1>2, <1>6, <2>1, FrameTypes
<1>8. /\ \A x : x # q => To(H \ {h}, x) = To(H, x)
      /\ Cardinality(To(H, q)) \in Nat
      /\ Cardinality(To(H \ {h}, q)) = Cardinality(To(H, q)) - 1
      /\ To(H \ {h}, q) = {} <=> Cardinality(To(H, q)) = 1
  <2>1. \A x : x # q => To(H \ {h}, x) = To(H, x)
    BY <1>1 DEF To
  <2> QED BY <1>1, <1>4, <2>1, ToRemove
<1>9. /\ H \ {h} \in SUBSET Places /\ IsFiniteSet(H \ {h})
      /\ \A g \in H \ {h} : g[4] \in 1..Len(sh.pool)
  BY FS_RemoveElement DEF Good
<1>10. CASE p.refs > 1
  <2>1. PICK f : f = [p EXCEPT !.refs = p.refs - 1]
    OBVIOUS
  <2>2. r = [pool |-> [sh.pool EXCEPT ![q] = f], free |-> sh.free, slot |-> sh.slot]
    <3>1. r = [pool |-> [sh.pool EXCEPT ![q] = [p EXCEPT !.refs = p.refs - 1]],
               free |-> sh.free, slot |-> sh.slot]
      BY ONLY <1>2, <1>3, <1>4, <1>6, <1>10, ReleaseShape
    <3> QED BY <2>1, <3>1
  <2>3. p.refs - 1 \in Nat /\ Cardinality(To(H, q)) # 1
    BY <1>6, <1>8, <1>10
  <2>4. f \in QuantizedFrame /\ f.refs = p.refs - 1 /\ SameFrame(f, p)
    BY <1>7, <2>1, <2>3, CountOnly
  <2>5. f.refs = Cardinality(To(H \ {h}, q)) /\ To(H \ {h}, q) # {}
    BY <1>6, <1>8, <2>3, <2>4
  <2>6. Good(r, H \ {h}, X) /\ Kept(sh, r)
    <3>1. PICK H2 : H2 = H \ {h}
      OBVIOUS
    <3>2. \A x : x # q => To(H2, x) = To(H, x)
      BY <1>8, <3>1
    <3>3. f.refs = Cardinality(To(H2, q)) /\ To(H2, q) # {}
      BY <2>5, <3>1
    <3>4. H2 \in SUBSET Places /\ IsFiniteSet(H2) /\ \A g \in H2 : g[4] \in 1..Len(sh.pool)
      BY <1>9, <3>1
    <3>5. Good(sh, H, X) /\ SameFrame(f, sh.pool[q])
      BY <1>2, <2>4
    <3>6. Good(r, H2, X) /\ Kept(sh, r)
      BY ONLY <1>4, <1>6, <2>2, <2>4, <3>2, <3>3, <3>4, <3>5, Recount
    <3> QED BY <3>1, <3>6
  <2> QED BY <1>1, <1>3, <2>6
<1>11. CASE ~(p.refs > 1)
  <2>1. p.refs = 1 /\ To(H \ {h}, q) = {} /\ Cardinality(To(H \ {h}, q)) = 0
    <3>1. To(H, q) # {} /\ IsFiniteSet(To(H, q))
      BY <1>1, <1>4, <1>5, ToRemove
    <3>2. Cardinality(To(H, q)) # 0
      BY <3>1, FS_EmptySet
    <3>3. \A c \in Nat : c # 0 /\ ~(c > 1) => c = 1 /\ c - 1 = 0
      OBVIOUS
    <3> QED BY <1>6, <1>8, <1>11, <3>2, <3>3
  <2>2. PICK base : base = [sh.slot[p.slot] EXCEPT !.frames = sh.slot[p.slot].frames \ {q}]
    OBVIOUS
  <2>3. r = [pool |-> [sh.pool EXCEPT ![q] = FreeFrame], free |-> Append(sh.free, q),
             slot |-> [sh.slot EXCEPT ![p.slot] = base]]
    BY <1>2, <1>3, <1>4, <1>6, <1>11, <2>2, FreeShape
  <2>4. p.slot \in Slots /\ sh.slot[p.slot] \in ReplicatedSlot
    BY <1>4, <1>7 DEF QuantizedFrame, SharedOK
  <2>5. /\ base \in ReplicatedSlot /\ base.frames = sh.slot[p.slot].frames \ {q}
        /\ SameSlot(base, sh.slot[p.slot])
    BY <2>2, <2>4 DEF ReplicatedSlot, SameSlot
  <2>6. /\ r.pool \in Seq(QuantizedFrame \cup {FreeFrame}) /\ Len(r.pool) = Len(sh.pool)
        /\ r.pool[q] = FreeFrame
        /\ \A x \in 1..Len(sh.pool) : x # q => r.pool[x] = sh.pool[x]
    BY <1>4, <2>3 DEF SharedOK
  <2>7. /\ r.slot \in [Slots -> ReplicatedSlot] /\ r.slot[p.slot] = base
        /\ \A s \in Slots : s # p.slot => r.slot[s] = sh.slot[s]
    BY <1>4, <2>3, <2>4, <2>5 DEF SharedOK
  <2>8. /\ r.free \in Seq(1..Len(sh.pool)) /\ Len(r.free) = Len(sh.free) + 1
        /\ Len(sh.free) \in Nat
        /\ \A i \in 1..Len(sh.free) : r.free[i] = sh.free[i]
        /\ r.free[Len(sh.free) + 1] = q
    <3>1. r.free = Append(sh.free, q)
      BY <2>3
    <3> QED BY <1>4, <3>1, AppendProperties DEF SharedOK
  <2>9. FreeFrame.active = FALSE /\ FreeFrame.refs = 0
    BY DEF FreeFrame
  <2>10. SharedOK(r)
    BY <2>3, <2>6, <2>7, <2>8 DEF SharedOK
  <2>11. Counted(r, H \ {h})
    <3> SUFFICES ASSUME NEW x \in 1..Len(r.pool)
                 PROVE  /\ r.pool[x].refs = Cardinality(To(H \ {h}, x))
                        /\ r.pool[x].active <=> To(H \ {h}, x) # {}
      BY DEF Counted
    <3>1. CASE x = q
      BY <2>1, <2>6, <2>9, <3>1
    <3>2. CASE x # q
      BY <1>8, <2>6, <3>2 DEF Good, Counted
    <3> QED BY <3>1, <3>2
  <2>12. FreeOK(r)
    <3>1. \A i \in 1..Len(sh.free) : sh.free[i] # q
      BY <1>4, <1>6 DEF Good, FreeOK
    <3>2. \A i \in 1..Len(r.free) : i \in 1..Len(sh.free) \/ i = Len(sh.free) + 1
      BY <2>8
    <3>3. \A i, j \in 1..Len(r.free) : r.free[i] = r.free[j] => i = j
      <4> SUFFICES ASSUME NEW i \in 1..Len(r.free), NEW j \in 1..Len(r.free), r.free[i] = r.free[j]
                   PROVE  i = j
        OBVIOUS
      <4> QED BY <2>8, <3>1, <3>2 DEF Good, FreeOK
    <3>4. ASSUME NEW x \in 1..Len(r.pool)
          PROVE  r.pool[x].active <=> ~\E i \in 1..Len(r.free) : r.free[i] = x
      <4>1. CASE x = q
        <5>1. Len(sh.free) + 1 \in 1..Len(r.free)
          BY <2>8
        <5> QED BY <2>6, <2>8, <2>9, <4>1, <5>1
      <4>2. CASE x # q
        <5>1. sh.pool[x].active <=> ~\E i \in 1..Len(sh.free) : sh.free[i] = x
          BY <2>6 DEF Good, FreeOK
        <5>2. (\E i \in 1..Len(r.free) : r.free[i] = x) <=> \E i \in 1..Len(sh.free) : sh.free[i] = x
          <6>1. ASSUME NEW i \in 1..Len(r.free), r.free[i] = x
                PROVE  \E k \in 1..Len(sh.free) : sh.free[k] = x
            BY <2>8, <3>2, <4>2, <6>1
          <6>2. ASSUME NEW i \in 1..Len(sh.free), sh.free[i] = x
                PROVE  \E k \in 1..Len(r.free) : r.free[k] = x
            <7>1. i \in 1..Len(r.free)
              BY <2>8
            <7>2. r.free[i] = x
              BY <2>8, <6>2
            <7> QED BY <7>1, <7>2
          <6> QED BY <6>1, <6>2
        <5>3. r.pool[x] = sh.pool[x]
          BY <2>6, <4>2
        <5> QED BY <5>1, <5>2, <5>3
      <4> QED BY <4>1, <4>2
    <3> QED BY <3>3, <3>4 DEF FreeOK
  <2>13. ListsOK(r, X)
    <3> SUFFICES ASSUME NEW s \in Slots
                 PROVE  r.slot[s].frames =
                          IF s \in X THEN {}
                          ELSE {x \in 1..Len(r.pool) : r.pool[x].active /\ r.pool[x].slot = s}
      BY DEF ListsOK
    <3>1. sh.slot[s].frames = IF s \in X THEN {}
             ELSE {x \in 1..Len(sh.pool) : sh.pool[x].active /\ sh.pool[x].slot = s}
      BY DEF Good, ListsOK
    <3>2. {x \in 1..Len(r.pool) : r.pool[x].active /\ r.pool[x].slot = s}
            = {x \in 1..Len(sh.pool) : sh.pool[x].active /\ sh.pool[x].slot = s} \ {q}
      BY <2>6, <2>9
    <3>3. CASE s = p.slot
      <4>1. r.slot[s].frames = sh.slot[s].frames \ {q}
        BY <2>5, <2>7, <3>3
      <4> QED BY <3>1, <3>2, <4>1
    <3>4. CASE s # p.slot
      <4>1. r.slot[s].frames = sh.slot[s].frames
        BY <2>7, <3>4
      <4>2. q \notin {x \in 1..Len(sh.pool) : sh.pool[x].active /\ sh.pool[x].slot = s}
        BY <1>2, <3>4
      <4> QED BY <3>1, <3>2, <4>1, <4>2
    <3> QED BY <3>3, <3>4
  <2>14. Kept(sh, r)
    <3>1. \A x \in 1..Len(sh.pool) :
            r.pool[x].active => sh.pool[x].active /\ SameFrame(r.pool[x], sh.pool[x])
      BY <2>6, <2>9 DEF SameFrame
    <3>2. \A s \in Slots : SameSlot(r.slot[s], sh.slot[s])
      BY <2>5, <2>7 DEF SameSlot
    <3> QED BY <2>6, <3>1, <3>2 DEF Kept
  <2>15. Good(r, H \ {h}, X)
    BY <1>9, <2>6, <2>10, <2>11, <2>12, <2>13 DEF Good
  <2> QED BY <1>1, <1>3, <2>14, <2>15
<1> QED BY <1>10, <1>11

\* Nothing is released for a baseline that is not there.
LEMMA ReleaseNone == \A sh : Release(sh, None) = sh
BY DEF Release, IsActive

\* The reference h to a frame in use is added.
LEMMA RetainOne ==
    ASSUME NEW sh, NEW H, NEW X, Good(sh, H, X), NEW h \in Places, h \notin H,
           h[4] \in 1..Len(sh.pool), sh.pool[h[4]].active
    PROVE  Good(Retain(sh, h[4]), H \cup {h}, X) /\ Kept(sh, Retain(sh, h[4]))
<1>1. PICK q : q = h[4]
  OBVIOUS
<1>2. PICK p : p = sh.pool[q]
  OBVIOUS
<1>3. PICK r : r = Retain(sh, q)
  OBVIOUS
<1>4. q \in 1..Len(sh.pool) /\ SharedOK(sh) /\ IsFiniteSet(H) /\ sh.pool[q].active
  BY <1>1 DEF Good
<1>5. p.refs = Cardinality(To(H, q))
  BY <1>2, <1>4 DEF Good, Counted
<1>6. p \in QuantizedFrame
  <2>1. p \in QuantizedFrame \cup {FreeFrame}
    BY <1>2, <1>4 DEF SharedOK
  <2> QED BY <1>2, <1>4, <2>1, FrameTypes
<1>7. PICK H2 : H2 = H \cup {h}
  OBVIOUS
<1>8. /\ Cardinality(To(H, q)) \in Nat
      /\ Cardinality(To(H2, q)) = Cardinality(To(H, q)) + 1
      /\ To(H2, q) # {}
  BY <1>1, <1>4, <1>7, ToAdd
<1>9. \A x : x # q => To(H2, x) = To(H, x)
  BY <1>1, <1>7 DEF To
<1>10. H2 \in SUBSET Places /\ IsFiniteSet(H2)
  BY <1>4, <1>7, FS_AddElement DEF Good
<1>11. \A g \in H2 : g[4] \in 1..Len(sh.pool)
  BY <1>7 DEF Good
<1>12. PICK f : f = [p EXCEPT !.refs = p.refs + 1]
  OBVIOUS
<1>13. r = [pool |-> [sh.pool EXCEPT ![q] = f], free |-> sh.free, slot |-> sh.slot]
  BY <1>2, <1>3, <1>4, <1>12, RetainShape
<1>14. p.refs + 1 \in Nat
  BY <1>5, <1>8
<1>15. f \in QuantizedFrame /\ f.refs = p.refs + 1 /\ SameFrame(f, sh.pool[q])
  BY <1>2, <1>6, <1>12, <1>14, CountOnly
<1>16. f.refs = Cardinality(To(H2, q))
  BY <1>5, <1>8, <1>15
<1>17. Good(sh, H, X)
  OBVIOUS
<1>18. Good(r, H2, X) /\ Kept(sh, r)
  BY ONLY <1>4, <1>8, <1>9, <1>10, <1>11, <1>13, <1>15, <1>16, <1>17, Recount
<1> QED BY <1>1, <1>3, <1>7, <1>18

--------------------------------------------------------------------------------
(* Several references *)

Chain(f, sh, qs) == f = [i \in 0..Len(qs) |-> IF i = 0 THEN sh ELSE Release(f[i - 1], qs[i])]

LEMMA ChainExists ==
    ASSUME NEW sh, NEW qs, Len(qs) \in Nat
    PROVE  \E f : Chain(f, sh, qs)
<1> DEFINE P(n) == \E f : /\ f = [i \in 0..n |-> f[i]] /\ f[0] = sh
                          /\ \A i \in 1..n : f[i] = Release(f[i - 1], qs[i])
           K == {n \in Nat : P(n)}
<1>1. P(0)
  <2> DEFINE z == [i \in 0..0 |-> sh]
  <2>1. z = [i \in 0..0 |-> z[i]] /\ z[0] = sh
    OBVIOUS
  <2> HIDE DEF z
  <2> QED BY <2>1
<1>2. ASSUME NEW n \in Nat, P(n) PROVE P(n + 1)
  <2>1. PICK f : /\ f = [i \in 0..n |-> f[i]] /\ f[0] = sh
                 /\ \A i \in 1..n : f[i] = Release(f[i - 1], qs[i])
    BY <1>2
  <2>2. PICK v : v = Release(f[n], qs[n + 1])
    OBVIOUS
  <2> DEFINE g == [i \in 0..(n + 1) |-> IF i = n + 1 THEN v ELSE f[i]]
  <2>3. g = [i \in 0..(n + 1) |-> g[i]] /\ g[0] = sh /\ g[n + 1] = v /\ g[n] = f[n]
    BY <2>1
  <2>4. \A i \in 1..n : g[i] = f[i] /\ g[i - 1] = f[i - 1]
    OBVIOUS
  <2> HIDE DEF g
  <2>5. \A i \in 1..(n + 1) : g[i] = Release(g[i - 1], qs[i])
    <3> SUFFICES ASSUME NEW i \in 1..(n + 1) PROVE g[i] = Release(g[i - 1], qs[i])
      OBVIOUS
    <3>1. CASE i = n + 1
      BY <2>2, <2>3, <3>1
    <3>2. CASE i \in 1..n
      BY <2>1, <2>4, <3>2
    <3> QED BY <3>1, <3>2
  <2> QED BY <2>3, <2>5
<1> HIDE DEF P
<1>3. K = Nat
  <2>1. 0 \in K /\ (\A n \in K : n + 1 \in K) /\ K \in SUBSET Nat
    BY <1>1, <1>2
  <2> HIDE DEF K
  <2> QED BY <2>1, Induct
<1>4. P(Len(qs))
  BY <1>3
<1>5. PICK f : /\ f = [i \in 0..Len(qs) |-> f[i]] /\ f[0] = sh
               /\ \A i \in 1..Len(qs) : f[i] = Release(f[i - 1], qs[i])
  BY <1>4 DEF P
<1>6. Chain(f, sh, qs)
  <2>1. \A i \in 0..Len(qs) : f[i] = IF i = 0 THEN sh ELSE Release(f[i - 1], qs[i])
    BY <1>5
  <2> QED BY <1>5, <2>1 DEF Chain
<1> QED BY <1>6

LEMMA ReleaseAllChain ==
    ASSUME NEW sh, NEW qs, Len(qs) \in Nat
    PROVE  \E f : /\ ReleaseAll(sh, qs) = f[Len(qs)] /\ f[0] = sh
                  /\ \A i \in 1..Len(qs) : f[i] = Release(f[i - 1], qs[i])
<1> DEFINE f == CHOOSE f : Chain(f, sh, qs)
<1>1. Chain(f, sh, qs)
  BY ChainExists
<1>2. ReleaseAll(sh, qs) = f[Len(qs)]
  BY Zenon DEF ReleaseAll, Chain
<1> HIDE DEF f
<1>3. f[0] = sh /\ \A i \in 1..Len(qs) : f[i] = Release(f[i - 1], qs[i])
  BY <1>1 DEF Chain
<1> QED BY <1>2, <1>3

\* The references tok[1], tok[2], ... are dropped one after the other.
LEMMA ReleaseSome ==
    ASSUME NEW sh, NEW H, NEW X, Good(sh, H, X), NEW qs, Len(qs) \in Nat,
           NEW tok \in [1..Len(qs) -> H],
           \A i \in 1..Len(qs) : qs[i] = tok[i][4],
           \A i, j \in 1..Len(qs) : tok[i] = tok[j] => i = j
    PROVE  /\ Good(ReleaseAll(sh, qs), {h \in H : \A i \in 1..Len(qs) : tok[i] # h}, X)
           /\ Kept(sh, ReleaseAll(sh, qs))
<1> DEFINE Left(n) == {h \in H : \A i \in 1..n : tok[i] # h}
<1>1. PICK f : /\ ReleaseAll(sh, qs) = f[Len(qs)] /\ f[0] = sh
               /\ \A i \in 1..Len(qs) : f[i] = Release(f[i - 1], qs[i])
  BY ReleaseAllChain, SMTT(30)
<1> DEFINE P(n) == Good(f[n], Left(n), X) /\ Kept(sh, f[n])
           K == {n \in Nat : n <= Len(qs) => P(n)}
<1>2. P(0)
  <2>1. Left(0) = H
    OBVIOUS
  <2> QED BY <1>1, <2>1, KeptRefl
<1>3. ASSUME NEW n \in Nat, n + 1 <= Len(qs), P(n) PROVE P(n + 1)
  <2>1. n + 1 \in 1..Len(qs) /\ (n + 1) - 1 = n
    BY <1>3
  <2>2. f[n + 1] = Release(f[n], tok[n + 1][4])
    BY <1>1, <2>1
  <2>3. PICK h : h = tok[n + 1]
    OBVIOUS
  <2>4. h \in Left(n)
    <3>1. h \in H
      BY <2>1, <2>3
    <3>2. \A i \in 1..n : tok[i] # h
      BY <2>1, <2>3
    <3> QED BY <3>1, <3>2
  <2>5. Left(n + 1) = Left(n) \ {h}
    <3>1. \A i : i \in 1..(n + 1) <=> (i \in 1..n \/ i = n + 1)
      OBVIOUS
    <3> QED BY <2>3, <3>1
  <2> HIDE DEF Left
  <2>6. Good(Release(f[n], h[4]), Left(n) \ {h}, X) /\ Kept(f[n], Release(f[n], h[4]))
    BY <1>3, <2>4, ReleaseOne
  <2>7. Good(f[n + 1], Left(n + 1), X) /\ Kept(f[n], f[n + 1])
    BY <2>2, <2>3, <2>5, <2>6
  <2>8. Kept(sh, f[n + 1])
    BY <1>3, <2>7, KeptTrans
  <2> QED BY <2>7, <2>8
<1> HIDE DEF P
<1>4. K = Nat
  <2>1. 0 \in K /\ (\A n \in K : n + 1 \in K) /\ K \in SUBSET Nat
    BY <1>2, <1>3
  <2> HIDE DEF K
  <2> QED BY <2>1, Induct
<1>5. P(Len(qs))
  BY <1>4
<1> QED BY <1>1, <1>5 DEF P

--------------------------------------------------------------------------------
(* The entries at some positions *)

PickChain(f, s, S) ==
  f = [i \in 0..Len(s) |-> IF i = 0 THEN <<>>
                           ELSE IF i \in S THEN Append(f[i - 1], s[i]) ELSE f[i - 1]]

LEMMA PickExists ==
    ASSUME NEW s, Len(s) \in Nat, NEW S
    PROVE  \E f : PickChain(f, s, S)
<1> DEFINE More(v, i) == IF i \in S THEN Append(v, s[i]) ELSE v
           P(n) == \E f : /\ f = [i \in 0..n |-> f[i]] /\ f[0] = <<>>
                          /\ \A i \in 1..n : f[i] = More(f[i - 1], i)
           K == {n \in Nat : P(n)}
<1> HIDE DEF More
<1>1. P(0)
  <2> DEFINE z == [i \in 0..0 |-> <<>>]
  <2>1. z = [i \in 0..0 |-> z[i]] /\ z[0] = <<>>
    OBVIOUS
  <2> HIDE DEF z
  <2> QED BY <2>1
<1>2. ASSUME NEW n \in Nat, P(n) PROVE P(n + 1)
  <2>1. PICK f : /\ f = [i \in 0..n |-> f[i]] /\ f[0] = <<>>
                 /\ \A i \in 1..n : f[i] = More(f[i - 1], i)
    BY <1>2
  <2>2. PICK v : v = More(f[n], n + 1)
    OBVIOUS
  <2> DEFINE g == [i \in 0..(n + 1) |-> IF i = n + 1 THEN v ELSE f[i]]
  <2>3. g = [i \in 0..(n + 1) |-> g[i]] /\ g[0] = <<>> /\ g[n + 1] = v /\ g[n] = f[n]
    BY <2>1
  <2>4. \A i \in 1..n : g[i] = f[i] /\ g[i - 1] = f[i - 1]
    OBVIOUS
  <2> HIDE DEF g
  <2>5. \A i \in 1..(n + 1) : g[i] = More(g[i - 1], i)
    <3> SUFFICES ASSUME NEW i \in 1..(n + 1) PROVE g[i] = More(g[i - 1], i)
      OBVIOUS
    <3>1. CASE i = n + 1
      BY <2>2, <2>3, <3>1
    <3>2. CASE i \in 1..n
      BY <2>1, <2>4, <3>2
    <3> QED BY <3>1, <3>2
  <2> QED BY <2>3, <2>5
<1> HIDE DEF P
<1>3. K = Nat
  <2>1. 0 \in K /\ (\A n \in K : n + 1 \in K) /\ K \in SUBSET Nat
    BY <1>1, <1>2
  <2> HIDE DEF K
  <2> QED BY <2>1, Induct
<1>4. P(Len(s))
  BY <1>3
<1>5. PICK f : /\ f = [i \in 0..Len(s) |-> f[i]] /\ f[0] = <<>>
               /\ \A i \in 1..Len(s) : f[i] = More(f[i - 1], i)
  BY <1>4 DEF P
<1>6. PickChain(f, s, S)
  <2>1. \A i \in 0..Len(s) :
          f[i] = IF i = 0 THEN <<>>
                 ELSE IF i \in S THEN Append(f[i - 1], s[i]) ELSE f[i - 1]
    BY <1>5 DEF More
  <2> QED BY <1>5, <2>1 DEF PickChain
<1> QED BY <1>6

LEMMA PickedChain ==
    ASSUME NEW s, Len(s) \in Nat, NEW S
    PROVE  \E f : /\ Picked(s, S) = f[Len(s)] /\ f[0] = <<>>
                  /\ \A i \in 1..Len(s) :
                       f[i] = IF i \in S THEN Append(f[i - 1], s[i]) ELSE f[i - 1]
<1> DEFINE f == CHOOSE f : PickChain(f, s, S)
<1>1. PickChain(f, s, S)
  BY PickExists
<1>2. Picked(s, S) = f[Len(s)]
  BY Zenon DEF Picked, PickChain
<1> HIDE DEF f
<1>3. /\ f[0] = <<>>
      /\ \A i \in 1..Len(s) : f[i] = IF i \in S THEN Append(f[i - 1], s[i]) ELSE f[i - 1]
  <2>1. \A i \in 0..Len(s) :
          f[i] = IF i = 0 THEN <<>>
                 ELSE IF i \in S THEN Append(f[i - 1], s[i]) ELSE f[i - 1]
    BY <1>1, Zenon DEF PickChain
  <2>2. 0 \in 0..Len(s) /\ \A i \in 1..Len(s) : i \in 0..Len(s) /\ i # 0
    OBVIOUS
  <2> QED BY <2>1, <2>2, Zenon
<1> QED BY <1>2, <1>3

\* p lists the entries of s at the positions in S, each once: pos is where they were.
Lists(p, s, S, pos) ==
  /\ pos \in [1..Len(p) -> S]
  /\ \A k, l \in 1..Len(p) : pos[k] = pos[l] => k = l
  /\ \A i \in S : \E k \in 1..Len(p) : pos[k] = i
  /\ \A k \in 1..Len(p) : p[k] = s[pos[k]]

LEMMA PickedFacts ==
    ASSUME NEW T, NEW s \in Seq(T), NEW S \in SUBSET (1..Len(s))
    PROVE  /\ Picked(s, S) \in Seq(T)
           /\ \E pos : Lists(Picked(s, S), s, S, pos)
<1>0. Len(s) \in Nat /\ (\A i \in S : i \in Nat /\ 1 <= i /\ i <= Len(s))
      /\ \A i \in 1..Len(s) : s[i] \in T
  OBVIOUS
<1>1. PICK f : /\ Picked(s, S) = f[Len(s)] /\ f[0] = <<>>
               /\ \A i \in 1..Len(s) : f[i] = IF i \in S THEN Append(f[i - 1], s[i]) ELSE f[i - 1]
  BY PickedChain
<1> DEFINE Upto(n) == {i \in S : i <= n}
           P(n) == f[n] \in Seq(T) /\ \E pos : Lists(f[n], s, Upto(n), pos)
           K == {n \in Nat : n <= Len(s) => P(n)}
<1>2. P(0)
  <2>1. PICK p : p = f[0]
    OBVIOUS
  <2>2. p \in Seq(T) /\ Len(p) = 0
    BY <1>1, <2>1
  <2>3. Upto(0) = {}
    <3>1. \A i \in S : ~(i <= 0)
      BY ONLY <1>0
    <3> QED BY <3>1
  <2> DEFINE z == [i \in 1..0 |-> 0]
  <2>4. z \in [1..0 -> {}]
    OBVIOUS
  <2> HIDE DEF z
  <2>5. Lists(p, s, Upto(0), z)
    BY <2>2, <2>3, <2>4 DEF Lists
  <2> QED BY <2>1, <2>2, <2>5
<1>3. ASSUME NEW n \in Nat, n + 1 <= Len(s), P(n) PROVE P(n + 1)
  <2>1. n + 1 \in 1..Len(s) /\ (n + 1) - 1 = n
    BY <1>3
  <2>2. PICK pos : Lists(f[n], s, Upto(n), pos)
    BY <1>3
  <2>3. CASE n + 1 \notin S
    <3>1. f[n + 1] = f[n]
      BY <1>1, <2>1, <2>3
    <3>2. Upto(n + 1) = Upto(n)
      <4>1. \A i \in S : i <= n + 1 <=> i <= n
        BY <1>0, <2>3
      <4> QED BY <4>1
    <3> QED BY <1>3, <2>2, <3>1, <3>2
  <2>4. CASE n + 1 \in S
    <3>1. PICK p : p = f[n]
      OBVIOUS
    <3>2. PICK p2 : p2 = f[n + 1]
      OBVIOUS
    <3>3. p2 = Append(p, s[n + 1]) /\ p \in Seq(T) /\ s[n + 1] \in T
      <4>1. f[n + 1] = Append(f[(n + 1) - 1], s[n + 1])
        BY <1>1, <2>1, <2>4, Zenon
      <4>2. f[(n + 1) - 1] = p
        BY <2>1, <3>1
      <4> QED BY <1>0, <1>3, <2>1, <3>1, <3>2, <4>1, <4>2
    <3>4. /\ p2 \in Seq(T) /\ Len(p2) = Len(p) + 1 /\ Len(p) \in Nat
          /\ \A k \in 1..Len(p) : p2[k] = p[k]
          /\ p2[Len(p) + 1] = s[n + 1]
      BY <3>3, AppendProperties
    <3>5. PICK U : U = Upto(n)
      OBVIOUS
    <3>6. /\ Upto(n + 1) = U \cup {n + 1} /\ n + 1 \notin U
      <4>1. \A i \in S : i <= n + 1 <=> (i <= n \/ i = n + 1)
        BY <1>0
      <4>2. ~(n + 1 <= n)
        OBVIOUS
      <4> QED BY <2>4, <3>5, <4>1, <4>2
    <3>7. /\ pos \in [1..Len(p) -> U]
          /\ \A k, l \in 1..Len(p) : pos[k] = pos[l] => k = l
          /\ \A i \in U : \E k \in 1..Len(p) : pos[k] = i
          /\ \A k \in 1..Len(p) : p[k] = s[pos[k]]
      BY <2>2, <3>1, <3>5 DEF Lists
    <3> HIDE DEF Upto
    <3> DEFINE g == [k \in 1..Len(p2) |-> IF k = Len(p) + 1 THEN n + 1 ELSE pos[k]]
    <3>8. \A k \in 1..Len(p2) : k \in 1..Len(p) \/ k = Len(p) + 1
      BY <3>4
    <3>9. /\ g = [k \in 1..Len(p2) |-> g[k]]
          /\ g[Len(p) + 1] = n + 1
          /\ \A k \in 1..Len(p) : g[k] = pos[k] /\ k \in 1..Len(p2)
          /\ Len(p) + 1 \in 1..Len(p2)
      BY <3>4
    <3> HIDE DEF g
    <3>10. g \in [1..Len(p2) -> U \cup {n + 1}]
      <4>1. \A k \in 1..Len(p2) : g[k] \in U \cup {n + 1}
        BY <3>7, <3>8, <3>9
      <4> QED BY <3>9, <4>1
    <3>11. \A k, l \in 1..Len(p2) : g[k] = g[l] => k = l
      <4> SUFFICES ASSUME NEW k \in 1..Len(p2), NEW l \in 1..Len(p2), g[k] = g[l] PROVE k = l
        OBVIOUS
      <4>1. \A m \in 1..Len(p) : g[m] \in U
        BY <3>7, <3>9
      <4>2. CASE k \in 1..Len(p) /\ l \in 1..Len(p)
        BY <3>7, <3>9, <4>2
      <4>3. CASE k \in 1..Len(p) /\ l = Len(p) + 1
        BY <3>6, <3>9, <4>1, <4>3
      <4>4. CASE k = Len(p) + 1 /\ l \in 1..Len(p)
        BY <3>6, <3>9, <4>1, <4>4
      <4> QED BY <3>8, <4>2, <4>3, <4>4
    <3>12. \A i \in U \cup {n + 1} : \E k \in 1..Len(p2) : g[k] = i
      <4> SUFFICES ASSUME NEW i \in U \cup {n + 1} PROVE \E k \in 1..Len(p2) : g[k] = i
        OBVIOUS
      <4>1. CASE i = n + 1
        BY <3>9, <4>1
      <4>2. CASE i \in U
        <5>1. PICK k \in 1..Len(p) : pos[k] = i
          BY <3>7, <4>2
        <5> QED BY <3>9, <5>1
      <4> QED BY <4>1, <4>2
    <3>13. \A k \in 1..Len(p2) : p2[k] = s[g[k]]
      BY <3>4, <3>7, <3>8, <3>9
    <3>14. Lists(p2, s, Upto(n + 1), g)
      BY <3>6, <3>10, <3>11, <3>12, <3>13 DEF Lists
    <3> QED BY <3>2, <3>4, <3>14
  <2> QED BY <2>3, <2>4
<1> HIDE DEF P
<1>4. K = Nat
  <2>1. 0 \in K /\ (\A n \in K : n + 1 \in K) /\ K \in SUBSET Nat
    BY <1>2, <1>3
  <2> HIDE DEF K
  <2> QED BY <2>1, Induct
<1>5. P(Len(s))
  BY <1>0, <1>4
<1>6. Upto(Len(s)) = S
  BY <1>0
<1> QED BY <1>1, <1>5, <1>6 DEF P

\* There are as many as there are positions.
LEMMA PickedLen ==
    ASSUME NEW T, NEW s \in Seq(T), NEW S \in SUBSET (1..Len(s)), NEW b \in Nat, NEW a \in Nat,
           S \subseteq (a + 1)..(a + b)
    PROVE  Len(Picked(s, S)) <= b
<1>1. PICK p : p = Picked(s, S)
  OBVIOUS
<1>2. p \in Seq(T) /\ \E pos : Lists(p, s, S, pos)
  BY <1>1, PickedFacts
<1>3. PICK pos : Lists(p, s, S, pos)
  BY <1>2
<1>4. pos \in Injection(1..Len(p), (a + 1)..(a + b))
  <2>1. /\ pos \in [1..Len(p) -> S]
        /\ \A k, l \in 1..Len(p) : pos[k] = pos[l] => k = l
    BY <1>3 DEF Lists
  <2>2. pos \in [1..Len(p) -> (a + 1)..(a + b)]
    BY <2>1
  <2> QED BY <2>1, <2>2, Zenon DEF Injection, IsInjective
<1>5. /\ IsFiniteSet((a + 1)..(a + b))
      /\ Cardinality((a + 1)..(a + b)) = IF a + 1 > a + b THEN 0 ELSE (a + b) - (a + 1) + 1
  BY FS_Interval
<1>6. Cardinality((a + 1)..(a + b)) = b
  BY <1>5
<1>7. Cardinality(1..Len(p)) = Len(p)
  <2>1. Cardinality(1..Len(p)) = IF 1 > Len(p) THEN 0 ELSE Len(p) - 1 + 1
    BY <1>2, FS_Interval
  <2> QED BY <1>2, <2>1
<1> QED BY <1>1, <1>4, <1>5, <1>6, <1>7, FS_Injection

--------------------------------------------------------------------------------
(* The references of one client to the frames of one slot *)

\* What is kept stays sound.
LEMMA KeptSound ==
    ASSUME NEW sh, NEW sh2, NEW H2, NEW X, SharedOK(sh), Owned(sh, H2, X), ActiveOwn(sh, X),
           CacheOK(sh), Good(sh2, H2, X), Kept(sh, sh2)
    PROVE  Sound(sh2, H2, X)
<1>1. /\ Len(sh2.pool) = Len(sh.pool)
      /\ \A q \in 1..Len(sh.pool) :
           sh2.pool[q].active => sh.pool[q].active /\ SameFrame(sh2.pool[q], sh.pool[q])
      /\ \A s \in Slots : SameSlot(sh2.slot[s], sh.slot[s])
  BY DEF Kept
<1>2. Owned(sh2, H2, X)
  <2> SUFFICES ASSUME NEW h \in H2, h[2] \notin X PROVE Fits(sh2, h)
    BY DEF Owned
  <2>1. h[4] \in 1..Len(sh2.pool) /\ h[2] \in Slots
    BY DEF Good, Places
  <2>2. sh2.pool[h[4]].active
    <3>1. h \in To(H2, h[4])
      BY DEF To
    <3> QED BY <2>1, <3>1 DEF Good, Counted
  <2>3. Fits(sh, h)
    BY DEF Owned
  <2>4. SameFrame(sh2.pool[h[4]], sh.pool[h[4]]) /\ SameSlot(sh2.slot[h[2]], sh.slot[h[2]])
    BY <1>1, <2>1, <2>2
  <2> QED BY <2>3, <2>4 DEF Fits, SameFrame, SameSlot, ViewIn
<1>3. ActiveOwn(sh2, X)
  <2> SUFFICES ASSUME NEW q \in 1..Len(sh2.pool), sh2.pool[q].active, sh2.pool[q].slot \notin X
               PROVE  InPlace(sh2, sh2.pool[q])
    BY DEF ActiveOwn
  <2>1. sh.pool[q].active /\ SameFrame(sh2.pool[q], sh.pool[q]) /\ q \in 1..Len(sh.pool)
    BY <1>1
  <2>2. sh.pool[q] \in QuantizedFrame
    BY <2>1, FrameTypes DEF SharedOK
  <2>3. sh.pool[q].slot \in Slots
    BY <2>2 DEF QuantizedFrame
  <2>4. SameSlot(sh2.slot[sh.pool[q].slot], sh.slot[sh.pool[q].slot])
    BY <1>1, <2>3
  <2>5. sh.pool[q].slot = sh2.pool[q].slot /\ sh.pool[q].slot \notin X
    BY <2>1 DEF SameFrame
  <2>6. InPlace(sh, sh.pool[q])
    BY <2>1, <2>5 DEF ActiveOwn
  <2> QED BY <2>1, <2>4, <2>6 DEF InPlace, SameFrame, SameSlot
<1>4. CacheOK(sh2)
  BY <1>1 DEF CacheOK, SameSlot
<1> QED BY <1>2, <1>3, <1>4 DEF Sound

LEMMA SoundRelease ==
    ASSUME NEW sh, NEW H, NEW X, Sound(sh, H, X), NEW h \in H
    PROVE  Sound(Release(sh, h[4]), H \ {h}, X) /\ Kept(sh, Release(sh, h[4]))
<1>1. Good(Release(sh, h[4]), H \ {h}, X) /\ Kept(sh, Release(sh, h[4]))
  BY ReleaseOne DEF Sound
<1>2. Owned(sh, H \ {h}, X) /\ ActiveOwn(sh, X) /\ CacheOK(sh) /\ SharedOK(sh)
  BY DEF Sound, Owned, Good
<1> QED BY <1>1, <1>2, KeptSound

LEMMA SoundRetain ==
    ASSUME NEW sh, NEW H, NEW X, Sound(sh, H, X), NEW h \in Places, h \notin H,
           h[4] \in 1..Len(sh.pool), sh.pool[h[4]].active, h[2] \notin X => Fits(sh, h)
    PROVE  Sound(Retain(sh, h[4]), H \cup {h}, X) /\ Kept(sh, Retain(sh, h[4]))
<1>1. Good(Retain(sh, h[4]), H \cup {h}, X) /\ Kept(sh, Retain(sh, h[4]))
  BY RetainOne DEF Sound
<1>2. Owned(sh, H \cup {h}, X) /\ ActiveOwn(sh, X) /\ CacheOK(sh) /\ SharedOK(sh)
  BY DEF Sound, Owned, Good
<1> QED BY <1>1, <1>2, KeptSound

\* Pending entries that are given up, some or all of them.
LEMMA SoundReleaseSome ==
    ASSUME NEW sh, NEW H, NEW X, Sound(sh, H, X), NEW qs, Len(qs) \in Nat,
           NEW tok \in [1..Len(qs) -> H],
           \A i \in 1..Len(qs) : qs[i] = tok[i][4],
           \A i, j \in 1..Len(qs) : tok[i] = tok[j] => i = j
    PROVE  /\ Sound(ReleaseAll(sh, qs), {h \in H : \A i \in 1..Len(qs) : tok[i] # h}, X)
           /\ Kept(sh, ReleaseAll(sh, qs))
<1>1. PICK H2 : H2 = {h \in H : \A i \in 1..Len(qs) : tok[i] # h}
  OBVIOUS
<1>2. Good(ReleaseAll(sh, qs), H2, X) /\ Kept(sh, ReleaseAll(sh, qs))
  BY <1>1, ReleaseSome DEF Sound
<1>3. Owned(sh, H2, X) /\ ActiveOwn(sh, X) /\ CacheOK(sh) /\ SharedOK(sh)
  BY <1>1 DEF Sound, Owned, Good
<1>4. Sound(ReleaseAll(sh, qs), H2, X)
  BY <1>2, <1>3, KeptSound
<1> QED BY <1>1, <1>2, <1>4

\* The same references at other places.
LEMMA Relabel ==
    ASSUME NEW sh, NEW H, NEW X, Sound(sh, H, X), NEW H2 \in SUBSET Places, NEW m \in [H2 -> H],
           \A g, h \in H2 : m[g] = m[h] => g = h,
           \A h \in H : \E g \in H2 : m[g] = h,
           \A h \in H2 : /\ m[h][1] = h[1] /\ m[h][2] = h[2]
                         /\ m[h][4] = h[4] /\ m[h][5] = h[5] /\ (m[h][3] = 0 => h[3] = 0)
    PROVE  Sound(sh, H2, X)
<1>0. IsFiniteSet(H)
  BY DEF Sound, Good
<1>1. m \in Injection(H2, H)
  BY Zenon DEF Injection, IsInjective
<1>2. IsFiniteSet(H2)
  BY <1>0, <1>1, FS_Injection
<1>3. ASSUME NEW q
      PROVE  Cardinality(To(H2, q)) = Cardinality(To(H, q)) /\ (To(H2, q) = {} <=> To(H, q) = {})
  <2> DEFINE A == To(H2, q)
             B == To(H, q)
             r == [h \in A |-> m[h]]
  <2>1. A \subseteq H2 /\ \A h \in A : m[h] \in B
    BY DEF To
  <2>2. \A h \in B : \E g \in A : m[g] = h
    BY DEF To
  <2>3. IsFiniteSet(A)
    BY <1>2, <2>1, FS_Subset
  <2> HIDE DEF A, B
  <2>4. r \in [A -> B] /\ \A g, h \in A : r[g] = r[h] => g = h
    BY <2>1
  <2>5. \A h \in B : \E g \in A : r[g] = h
    BY <2>2
  <2> HIDE DEF r
  <2>6. r \in Injection(A, B) /\ r \in Surjection(A, B)
    <3>1. DOMAIN r = A
      BY <2>4
    <3>2. r \in Injection(A, B)
      BY <2>4, <3>1, Zenon DEF Injection, IsInjective
    <3>3. r \in Surjection(A, B)
      BY <2>4, <2>5, Zenon DEF Surjection
    <3> QED BY <3>2, <3>3
  <2>7. ExistsBijection(A, B)
    BY <2>6, Zenon DEF ExistsBijection, Bijection
  <2>8. Cardinality(B) = Cardinality(A)
    BY <2>3, <2>7, FS_Bijection
  <2>9. A = {} <=> B = {}
    BY <2>1, <2>2
  <2> QED BY <2>8, <2>9 DEF A, B
<1>4. Counted(sh, H2)
  BY <1>3 DEF Sound, Good, Counted
<1>5. \A h \in H2 : h[4] \in 1..Len(sh.pool)
  <2>1. \A h \in H2 : m[h][4] \in 1..Len(sh.pool)
    BY DEF Sound, Good
  <2> QED BY <2>1
<1>6. Good(sh, H2, X)
  BY <1>2, <1>4, <1>5 DEF Sound, Good
<1>7. Owned(sh, H2, X)
  <2> SUFFICES ASSUME NEW h \in H2, h[2] \notin X PROVE Fits(sh, h)
    BY DEF Owned
  <2>1. Fits(sh, m[h])
    BY DEF Sound, Owned
  <2>2. /\ m[h][1] = h[1] /\ m[h][2] = h[2] /\ m[h][4] = h[4] /\ m[h][5] = h[5]
        /\ (m[h][3] = 0 => h[3] = 0)
    OBVIOUS
  <2> QED BY <2>1, <2>2 DEF Fits
<1> QED BY <1>6, <1>7 DEF Sound

\* A client's entity state of a slot, and what else is held.
Elsewhere(H, c, s) == \A h \in H : h \in Places /\ ~(h[1] = c /\ h[2] = s)
StateOK(st) == st = [baseline |-> st.baseline, pending |-> st.pending]
               /\ st.baseline \in Nat /\ st.pending \in Seq(PendingFrame)

StateOf(b, p) == [baseline |-> b, pending |-> p]
Place(c, s, st, i) == <<c, s, i, st.pending[i].id, st.pending[i].frame>>

LEMMA PlaceFacts ==
    ASSUME NEW c \in Clients, NEW s \in Slots, NEW st, StateOK(st), NEW i \in 1..Len(st.pending)
    PROVE  /\ Place(c, s, st, i) \in RefsOf(c, s, st)
           /\ Place(c, s, st, i)[3] = i /\ Place(c, s, st, i)[4] = st.pending[i].id
           /\ \A h \in RefsOf(c, s, st) : h[3] = i => h = Place(c, s, st, i)
<1>1. st.pending[i] \in PendingFrame /\ i \in Nat /\ i # 0 /\ i <= Len(st.pending)
  BY DEF StateOK
<1>2. st.pending[i].id \in Nat /\ st.pending[i].frame \in Nat
  BY <1>1, PoolAssumption DEF PendingFrame
<1>3. PICK p : p = Place(c, s, st, i)
  OBVIOUS
<1>4. p = <<c, s, i, st.pending[i].id, st.pending[i].frame>>
  BY <1>3 DEF Place
<1>5. p \in Places /\ p[1] = c /\ p[2] = s /\ p[3] = i /\ p[4] = st.pending[i].id
      /\ p[5] = st.pending[i].frame
  BY <1>1, <1>2, <1>4 DEF Places
<1>6. p \in RefsOf(c, s, st)
  BY <1>1, <1>5 DEF RefsOf, Holds
<1>7. ASSUME NEW h \in RefsOf(c, s, st), h[3] = i PROVE h = p
  <2>1. h \in Places /\ h[1] = c /\ h[2] = s /\ h[4] = st.pending[i].id /\ h[5] = st.pending[i].frame
    BY <1>1, <1>7 DEF RefsOf, Holds
  <2>2. h = <<h[1], h[2], h[3], h[4], h[5]>>
    BY <2>1 DEF Places
  <2> QED BY <1>4, <1>7, <2>1, <2>2
<1> QED BY <1>3, <1>5, <1>6, <1>7

LEMMA FrameIdsFacts ==
    ASSUME NEW p \in Seq(PendingFrame)
    PROVE  Len(FrameIds(p)) = Len(p) /\ \A i \in 1..Len(p) : FrameIds(p)[i] = p[i].id
<1>1. FrameIds(p) = [i \in 1..Len(p) |-> p[i].id] /\ Len(p) \in Nat
  BY DEF FrameIds
<1>2. FrameIds(p) \in Seq({p[i].id : i \in 1..Len(p)})
  BY <1>1
<1> QED BY <1>1, <1>2

\* The places of a state's references.
LEMMA RefsOfPlaces ==
    ASSUME NEW c, NEW s, NEW st, NEW h \in RefsOf(c, s, st)
    PROVE  /\ h \in Places /\ h[1] = c /\ h[2] = s /\ h[3] \in Nat
           /\ h[3] # 0 /\ Len(st.pending) \in Nat => h[3] \in 1..Len(st.pending)
BY DEF RefsOf, Holds, Places

\* The pending entries at the positions in S are given up, the others move up.
Positions(st) == 1..Len(st.pending)
Keeping(st, S) == StateOf(st.baseline, Picked(st.pending, Positions(st) \ S))
GivenUp(sh, st, S) == ReleaseAll(sh, FrameIds(Picked(st.pending, S)))
With(R, c, s, st) == R \cup RefsOf(c, s, st)

LEMMA Drop ==
    ASSUME NEW sh, NEW X, NEW Rest, NEW c \in Clients, NEW s \in Slots, Elsewhere(Rest, c, s),
           NEW st, StateOK(st), NEW S, S \subseteq Positions(st), Sound(sh, With(Rest, c, s, st), X)
    PROVE  /\ Sound(GivenUp(sh, st, S), With(Rest, c, s, Keeping(st, S)), X)
           /\ Kept(sh, GivenUp(sh, st, S)) /\ StateOK(Keeping(st, S))
<1>a. PICK sh2 : sh2 = GivenUp(sh, st, S)
  OBVIOUS
<1>b. PICK st2 : st2 = Keeping(st, S)
  OBVIOUS
<1>0. PICK H : H = Rest \cup RefsOf(c, s, st)
  OBVIOUS
<1>1. PICK p : p = st.pending
  OBVIOUS
<1>c. S \subseteq 1..Len(p)
  BY <1>1 DEF Positions
<1>2. p \in Seq(PendingFrame) /\ Len(p) \in Nat
  BY <1>1 DEF StateOK
<1>3. PICK p1 : p1 = Picked(p, S)
  OBVIOUS
<1>4. p1 \in Seq(PendingFrame) /\ \E pos : Lists(p1, p, S, pos)
  <2>1. S \in SUBSET (1..Len(p))
    BY <1>c
  <2> QED BY <1>2, <1>3, <2>1, PickedFacts
<1>5. PICK pos1 : Lists(p1, p, S, pos1)
  BY <1>4
<1>6. PICK U : U = (1..Len(p)) \ S
  OBVIOUS
<1>7. PICK p2 : p2 = Picked(p, U)
  OBVIOUS
<1>8. p2 \in Seq(PendingFrame) /\ \E pos : Lists(p2, p, U, pos)
  BY <1>2, <1>6, <1>7, PickedFacts
<1>9. PICK pos2 : Lists(p2, p, U, pos2)
  BY <1>8
<1>10. st2 = [baseline |-> st.baseline, pending |-> p2]
  BY <1>b, <1>1, <1>6, <1>7 DEF StateOf, Keeping, Positions
<1>11. st2.baseline = st.baseline /\ st2.pending = p2 /\ StateOK(st2)
  <2>1. st2.baseline = st.baseline /\ st2.pending = p2
    BY ONLY <1>10
  <2>2. st.baseline \in Nat
    BY DEF StateOK
  <2> QED BY ONLY <1>8, <1>10, <2>1, <2>2 DEF StateOK
<1>12. PICK qs : qs = FrameIds(p1)
  OBVIOUS
<1>13. Len(qs) = Len(p1) /\ Len(p1) \in Nat /\ \A i \in 1..Len(p1) : qs[i] = p1[i].id
  BY <1>4, <1>12, FrameIdsFacts
<1>14. sh2 = ReleaseAll(sh, qs)
  BY <1>a, <1>1, <1>3, <1>12 DEF GivenUp
<1>15. PICK H1 : H1 = Rest \cup {h \in RefsOf(c, s, st) : h[3] \notin S}
  OBVIOUS
<1>16. \A i \in 1..Len(p) :
         /\ Place(c, s, st, i) \in RefsOf(c, s, st) /\ Place(c, s, st, i) \in H
         /\ Place(c, s, st, i)[3] = i /\ Place(c, s, st, i)[4] = p[i].id
         /\ \A h \in RefsOf(c, s, st) : h[3] = i => h = Place(c, s, st, i)
  BY <1>0, <1>1, PlaceFacts
<1>17. Sound(sh2, H1, X) /\ Kept(sh, sh2)
  <2> DEFINE tok == [i \in 1..Len(qs) |-> Place(c, s, st, pos1[i])]
  <2>1. /\ \A i \in 1..Len(qs) : pos1[i] \in S /\ pos1[i] \in 1..Len(p) /\ p1[i] = p[pos1[i]]
        /\ \A i, j \in 1..Len(qs) : pos1[i] = pos1[j] => i = j
        /\ \A k \in S : \E i \in 1..Len(qs) : pos1[i] = k
    BY <1>c, <1>5, <1>13 DEF Lists
  <2>2. /\ tok \in [1..Len(qs) -> H]
        /\ \A i \in 1..Len(qs) : /\ tok[i] = Place(c, s, st, pos1[i])
                                 /\ tok[i][3] = pos1[i] /\ tok[i][4] = qs[i]
                                 /\ tok[i] \in RefsOf(c, s, st)
    <3>1. \A i \in 1..Len(qs) : /\ Place(c, s, st, pos1[i]) \in H
                                /\ Place(c, s, st, pos1[i])[3] = pos1[i]
                                /\ Place(c, s, st, pos1[i])[4] = qs[i]
                                /\ Place(c, s, st, pos1[i]) \in RefsOf(c, s, st)
      BY ONLY <1>13, <1>16, <2>1
    <3> QED BY <3>1
  <2> HIDE DEF tok
  <2>3. \A i, j \in 1..Len(qs) : tok[i] = tok[j] => i = j
    BY <2>1, <2>2
  <2>4. PICK G : G = {h \in H : \A i \in 1..Len(qs) : tok[i] # h}
    OBVIOUS
  <2>5. Sound(sh2, G, X) /\ Kept(sh, sh2)
    <3>1. Sound(sh, H, X) /\ Len(qs) \in Nat
      BY <1>0, <1>13 DEF With
    <3>2. tok \in [1..Len(qs) -> H] /\ \A i \in 1..Len(qs) : qs[i] = tok[i][4]
      BY <2>2
    <3>3. /\ Sound(ReleaseAll(sh, qs), {h \in H : \A i \in 1..Len(qs) : tok[i] # h}, X)
          /\ Kept(sh, ReleaseAll(sh, qs))
      BY ONLY <3>1, <3>2, <2>3, SoundReleaseSome
    <3> QED BY <1>14, <2>4, <3>3
  <2>6. G = H1
    <3>1. ASSUME NEW h \in Rest PROVE h \in G /\ h \in H1
      <4>1. ~(h[1] = c /\ h[2] = s)
        BY DEF Elsewhere
      <4>2. \A i \in 1..Len(qs) : tok[i][1] = c /\ tok[i][2] = s
        BY <2>2, RefsOfPlaces
      <4> QED BY <1>0, <1>15, <2>4, <4>1, <4>2
    <3>2. ASSUME NEW h \in RefsOf(c, s, st), h[3] \notin S PROVE h \in G /\ h \in H1
      BY <1>0, <1>15, <2>1, <2>2, <2>4, <3>2
    <3>3. ASSUME NEW h \in RefsOf(c, s, st), h[3] \in S PROVE h \notin G
      <4>1. PICK i \in 1..Len(qs) : pos1[i] = h[3]
        BY <2>1, <3>3
      <4>2. h = tok[i]
        BY <1>16, <2>1, <2>2, <4>1
      <4> QED BY <2>4, <4>2
    <3> QED BY <1>0, <1>15, <2>4, <3>1, <3>2, <3>3
  <2> QED BY <2>5, <2>6
<1>18. PICK H2 : H2 = Rest \cup RefsOf(c, s, st2)
  OBVIOUS
<1>19. /\ \A k \in 1..Len(p2) : pos2[k] \in U /\ pos2[k] \in 1..Len(p) /\ p2[k] = p[pos2[k]]
       /\ \A k, l \in 1..Len(p2) : pos2[k] = pos2[l] => k = l
       /\ \A i \in U : \E k \in 1..Len(p2) : pos2[k] = i
       /\ Len(p2) \in Nat
  BY <1>6, <1>8, <1>9 DEF Lists
<1>20. \A h \in RefsOf(c, s, st2) : h[3] # 0 =>
         /\ h[3] \in 1..Len(p2) /\ h[4] = p2[h[3]].id /\ h[5] = p2[h[3]].frame
  BY <1>11, <1>19 DEF RefsOf, Holds, Places
<1>21. \A h \in Places : h[1] = c /\ h[2] = s /\ h[3] = 0 =>
         (h \in RefsOf(c, s, st2) <=> h \in RefsOf(c, s, st))
  BY <1>11 DEF RefsOf, Holds
<1>22. \A k \in 1..Len(p2) : Place(c, s, st2, k) \in RefsOf(c, s, st2) /\ Place(c, s, st2, k)[3] = k
  BY <1>11, PlaceFacts
<1>23. H2 \in SUBSET Places
  BY <1>18 DEF Elsewhere, RefsOf
<1> DEFINE M(h) == IF h \in Rest \/ h[3] = 0 THEN h ELSE Place(c, s, st, pos2[h[3]])
           m == [h \in H2 |-> M(h)]
<1>24. \A h \in RefsOf(c, s, st) : h \notin Rest
  BY DEF Elsewhere, RefsOf
<1>25. \A h \in RefsOf(c, s, st2) : h \notin Rest
  BY DEF Elsewhere, RefsOf
<1>26. ASSUME NEW h \in H2
       PROVE  /\ M(h) \in H1 /\ M(h)[1] = h[1] /\ M(h)[2] = h[2] /\ M(h)[4] = h[4] /\ M(h)[5] = h[5]
              /\ M(h)[3] = 0 => h[3] = 0
              /\ h \notin Rest => M(h) \notin Rest
              /\ h \notin Rest /\ h[3] # 0 => h[3] \in 1..Len(p2) /\ M(h)[3] = pos2[h[3]] /\ M(h)[3] # 0
  <2>1. CASE h \in Rest
    BY <1>15, <2>1
  <2>2. CASE h \notin Rest /\ h[3] = 0
    <3>1. h \in RefsOf(c, s, st2) /\ h[1] = c /\ h[2] = s /\ h \in Places
      BY <1>18, <2>2 DEF RefsOf
    <3>2. h \in RefsOf(c, s, st)
      BY <1>21, <2>2, <3>1
    <3>3. 0 \notin S
      BY <1>c, <1>2
    <3> QED BY <1>15, <2>2, <3>2, <3>3
  <2>3. CASE h \notin Rest /\ h[3] # 0
    <3>1. h \in RefsOf(c, s, st2) /\ h[1] = c /\ h[2] = s
      BY <1>18, <2>3 DEF RefsOf
    <3>2. h[3] \in 1..Len(p2) /\ h[4] = p2[h[3]].id /\ h[5] = p2[h[3]].frame
      BY <1>20, <2>3, <3>1
    <3>3. PICK i : i = pos2[h[3]]
      OBVIOUS
    <3>4. i \in U /\ i \in 1..Len(p) /\ p2[h[3]] = p[i]
      BY <1>19, <3>2, <3>3
    <3>5. M(h) = Place(c, s, st, i)
      BY <2>3, <3>3
    <3> HIDE DEF M
    <3>6. M(h) \in RefsOf(c, s, st) /\ M(h)[3] = i /\ M(h)[4] = p[i].id /\ M(h)[5] = p[i].frame
      BY <1>1, <1>16, <3>4, <3>5 DEF Place
    <3>7. M(h)[1] = c /\ M(h)[2] = s
      BY <3>6 DEF RefsOf
    <3>8. i # 0 /\ i \notin S
      BY <1>2, <1>6, <3>4
    <3> QED BY <1>15, <1>24, <2>3, <3>1, <3>2, <3>3, <3>4, <3>6, <3>7, <3>8
  <2> QED BY <2>1, <2>2, <2>3
<1>27. \A h \in H2 : M(h) \in Rest => M(h) = h
  BY <1>24, <1>26
<1>28. \A h \in H2 : h \in Rest \/ h[3] = 0 => M(h) = h
  OBVIOUS
<1>29. ASSUME NEW g \in H2, NEW h \in H2, M(g) = M(h) PROVE g = h
  <2>1. CASE g \in Rest \/ h \in Rest
    BY <1>26, <1>28, <1>29, <2>1
  <2>2. CASE g \notin Rest /\ h \notin Rest /\ (g[3] = 0 \/ h[3] = 0)
    BY <1>26, <1>28, <1>29, <2>2
  <2>3. CASE g \notin Rest /\ h \notin Rest /\ g[3] # 0 /\ h[3] # 0
    <3> HIDE DEF M
    <3>1. g[3] = h[3]
      <4>1. g[3] \in 1..Len(p2) /\ M(g)[3] = pos2[g[3]]
        BY <1>26, <2>3
      <4>2. h[3] \in 1..Len(p2) /\ M(h)[3] = pos2[h[3]]
        BY <1>26, <2>3
      <4>3. pos2[g[3]] = pos2[h[3]]
        BY <1>29, <4>1, <4>2
      <4> QED BY <1>19, <4>1, <4>2, <4>3
    <3>2. g[4] = h[4] /\ g[5] = h[5] /\ g[1] = h[1] /\ g[2] = h[2]
      BY <1>26, <1>29
    <3>3. g = <<g[1], g[2], g[3], g[4], g[5]>> /\ h = <<h[1], h[2], h[3], h[4], h[5]>>
      BY <1>23 DEF Places
    <3> QED BY <3>1, <3>2, <3>3
  <2> QED BY <2>1, <2>2, <2>3
<1>30. ASSUME NEW h \in H1 PROVE \E g \in H2 : M(g) = h
  <2>1. CASE h \in Rest
    BY <1>18, <2>1
  <2>2. CASE h \notin Rest /\ h[3] = 0
    <3>1. h \in RefsOf(c, s, st) /\ h \in Places /\ h[1] = c /\ h[2] = s
      BY <1>15, <2>2 DEF RefsOf
    <3>2. h \in RefsOf(c, s, st2)
      BY <1>21, <2>2, <3>1
    <3> QED BY <1>18, <2>2, <3>2
  <2>3. CASE h \notin Rest /\ h[3] # 0
    <3>1. h \in RefsOf(c, s, st) /\ h[3] \notin S
      BY <1>15, <2>3
    <3>2. h[3] \in 1..Len(p)
      BY <1>1, <1>2, <2>3, <3>1, RefsOfPlaces
    <3>3. PICK k \in 1..Len(p2) : pos2[k] = h[3]
      BY <1>6, <1>19, <3>1, <3>2
    <3>4. PICK g : g = Place(c, s, st2, k)
      OBVIOUS
    <3>5. g \in RefsOf(c, s, st2) /\ g[3] = k /\ k # 0
      BY ONLY <1>19, <1>22, <3>3, <3>4, k \in 1..Len(p2)
    <3>6. M(g) = Place(c, s, st, h[3]) /\ g \in H2
      BY <1>18, <1>25, <3>3, <3>5
    <3>7. h = Place(c, s, st, h[3])
      BY <1>16, <3>1, <3>2
    <3> QED BY <3>6, <3>7
  <2> QED BY <2>1, <2>2, <2>3
<1> HIDE DEF M
<1>31. /\ m \in [H2 -> H1] /\ \A h \in H2 : m[h] = M(h)
  BY <1>26
<1> HIDE DEF m
<1>32. \A g, h \in H2 : m[g] = m[h] => g = h
  BY <1>29, <1>31
<1>33. \A h \in H1 : \E g \in H2 : m[g] = h
  BY <1>30, <1>31
<1>2a. \A h \in H2 : /\ m[h][1] = h[1] /\ m[h][2] = h[2]
                     /\ m[h][4] = h[4] /\ m[h][5] = h[5] /\ (m[h][3] = 0 => h[3] = 0)
  BY <1>26, <1>31
<1>35. Sound(sh2, H2, X)
  BY <1>17, <1>23, <1>31, <1>32, <1>33, <1>2a, Relabel
<1> QED BY <1>a, <1>b, <1>11, <1>17, <1>18, <1>35 DEF With

LEMMA BaselinePlace ==
    ASSUME NEW c \in Clients, NEW s \in Slots, NEW q \in Nat, NEW b, b = <<c, s, 0, q, 0>>
    PROVE  /\ b \in Places /\ b[1] = c /\ b[2] = s /\ b[3] = 0 /\ b[4] = q /\ b[5] = 0
           /\ \A h \in Places :
                h[1] = c /\ h[2] = s /\ h[3] = 0 /\ h[4] = q /\ h[5] = 0 => h = b
<1>1. b \in Places /\ b[1] = c /\ b[2] = s /\ b[3] = 0 /\ b[4] = q /\ b[5] = 0
  BY DEF Places
<1>2. \A h \in Places : h = <<h[1], h[2], h[3], h[4], h[5]>>
  BY DEF Places
<1> QED BY <1>1, <1>2

\* The baseline is given up; the pending entries stay what they refer to.
LEMMA DropBaseline ==
    ASSUME NEW sh, NEW X, NEW Rest, NEW c \in Clients, NEW s \in Slots, Elsewhere(Rest, c, s),
           NEW st, StateOK(st), Sound(sh, Rest \cup RefsOf(c, s, st), X),
           NEW st2, StateOK(st2), st2.baseline = None, Len(st2.pending) = Len(st.pending),
           \A i \in 1..Len(st.pending) : /\ st2.pending[i].id = st.pending[i].id
                                         /\ st2.pending[i].frame = st.pending[i].frame
    PROVE  /\ Sound(Release(sh, st.baseline), Rest \cup RefsOf(c, s, st2), X)
           /\ Kept(sh, Release(sh, st.baseline))
<1>0. Len(st.pending) \in Nat /\ st.baseline \in Nat
  BY DEF StateOK
<1>1. \A h \in Places : h[1] = c /\ h[2] = s /\ h[3] # 0 =>
        (h \in RefsOf(c, s, st2) <=> h \in RefsOf(c, s, st))
  <2> SUFFICES ASSUME NEW h \in Places, h[1] = c, h[2] = s, h[3] # 0
               PROVE  h \in RefsOf(c, s, st2) <=> h \in RefsOf(c, s, st)
    OBVIOUS
  <2>1. h[3] \in Nat
    BY DEF Places
  <2>2. h[3] <= Len(st.pending) => h[3] \in 1..Len(st.pending)
    BY <1>0, <2>1
  <2>3. h[3] <= Len(st.pending) =>
          /\ st2.pending[h[3]].id = st.pending[h[3]].id
          /\ st2.pending[h[3]].frame = st.pending[h[3]].frame
    BY <2>2
  <2>4. Holds(h, st2) <=> Holds(h, st)
    BY <2>3 DEF Holds
  <2> QED BY <2>4 DEF RefsOf
<1>2. \A h \in RefsOf(c, s, st2) : h \in Places /\ h[1] = c /\ h[2] = s /\ h[3] # 0
  BY DEF RefsOf, Holds
<1>3. CASE st.baseline = None
  <2>1. \A h \in RefsOf(c, s, st) : h \in Places /\ h[1] = c /\ h[2] = s /\ h[3] # 0
    BY <1>3 DEF RefsOf, Holds
  <2>2. RefsOf(c, s, st2) = RefsOf(c, s, st)
    BY <1>1, <1>2, <2>1
  <2> QED BY <1>3, <2>2, ReleaseNone, KeptRefl
<1>4. CASE st.baseline # None
  <2>1. PICK b : b = <<c, s, 0, st.baseline, 0>>
    OBVIOUS
  <2>2. /\ b \in Places /\ b[1] = c /\ b[2] = s /\ b[3] = 0 /\ b[4] = st.baseline /\ b[5] = 0
        /\ \A h \in Places :
             h[1] = c /\ h[2] = s /\ h[3] = 0 /\ h[4] = st.baseline /\ h[5] = 0 => h = b
    BY <1>0, <2>1, BaselinePlace
  <2>3. b \in RefsOf(c, s, st) /\ b \notin Rest
    BY <1>4, <2>2 DEF RefsOf, Holds, Elsewhere
  <2>4. \A h \in RefsOf(c, s, st) : h \in Places /\ h[1] = c /\ h[2] = s /\ (h[3] = 0 => h = b)
    BY <2>2 DEF RefsOf, Holds
  <2>5. (Rest \cup RefsOf(c, s, st)) \ {b} = Rest \cup RefsOf(c, s, st2)
    BY <1>1, <1>2, <2>2, <2>3, <2>4
  <2>6. PICK H : H = Rest \cup RefsOf(c, s, st)
    OBVIOUS
  <2>7. Sound(Release(sh, b[4]), H \ {b}, X) /\ Kept(sh, Release(sh, b[4]))
    BY <2>3, <2>6, SoundRelease, ZenonT(60)
  <2> QED BY <2>2, <2>5, <2>6, <2>7
<1> QED BY <1>3, <1>4

LEMMA ClearOne ==
    ASSUME NEW sh, NEW X, NEW Rest, NEW c \in Clients, NEW s \in Slots, Elsewhere(Rest, c, s),
           NEW st, StateOK(st), Sound(sh, Rest \cup RefsOf(c, s, st), X)
    PROVE  Sound(ClearState(sh, st), Rest, X) /\ Kept(sh, ClearState(sh, st))
<1>1. PICK st2 : st2 = [baseline |-> None, pending |-> st.pending]
  OBVIOUS
<1>2. StateOK(st2) /\ st2.baseline = None /\ st2.pending = st.pending
  BY <1>1 DEF StateOK, None
<1>3. PICK sh1 : sh1 = Release(sh, st.baseline)
  OBVIOUS
<1>4. PICK H : H = Rest \cup RefsOf(c, s, st2)
  OBVIOUS
<1>5. Sound(sh1, H, X) /\ Kept(sh, sh1)
  BY <1>2, <1>3, <1>4, DropBaseline
<1>6. PICK p : p = st2.pending
  OBVIOUS
<1>7. PICK qs : qs = FrameIds(p)
  OBVIOUS
<1>8. /\ Len(qs) = Len(p) /\ Len(p) \in Nat /\ \A i \in 1..Len(p) : qs[i] = p[i].id
  BY <1>2, <1>6, <1>7, FrameIdsFacts DEF StateOK
<1> DEFINE tok == [i \in 1..Len(qs) |-> Place(c, s, st2, i)]
<1>9. \A i \in 1..Len(p) :
         /\ Place(c, s, st2, i) \in RefsOf(c, s, st2) /\ Place(c, s, st2, i) \in H
         /\ Place(c, s, st2, i)[3] = i /\ Place(c, s, st2, i)[4] = p[i].id
         /\ \A h \in RefsOf(c, s, st2) : h[3] = i => h = Place(c, s, st2, i)
  BY <1>2, <1>4, <1>6, PlaceFacts
<1>10. /\ tok \in [1..Len(qs) -> H]
       /\ \A i \in 1..Len(qs) : qs[i] = tok[i][4] /\ tok[i][3] = i /\ tok[i] = Place(c, s, st2, i)
                                /\ tok[i] \in RefsOf(c, s, st2)
  BY <1>8, <1>9
<1> HIDE DEF tok
<1>11. \A i, j \in 1..Len(qs) : tok[i] = tok[j] => i = j
  BY <1>10
<1>12. PICK G : G = {h \in H : \A i \in 1..Len(qs) : tok[i] # h}
  OBVIOUS
<1>13. /\ Sound(ReleaseAll(sh1, qs), {h \in H : \A i \in 1..Len(qs) : tok[i] # h}, X)
       /\ Kept(sh1, ReleaseAll(sh1, qs))
  <2>1. Sound(sh1, H, X) /\ Len(qs) \in Nat
    BY <1>5, <1>8
  <2>2. tok \in [1..Len(qs) -> H] /\ \A i \in 1..Len(qs) : qs[i] = tok[i][4]
    BY <1>10
  <2> QED BY ONLY <1>11, <2>1, <2>2, SoundReleaseSome
<1>14. G = Rest
  <2>1. ASSUME NEW h \in Rest PROVE h \in G
    <3>1. ~(h[1] = c /\ h[2] = s)
      BY DEF Elsewhere
    <3>2. \A i \in 1..Len(qs) : tok[i][1] = c /\ tok[i][2] = s
      BY <1>10, RefsOfPlaces
    <3> QED BY <1>4, <1>12, <3>1, <3>2
  <2>2. ASSUME NEW h \in RefsOf(c, s, st2) PROVE h \notin G
    <3>1. h[3] # 0
      BY <1>2 DEF RefsOf, Holds
    <3>2. h[3] \in 1..Len(p)
      BY <1>6, <1>8, <3>1, RefsOfPlaces
    <3>3. h = tok[h[3]]
      BY <1>8, <1>9, <1>10, <3>2
    <3> QED BY <1>8, <1>12, <3>2, <3>3
  <2> QED BY <1>4, <1>12, <2>1, <2>2
<1>15. ClearState(sh, st) = ReleaseAll(sh1, qs)
  BY <1>2, <1>3, <1>6, <1>7 DEF ClearState
<1> QED BY <1>5, <1>12, <1>13, <1>14, <1>15, KeptTrans

ClearChain(f, sh, sts) ==
  f = [i \in 0..Len(sts) |-> IF i = 0 THEN sh ELSE ClearState(f[i - 1], sts[i])]

LEMMA ClearExists ==
    ASSUME NEW sh, NEW sts, Len(sts) \in Nat
    PROVE  \E f : ClearChain(f, sh, sts)
<1> DEFINE P(n) == \E f : /\ f = [i \in 0..n |-> f[i]] /\ f[0] = sh
                          /\ \A i \in 1..n : f[i] = ClearState(f[i - 1], sts[i])
           K == {n \in Nat : P(n)}
<1>1. P(0)
  <2> DEFINE z == [i \in 0..0 |-> sh]
  <2>1. z = [i \in 0..0 |-> z[i]] /\ z[0] = sh
    OBVIOUS
  <2> HIDE DEF z
  <2> QED BY <2>1
<1>2. ASSUME NEW n \in Nat, P(n) PROVE P(n + 1)
  <2>1. PICK f : /\ f = [i \in 0..n |-> f[i]] /\ f[0] = sh
                 /\ \A i \in 1..n : f[i] = ClearState(f[i - 1], sts[i])
    BY <1>2
  <2>2. PICK v : v = ClearState(f[n], sts[n + 1])
    OBVIOUS
  <2> DEFINE g == [i \in 0..(n + 1) |-> IF i = n + 1 THEN v ELSE f[i]]
  <2>3. g = [i \in 0..(n + 1) |-> g[i]] /\ g[0] = sh /\ g[n + 1] = v /\ g[n] = f[n]
    BY <2>1
  <2>4. \A i \in 1..n : g[i] = f[i] /\ g[i - 1] = f[i - 1]
    OBVIOUS
  <2> HIDE DEF g
  <2>5. \A i \in 1..(n + 1) : g[i] = ClearState(g[i - 1], sts[i])
    <3> SUFFICES ASSUME NEW i \in 1..(n + 1) PROVE g[i] = ClearState(g[i - 1], sts[i])
      OBVIOUS
    <3>1. CASE i = n + 1
      BY <2>2, <2>3, <3>1
    <3>2. CASE i \in 1..n
      BY <2>1, <2>4, <3>2
    <3> QED BY <3>1, <3>2
  <2> QED BY <2>3, <2>5
<1> HIDE DEF P
<1>3. K = Nat
  <2>1. 0 \in K /\ (\A n \in K : n + 1 \in K) /\ K \in SUBSET Nat
    BY <1>1, <1>2
  <2> HIDE DEF K
  <2> QED BY <2>1, Induct
<1>4. P(Len(sts))
  BY <1>3
<1>5. PICK f : /\ f = [i \in 0..Len(sts) |-> f[i]] /\ f[0] = sh
               /\ \A i \in 1..Len(sts) : f[i] = ClearState(f[i - 1], sts[i])
  BY <1>4 DEF P
<1>6. ClearChain(f, sh, sts)
  <2>1. \A i \in 0..Len(sts) : f[i] = IF i = 0 THEN sh ELSE ClearState(f[i - 1], sts[i])
    BY <1>5
  <2> QED BY <1>5, <2>1 DEF ClearChain
<1> QED BY <1>6

LEMMA ClearStatesChain ==
    ASSUME NEW sh, NEW sts, Len(sts) \in Nat
    PROVE  \E f : /\ ClearStates(sh, sts) = f[Len(sts)] /\ f[0] = sh
                  /\ \A i \in 1..Len(sts) : f[i] = ClearState(f[i - 1], sts[i])
<1> DEFINE f == CHOOSE f : ClearChain(f, sh, sts)
<1>1. ClearChain(f, sh, sts)
  BY ClearExists
<1>2. ClearStates(sh, sts) = f[Len(sts)]
  BY Zenon DEF ClearStates, ClearChain
<1> HIDE DEF f
<1>3. f[0] = sh /\ \A i \in 1..Len(sts) : f[i] = ClearState(f[i - 1], sts[i])
  BY <1>1 DEF ClearChain
<1> QED BY <1>2, <1>3

\* The references of one state, and what is left without those of some states.
At(H, c, s) == {h \in H : h[1] = c /\ h[2] = s}
LeftOf(H, cs, ss, n) == {h \in H : \A i \in 1..n : ~(h[1] = cs[i] /\ h[2] = ss[i])}

\* The states of several clients or slots are cleared one after the other.
LEMMA ClearSome ==
    ASSUME NEW sh, NEW H, NEW X, Sound(sh, H, X), NEW sts, Len(sts) \in Nat,
           NEW cs \in [1..Len(sts) -> Clients], NEW ss \in [1..Len(sts) -> Slots],
           \A i \in 1..Len(sts) : StateOK(sts[i]),
           \A i \in 1..Len(sts) : At(H, cs[i], ss[i]) = RefsOf(cs[i], ss[i], sts[i]),
           \A i, j \in 1..Len(sts) : cs[i] = cs[j] /\ ss[i] = ss[j] => i = j
    PROVE  /\ Sound(ClearStates(sh, sts), LeftOf(H, cs, ss, Len(sts)), X)
           /\ Kept(sh, ClearStates(sh, sts))
<1> DEFINE Left(n) == {h \in H : \A i \in 1..n : ~(h[1] = cs[i] /\ h[2] = ss[i])}
<1>0. H \subseteq Places
  BY DEF Sound, Good
<1>1. PICK f : /\ ClearStates(sh, sts) = f[Len(sts)] /\ f[0] = sh
               /\ \A i \in 1..Len(sts) : f[i] = ClearState(f[i - 1], sts[i])
  BY ClearStatesChain
<1> DEFINE P(n) == Sound(f[n], Left(n), X) /\ Kept(sh, f[n])
           K == {n \in Nat : n <= Len(sts) => P(n)}
<1>2. P(0)
  <2>1. Left(0) = H
    OBVIOUS
  <2> QED BY <1>1, <2>1, KeptRefl
<1>3. ASSUME NEW n \in Nat, n + 1 <= Len(sts), P(n) PROVE P(n + 1)
  <2>1. n + 1 \in 1..Len(sts) /\ (n + 1) - 1 = n
    BY <1>3
  <2>2. PICK c : c = cs[n + 1]
    OBVIOUS
  <2>3. PICK s : s = ss[n + 1]
    OBVIOUS
  <2>4. PICK st : st = sts[n + 1]
    OBVIOUS
  <2>5. c \in Clients /\ s \in Slots /\ StateOK(st) /\ f[n + 1] = ClearState(f[n], st)
    BY <1>1, <2>1, <2>2, <2>3, <2>4
  <2>6. {h \in H : h[1] = c /\ h[2] = s} = RefsOf(c, s, st)
    BY <2>1, <2>2, <2>3, <2>4 DEF At
  <2>7. PICK Rest : Rest = Left(n + 1)
    OBVIOUS
  <2>8. Elsewhere(Rest, c, s)
    <3>1. n + 1 \in 1..(n + 1)
      OBVIOUS
    <3> QED BY <1>0, <2>2, <2>3, <2>7, <3>1 DEF Elsewhere
  <2>9. Left(n) = Rest \cup RefsOf(c, s, st)
    <3>1. \A i : i \in 1..(n + 1) <=> (i \in 1..n \/ i = n + 1)
      OBVIOUS
    <3>2. \A h \in H : h \in Rest <=> (h \in Left(n) /\ ~(h[1] = c /\ h[2] = s))
      BY <2>2, <2>3, <2>7, <3>1
    <3>3. \A h \in RefsOf(c, s, st) : h \in Left(n)
      <4> SUFFICES ASSUME NEW h \in RefsOf(c, s, st), NEW i \in 1..n
                   PROVE  h \in H /\ ~(h[1] = cs[i] /\ h[2] = ss[i])
        BY <2>6
      <4>1. h \in H /\ h[1] = cs[n + 1] /\ h[2] = ss[n + 1]
        BY <2>2, <2>3, <2>6
      <4>2. i \in 1..Len(sts) /\ i # n + 1
        BY <2>1
      <4> QED BY <2>1, <4>1, <4>2
    <3>4. Left(n) \subseteq H /\ Rest \subseteq H
      BY <2>7
    <3> HIDE DEF Left
    <3> QED BY <2>6, <3>2, <3>3, <3>4
  <2> HIDE DEF Left
  <2>10. Sound(f[n], Rest \cup RefsOf(c, s, st), X)
    BY <1>3, <2>9
  <2>11. Sound(ClearState(f[n], st), Rest, X) /\ Kept(f[n], ClearState(f[n], st))
    BY <2>5, <2>8, <2>10, ClearOne
  <2>12. Kept(sh, f[n + 1])
    BY <1>3, <2>5, <2>11, KeptTrans
  <2> QED BY <2>5, <2>7, <2>11, <2>12
<1> HIDE DEF P
<1>4. K = Nat
  <2>1. 0 \in K /\ (\A n \in K : n + 1 \in K) /\ K \in SUBSET Nat
    BY <1>2, <1>3
  <2> HIDE DEF K
  <2> QED BY <2>1, Induct
<1>5. P(Len(sts))
  BY <1>4
<1> QED BY <1>1, <1>5 DEF P, LeftOf

--------------------------------------------------------------------------------
(* A frame is captured *)

\* The inductive invariant: the pool is sound with what the clients hold.
PoolInv == TypeOK /\ Sound(Shared, Refs, {})

LEMMA SharedFields == Shared.pool = pool /\ Shared.free = free /\ Shared.slot = slot
BY DEF Shared

LEMMA InvFacts ==
    ASSUME PoolInv
    PROVE  /\ Good(Shared, Refs, {}) /\ Owned(Shared, Refs, {}) /\ ActiveOwn(Shared, {})
           /\ CacheOK(Shared) /\ SharedOK(Shared) /\ Refs \subseteq Places
           /\ pool \in Seq(QuantizedFrame \cup {FreeFrame}) /\ Len(pool) \in Nat
           /\ free \in Seq(1..Len(pool)) /\ Len(free) \in Nat
           /\ slot \in [Slots -> ReplicatedSlot]
BY DEF PoolInv, Sound, Good, TypeOK, Ids

\* The frame that is made when there is none, with the reference to it.
FrameWith(c, s, n) == [NewFrame(c, s) EXCEPT !.refs = n]
NewShared(c, s, q) ==
  [pool |-> IF free # <<>> THEN [pool EXCEPT ![q] = FrameWith(c, s, 1)]
            ELSE Append(pool, FrameWith(c, s, 1)),
   free |-> IF free # <<>> THEN SubSeq(free, 1, Len(free) - 1) ELSE free,
   slot |-> [slot EXCEPT ![s] =
              [slot[s] EXCEPT !.frames = slot[s].frames \cup {q},
                              !.cache = IF slot[s].cacheable THEN q ELSE slot[s].cache,
                              !.at = IF slot[s].cacheable THEN frame ELSE slot[s].at]]]

NewId == IF free # <<>> THEN free[Len(free)] ELSE Len(pool) + 1

LEMMA NewFrameType ==
    ASSUME PoolInv, NEW c \in Clients, NEW s \in Slots, slot[s].entity # 0,
           NEW n \in Nat, NEW f, f = FrameWith(c, s, n)
    PROVE  /\ f \in QuantizedFrame /\ f.active /\ f.refs = n /\ f.slot = s /\ f.frame = frame
           /\ f.entity = slot[s].entity /\ f.view = ViewOf(c, s)
<1>1. slot[s] \in ReplicatedSlot
  BY InvFacts
<1>2. slot[s].entity \in 1..MaxEntity
  BY <1>1, PoolAssumption DEF ReplicatedSlot
<1>3. ViewOf(c, s) \in Views
  BY DEF ViewOf, Views
<1>4. frame \in 1..MaxFrame
  BY DEF PoolInv, TypeOK
<1>5. f = [active |-> TRUE, slot |-> s, entity |-> slot[s].entity, frame |-> frame,
           view |-> ViewOf(c, s), refs |-> n]
  BY DEF NewFrame, FrameWith
<1> HIDE DEF ViewOf, Views
<1>6. f.active = TRUE /\ f \in QuantizedFrame
  <2>1. ASSUME NEW e \in 1..MaxEntity, NEW v \in Views, NEW g \in 1..MaxFrame
        PROVE  [active |-> TRUE, slot |-> s, entity |-> e, frame |-> g, view |-> v, refs |-> n]
                 \in QuantizedFrame
    BY Zenon DEF QuantizedFrame
  <2>2. f \in QuantizedFrame
    <3>1. PICK e \in 1..MaxEntity : e = slot[s].entity
      BY <1>2
    <3>2. PICK v \in Views : v = ViewOf(c, s)
      BY <1>3
    <3>3. PICK g \in 1..MaxFrame : g = frame
      BY <1>4
    <3>4. f = [active |-> TRUE, slot |-> s, entity |-> e, frame |-> g, view |-> v, refs |-> n]
      BY ONLY <1>5, <3>1, <3>2, <3>3
    <3> QED BY ONLY <2>1, <3>4, e \in 1..MaxEntity, v \in Views, g \in 1..MaxFrame
  <2>3. f.active = TRUE
    BY <2>2 DEF QuantizedFrame
  <2> QED BY <2>2, <2>3
<1> QED BY <1>5, <1>6

\* The index that is taken is nobody's.
PoolWith(sh, q, f) ==
  /\ q \in Nat /\ q # None /\ \A h \in Refs : h[4] # q
  /\ sh.pool \in Seq(QuantizedFrame \cup {FreeFrame}) /\ Len(sh.pool) \in Nat
  /\ q \in 1..Len(sh.pool) /\ 1..Len(sh.pool) = (1..Len(pool)) \cup {q}
  /\ sh.pool[q] = f
  /\ \A x \in 1..Len(pool) : x # q => sh.pool[x] = pool[x]
FreeWithout(sh, q) ==
  /\ sh.free \in Seq(1..Len(sh.pool)) /\ Len(sh.free) \in Nat
  /\ \A i \in 1..Len(sh.free) : sh.free[i] = free[i] /\ i \in 1..Len(free)
  /\ \A x \in 1..Len(sh.pool) : (\E i \in 1..Len(sh.free) : sh.free[i] = x) <=>
                                (x # q /\ \E i \in 1..Len(free) : free[i] = x)

LEMMA NewIdFacts ==
    ASSUME PoolInv, NEW c \in Clients, NEW s \in Slots, slot[s].entity # 0,
           NEW q, q = NewId, NEW f, f = FrameWith(c, s, 1),
           NEW sh, sh = NewShared(c, s, q)
    PROVE  PoolWith(sh, q, f) /\ FreeWithout(sh, q)
<1>0. /\ pool \in Seq(QuantizedFrame \cup {FreeFrame}) /\ Len(pool) \in Nat
      /\ free \in Seq(1..Len(pool)) /\ Len(free) \in Nat
  BY InvFacts
<1>1. f \in QuantizedFrame
  BY NewFrameType
<1>2. FreeOK(Shared) /\ (\A h \in Refs : h[4] \in 1..Len(pool)) /\ Counted(Shared, Refs)
  BY InvFacts, SharedFields DEF Good
<1>3. /\ \A x \in 1..Len(pool) : pool[x].active <=> ~\E i \in 1..Len(free) : free[i] = x
      /\ \A i, j \in 1..Len(free) : free[i] = free[j] => i = j
  BY <1>2, SharedFields DEF FreeOK
<1>4. CASE free # <<>>
  <2>1. /\ q = free[Len(free)] /\ sh.pool = [pool EXCEPT ![q] = f]
        /\ sh.free = SubSeq(free, 1, Len(free) - 1)
    BY <1>4 DEF NewId, NewShared
  <2>2. Len(free) \in 1..Len(free) /\ Len(free) # 0
    BY <1>0, <1>4
  <2>3. q \in 1..Len(pool)
    BY <1>0, <2>1, <2>2
  <2>4. /\ sh.pool \in Seq(QuantizedFrame \cup {FreeFrame}) /\ Len(sh.pool) = Len(pool)
        /\ sh.pool[q] = f
        /\ \A x \in 1..Len(pool) : x # q => sh.pool[x] = pool[x]
    <3>1. PICK P : P = [pool EXCEPT ![q] = f]
      OBVIOUS
    <3>2. /\ P \in Seq(QuantizedFrame \cup {FreeFrame}) /\ Len(P) = Len(pool) /\ P[q] = f
          /\ \A x \in 1..Len(pool) : x # q => P[x] = pool[x]
      BY ONLY <1>0, <1>1, <2>3, <3>1
    <3> QED BY <2>1, <3>1, <3>2
  <2>5. /\ sh.free \in Seq(1..Len(pool)) /\ Len(sh.free) = Len(free) - 1
        /\ \A i \in 1..Len(sh.free) : sh.free[i] = free[i] /\ i \in 1..Len(free) /\ i # Len(free)
    <3>1. PICK F : F = SubSeq(free, 1, Len(free) - 1)
      OBVIOUS
    <3>2. /\ F \in Seq(1..Len(pool)) /\ Len(F) = Len(free) - 1
          /\ \A i \in 1..(Len(free) - 1) : F[i] = free[i]
      <4>1. PICK n \in Nat : n = Len(free) - 1
        <5>1. \A k \in Nat : k # 0 => k - 1 \in Nat
          OBVIOUS
        <5> QED BY ONLY <1>0, <2>2, <5>1
      <4>2. \A i \in 1..n : free[i] \in 1..Len(pool)
        BY <1>0, <4>1
      <4>3. /\ SubSeq(free, 1, n) \in Seq(1..Len(pool))
            /\ Len(SubSeq(free, 1, n)) = IF 1 <= n THEN n - 1 + 1 ELSE 0
            /\ \A i \in 1..(n - 1 + 1) : SubSeq(free, 1, n)[i] = free[1 + i - 1]
        BY <4>2, SubSeqProperties
      <4>4. (IF 1 <= n THEN n - 1 + 1 ELSE 0) = n /\ n - 1 + 1 = n /\ \A i \in 1..n : 1 + i - 1 = i
        OBVIOUS
      <4> QED BY <3>1, <4>1, <4>3, <4>4
    <3>3. \A i \in 1..(Len(free) - 1) : i \in 1..Len(free) /\ i # Len(free)
      BY <1>0
    <3> QED BY <2>1, <3>1, <3>2, <3>3
  <2>6. \A h \in Refs : h[4] # q
    <3>1. ~pool[q].active
      BY <1>3, <2>1, <2>2, <2>3
    <3>2. To(Refs, q) = {}
      BY <1>2, <2>3, <3>1, SharedFields DEF Counted
    <3> QED BY <3>2 DEF To
  <2>7. ASSUME NEW x \in 1..Len(pool)
        PROVE  (\E i \in 1..Len(sh.free) : sh.free[i] = x) <=>
               (x # q /\ \E i \in 1..Len(free) : free[i] = x)
    <3>1. ASSUME NEW i \in 1..Len(sh.free), sh.free[i] = x
          PROVE  x # q /\ \E j \in 1..Len(free) : free[j] = x
      <4>1. free[i] = x /\ i \in 1..Len(free) /\ i # Len(free)
        BY <2>5, <3>1
      <4>2. x # q
        BY <1>3, <2>1, <2>2, <4>1
      <4> QED BY <4>1, <4>2
    <3>2. ASSUME x # q, NEW i \in 1..Len(free), free[i] = x
          PROVE  \E j \in 1..Len(sh.free) : sh.free[j] = x
      <4>1. i # Len(free)
        BY <2>1, <3>2
      <4>2. i \in 1..Len(sh.free)
        BY <1>0, <2>2, <2>5, <4>1
      <4> QED BY <2>5, <3>2, <4>2
    <3> QED BY <3>1, <3>2
  <2>8. q \in Nat /\ q # None /\ 1..Len(sh.pool) = (1..Len(pool)) \cup {q}
    BY <1>0, <2>3, <2>4 DEF None
  <2>9. PoolWith(sh, q, f)
    BY ONLY <1>0, <2>3, <2>4, <2>6, <2>8 DEF PoolWith
  <2>10. Len(sh.free) \in Nat
    BY <2>5
  <2>11. FreeWithout(sh, q)
    BY ONLY <2>4, <2>5, <2>7, <2>10 DEF FreeWithout
  <2> QED BY <2>9, <2>11
<1>5. CASE free = <<>>
  <2>1. q = Len(pool) + 1 /\ sh.pool = Append(pool, f) /\ sh.free = free /\ Len(free) = 0
    BY <1>5 DEF NewId, NewShared
  <2>2. /\ sh.pool \in Seq(QuantizedFrame \cup {FreeFrame}) /\ Len(sh.pool) = Len(pool) + 1
        /\ sh.pool[q] = f
        /\ \A x \in 1..Len(pool) : sh.pool[x] = pool[x]
    BY <1>0, <1>1, <2>1, AppendProperties
  <2>3. q \in Nat /\ q # None /\ 1..Len(sh.pool) = (1..Len(pool)) \cup {q} /\ q \in 1..Len(sh.pool)
        /\ q \notin 1..Len(pool)
    BY <1>0, <2>1, <2>2 DEF None
  <2>4. \A h \in Refs : h[4] # q
    BY <1>2, <2>3
  <2>5. sh.free \in Seq(1..Len(sh.pool))
    <3>1. <<>> \in Seq(1..Len(sh.pool))
      OBVIOUS
    <3> QED BY <1>5, <2>1, <3>1
  <2>6. PoolWith(sh, q, f)
    BY ONLY <1>0, <2>2, <2>3, <2>4 DEF PoolWith
  <2>7. FreeWithout(sh, q)
    BY ONLY <1>0, <2>1, <2>5 DEF FreeWithout
  <2> QED BY <2>6, <2>7
<1> QED BY <1>4, <1>5

LEMMA CaptureNew ==
    ASSUME PoolInv, NEW c \in Clients, NEW s \in Slots, slot[s].entity # 0,
           NEW q, q = NewId, NEW t \in Places, t[1] = c, t[2] = s, t[4] = q,
           t[3] # 0 => t[5] = frame, NEW sh, sh = NewShared(c, s, q)
    PROVE  Sound(sh, Refs \cup {t}, {})
<1>1. PICK f : f = FrameWith(c, s, 1)
  OBVIOUS
<1>2. /\ f \in QuantizedFrame /\ f.active /\ f.refs = 1 /\ f.slot = s /\ f.frame = frame
      /\ f.entity = slot[s].entity /\ f.view = ViewOf(c, s)
  <2>1. PICK n \in Nat : n = 1
    OBVIOUS
  <2>2. PoolInv /\ c \in Clients /\ s \in Slots /\ slot[s].entity # 0 /\ n \in Nat
    OBVIOUS
  <2>3. f = FrameWith(c, s, n)
    BY <1>1, <2>1
  <2>4. /\ f \in QuantizedFrame /\ f.active /\ f.refs = n /\ f.slot = s /\ f.frame = frame
        /\ f.entity = slot[s].entity /\ f.view = ViewOf(c, s)
    BY ONLY <2>2, <2>3, NewFrameType
  <2> QED BY <2>1, <2>4
<1>2a. PoolWith(sh, q, f) /\ FreeWithout(sh, q)
  BY <1>1, NewIdFacts
<1>3. /\ q \in Nat /\ q # None /\ \A h \in Refs : h[4] # q
      /\ sh.pool \in Seq(QuantizedFrame \cup {FreeFrame}) /\ Len(sh.pool) \in Nat
      /\ q \in 1..Len(sh.pool) /\ 1..Len(sh.pool) = (1..Len(pool)) \cup {q}
      /\ sh.pool[q] = f
      /\ \A x \in 1..Len(pool) : x # q => sh.pool[x] = pool[x]
  BY <1>2a, Zenon DEF PoolWith
<1>4. /\ sh.free \in Seq(1..Len(sh.pool)) /\ Len(sh.free) \in Nat
      /\ \A i \in 1..Len(sh.free) : sh.free[i] = free[i] /\ i \in 1..Len(free)
      /\ \A x \in 1..Len(sh.pool) : (\E i \in 1..Len(sh.free) : sh.free[i] = x) <=>
                                    (x # q /\ \E i \in 1..Len(free) : free[i] = x)
  BY <1>2a, Zenon DEF FreeWithout
<1>5. PICK b : b = [slot[s] EXCEPT !.frames = slot[s].frames \cup {q},
                                   !.cache = IF slot[s].cacheable THEN q ELSE slot[s].cache,
                                   !.at = IF slot[s].cacheable THEN frame ELSE slot[s].at]
  OBVIOUS
<1>6. slot \in [Slots -> ReplicatedSlot] /\ frame \in 0..MaxFrame
  BY InvFacts, PoolAssumption DEF PoolInv, TypeOK
<1>7. /\ b \in ReplicatedSlot /\ b.frames = slot[s].frames \cup {q}
      /\ b.entity = slot[s].entity /\ b.cacheable = slot[s].cacheable
      /\ b.cache = q \/ b.cache = slot[s].cache
  <2>1. slot[s] \in ReplicatedSlot
    BY <1>6
  <2>2. PICK k \in Nat : k = IF slot[s].cacheable THEN q ELSE slot[s].cache
    BY <1>3, <2>1 DEF ReplicatedSlot
  <2>3. PICK a \in 0..MaxFrame : a = IF slot[s].cacheable THEN frame ELSE slot[s].at
    BY <1>6, <2>1 DEF ReplicatedSlot
  <2>4. PICK F \in SUBSET Nat : F = slot[s].frames \cup {q}
    BY <1>3, <2>1 DEF ReplicatedSlot
  <2>5. b = [slot[s] EXCEPT !.frames = F, !.cache = k, !.at = a]
    BY <1>5, <2>2, <2>3, <2>4
  <2>6. b \in ReplicatedSlot /\ b.frames = F /\ b.entity = slot[s].entity
        /\ b.cacheable = slot[s].cacheable /\ b.cache = k
    BY ONLY <2>1, <2>5, F \in SUBSET Nat, k \in Nat, a \in 0..MaxFrame DEF ReplicatedSlot
  <2> QED BY <2>2, <2>4, <2>6
<1>8. /\ sh.slot \in [Slots -> ReplicatedSlot] /\ sh.slot[s] = b
      /\ \A x \in Slots : x # s => sh.slot[x] = slot[x]
      /\ sh = [pool |-> sh.pool, free |-> sh.free, slot |-> sh.slot]
  <2>1. sh.slot = [slot EXCEPT ![s] = b]
    BY <1>5 DEF NewShared
  <2>2. sh = [pool |-> sh.pool, free |-> sh.free, slot |-> sh.slot]
    BY DEF NewShared
  <2> QED BY <1>6, <1>7, <2>1, <2>2
<1>9. SharedOK(sh)
  BY <1>3, <1>4, <1>8 DEF SharedOK
<1>10. /\ \A h \in Refs : h[4] \in 1..Len(pool) /\ h[2] \in Slots
       /\ Refs \subseteq Places /\ IsFiniteSet(Refs)
       /\ \A x \in 1..Len(pool) : /\ pool[x].refs = Cardinality(To(Refs, x))
                                  /\ pool[x].active <=> To(Refs, x) # {}
       /\ \A x \in 1..Len(pool) : pool[x].active <=> ~\E i \in 1..Len(free) : free[i] = x
       /\ \A i, j \in 1..Len(free) : free[i] = free[j] => i = j
       /\ \A x \in Slots : slot[x].frames = {y \in 1..Len(pool) : pool[y].active /\ pool[y].slot = x}
  <2>1. Good(Shared, Refs, {})
    BY InvFacts
  <2>2. \A h \in Refs : h[2] \in Slots
    BY DEF Refs, Places
  <2> QED BY <2>1, <2>2, SharedFields DEF Good, Counted, FreeOK, ListsOK
<1>11. t \notin Refs
  BY <1>3
<1>12. PICK H : H = Refs \cup {t}
  OBVIOUS
<1>13. /\ To(H, q) = {t} /\ \A x : x # q => To(H, x) = To(Refs, x)
  BY <1>3, <1>12 DEF To
<1>14. IsFiniteSet(H) /\ H \subseteq Places /\ \A h \in H : h[4] \in 1..Len(sh.pool)
  BY <1>3, <1>10, <1>12, FS_AddElement
<1>15. Counted(sh, H)
  <2> SUFFICES ASSUME NEW x \in 1..Len(sh.pool)
               PROVE  /\ sh.pool[x].refs = Cardinality(To(H, x))
                      /\ sh.pool[x].active <=> To(H, x) # {}
    BY DEF Counted
  <2>1. CASE x = q
    <3>1. Cardinality({t}) = 1
      BY FS_Singleton
    <3> QED BY <1>2, <1>3, <1>13, <2>1, <3>1
  <2>2. CASE x # q
    <3>1. x \in 1..Len(pool) /\ sh.pool[x] = pool[x] /\ To(H, x) = To(Refs, x)
      BY <1>3, <1>13, <2>2
    <3> QED BY <1>10, <3>1
  <2> QED BY <2>1, <2>2
<1>16. FreeOK(sh)
  <2>1. \A i, j \in 1..Len(sh.free) : sh.free[i] = sh.free[j] => i = j
    BY <1>4, <1>10
  <2>2. ASSUME NEW x \in 1..Len(sh.pool)
        PROVE  sh.pool[x].active <=> ~\E i \in 1..Len(sh.free) : sh.free[i] = x
    <3>1. CASE x = q
      BY <1>2, <1>3, <1>4, <3>1
    <3>2. CASE x # q
      <4>1. x \in 1..Len(pool) /\ sh.pool[x] = pool[x]
        BY <1>3, <3>2
      <4>2. pool[x].active <=> ~\E i \in 1..Len(free) : free[i] = x
        BY <1>10, <4>1
      <4>3. (\E i \in 1..Len(sh.free) : sh.free[i] = x) <=> \E i \in 1..Len(free) : free[i] = x
        BY <1>4, <3>2
      <4> QED BY <4>1, <4>2, <4>3
    <3> QED BY <3>1, <3>2
  <2> QED BY <2>1, <2>2 DEF FreeOK
<1>17. \A y \in 1..Len(pool) : pool[y].active /\ y = q => FALSE
  <2> SUFFICES ASSUME q \in 1..Len(pool), pool[q].active PROVE FALSE
    OBVIOUS
  <2>1. PICK h : h \in To(Refs, q)
    BY <1>10
  <2> QED BY <1>3, <2>1 DEF To
<1>18. ListsOK(sh, {})
  <2> SUFFICES ASSUME NEW x \in Slots
               PROVE  sh.slot[x].frames =
                        {y \in 1..Len(sh.pool) : sh.pool[y].active /\ sh.pool[y].slot = x}
    BY DEF ListsOK
  <2>1. slot[x].frames = {y \in 1..Len(pool) : pool[y].active /\ pool[y].slot = x}
    BY <1>10
  <2>2. CASE x = s
    <3>1. sh.slot[x].frames = slot[x].frames \cup {q}
      BY <1>7, <1>8, <2>2
    <3> QED BY <1>2, <1>3, <1>17, <2>1, <2>2, <3>1
  <2>3. CASE x # s
    <3>1. sh.slot[x].frames = slot[x].frames
      BY <1>8, <2>3
    <3> QED BY <1>2, <1>3, <1>17, <2>1, <2>3, <3>1
  <2> QED BY <2>2, <2>3
<1>19. Good(sh, H, {})
  BY <1>9, <1>14, <1>15, <1>16, <1>18 DEF Good
<1>20. \A x \in Slots : sh.slot[x].entity = slot[x].entity /\ sh.slot[x].cacheable = slot[x].cacheable
  BY <1>7, <1>8
<1>21. Owned(sh, H, {})
  <2> SUFFICES ASSUME NEW h \in H PROVE Fits(sh, h)
    BY DEF Owned
  <2>1. CASE h \in Refs
    <3>1. Fits(Shared, h)
      BY <2>1, InvFacts DEF Owned
    <3>2. h[4] \in 1..Len(pool) /\ h[4] # q /\ h[2] \in Slots
      BY <1>3, <1>10, <2>1
    <3>3. sh.pool[h[4]] = pool[h[4]]
      BY <1>3, <3>2
    <3> QED BY <1>20, <3>1, <3>2, <3>3, SharedFields DEF Fits, ViewIn
  <2>2. CASE h = t
    BY <1>2, <1>3, <1>20, <2>2 DEF Fits, ViewIn, ViewOf
  <2> QED BY <1>12, <2>1, <2>2
<1>22. ActiveOwn(sh, {})
  <2> SUFFICES ASSUME NEW x \in 1..Len(sh.pool), sh.pool[x].active PROVE InPlace(sh, sh.pool[x])
    BY DEF ActiveOwn
  <2>1. CASE x = q
    BY <1>2, <1>3, <1>20, <2>1 DEF InPlace, ViewOf
  <2>2. CASE x # q
    <3>1. x \in 1..Len(pool) /\ sh.pool[x] = pool[x] /\ pool[x].active
      BY <1>3, <2>2
    <3>2. InPlace(Shared, pool[x])
      BY <3>1, InvFacts, SharedFields DEF ActiveOwn
    <3>3. pool[x] \in QuantizedFrame
      BY <3>1, InvFacts, FrameTypes
    <3>4. pool[x].slot \in Slots
      BY <3>3 DEF QuantizedFrame
    <3> QED BY <1>20, <3>1, <3>2, <3>4, SharedFields DEF InPlace
  <2> QED BY <2>1, <2>2
<1>23. CacheOK(sh)
  <2> SUFFICES ASSUME NEW x \in Slots
               PROVE  sh.slot[x].cache = None \/ sh.slot[x].cache \in 1..Len(sh.pool)
    BY DEF CacheOK
  <2>1. slot[x].cache = None \/ slot[x].cache \in 1..Len(pool)
    BY InvFacts, SharedFields DEF CacheOK
  <2> QED BY <1>3, <1>7, <1>8, <2>1
<1> QED BY <1>12, <1>19, <1>21, <1>22, <1>23 DEF Sound

\* What FindOrCreate returns, with the reference the guard takes.
LEMMA Capture ==
    ASSUME PoolInv, NEW c \in Clients, NEW s \in Slots, slot[s].entity # 0,
           NEW found, found = FindOrCreate(c, s),
           NEW t \in Places, t \notin Refs, t[1] = c, t[2] = s, t[4] = found.id,
           t[3] # 0 => t[5] = frame
    PROVE  Sound(Retain(found.sh, found.id), Refs \cup {t}, {})
<1>1. CASE Cached(s) \/ Same(s, c) # {}
  <2>1. PICK q : q = found.id
    OBVIOUS
  <2>2. /\ found.sh = Shared /\ q \in 1..Len(pool) /\ pool[q].active /\ pool[q].slot = s
        /\ pool[q].frame = frame /\ pool[q].entity = slot[s].entity /\ pool[q].view = ViewOf(c, s)
    <3>1. CASE Cached(s)
      <4>1. found.sh = Shared /\ q = slot[s].cache
        BY <2>1, <3>1 DEF FindOrCreate
      <4>2. /\ slot[s].cacheable /\ q # None /\ pool[q].active /\ pool[q].slot = s
            /\ pool[q].frame = frame
        BY <3>1, <4>1, SharedFields DEF Cached, IsActive
      <4>3. q \in 1..Len(pool)
        BY <4>1, <4>2, InvFacts, SharedFields DEF CacheOK
      <4>4. InPlace(Shared, pool[q])
        BY <4>2, <4>3, InvFacts, SharedFields DEF ActiveOwn
      <4> QED BY <4>1, <4>2, <4>3, <4>4, SharedFields DEF InPlace, ViewOf
    <3>2. CASE ~Cached(s)
      <4>1. found.sh = Shared /\ q \in Same(s, c)
        BY <1>1, <2>1, <3>2 DEF FindOrCreate
      <4>2. q \in slot[s].frames
        BY <4>1 DEF Same
      <4>3. q \in 1..Len(pool)
        BY <4>2, InvFacts, SharedFields DEF Good, ListsOK
      <4> QED BY <4>1, <4>3 DEF Same
    <3> QED BY <3>1, <3>2
  <2>3. Fits(Shared, t)
    BY <2>1, <2>2, SharedFields DEF Fits, ViewIn, ViewOf
  <2>4. Sound(Shared, Refs, {}) /\ t[4] \in 1..Len(Shared.pool) /\ Shared.pool[t[4]].active
    BY <2>1, <2>2, SharedFields DEF PoolInv
  <2>5. Sound(Retain(Shared, t[4]), Refs \cup {t}, {})
    BY <2>3, <2>4, SoundRetain
  <2> QED BY <2>2, <2>5
<1>2. CASE ~Cached(s) /\ Same(s, c) = {}
  <2>1. PICK q : q = NewId
    OBVIOUS
  <2>2. PICK base : base = [slot[s] EXCEPT
                              !.frames = slot[s].frames \cup {q},
                              !.cache = IF slot[s].cacheable THEN q ELSE slot[s].cache,
                              !.at = IF slot[s].cacheable THEN frame ELSE slot[s].at]
    OBVIOUS
  <2>3. found = [id |-> q,
                 sh |-> [pool |-> IF free # <<>> THEN [pool EXCEPT ![q] = NewFrame(c, s)]
                                  ELSE Append(pool, NewFrame(c, s)),
                         free |-> IF free # <<>> THEN SubSeq(free, 1, Len(free) - 1) ELSE free,
                         slot |-> [slot EXCEPT ![s] = base]]]
    BY <1>2, <2>1, <2>2 DEF FindOrCreate, NewId
  <2>4. PICK sh : sh = NewShared(c, s, q)
    OBVIOUS
  <2>5. Retain(found.sh, found.id) = sh
    <3>1. PICK n : n = NewFrame(c, s)
      OBVIOUS
    <3>2. PICK f : f = [n EXCEPT !.refs = 1]
      OBVIOUS
    <3>3. n.active /\ n.refs = 0 /\ [n EXCEPT !.refs = n.refs + 1] = f
      BY <3>1, <3>2 DEF NewFrame
    <3>4. /\ q # None /\ (free # <<>> => q \in 1..Len(pool)) /\ (free = <<>> => q = Len(pool) + 1)
      <4>1. free # <<>> => q \in 1..Len(pool)
        <5>1. free # <<>> => Len(free) \in 1..Len(free)
          BY InvFacts
        <5> QED BY <2>1, <5>1, InvFacts DEF NewId
      <4> QED BY <2>1, <4>1, InvFacts DEF NewId, None
    <3>5. PICK P : P = IF free # <<>> THEN [pool EXCEPT ![q] = n] ELSE Append(pool, n)
      OBVIOUS
    <3>6. PICK F : F = IF free # <<>> THEN SubSeq(free, 1, Len(free) - 1) ELSE free
      OBVIOUS
    <3>7. PICK L : L = [slot EXCEPT ![s] = base]
      OBVIOUS
    <3>8. found.id = q /\ found.sh = [pool |-> P, free |-> F, slot |-> L]
      BY <2>3, <3>1, <3>5, <3>6, <3>7
    <3>9. P[q] = n /\ pool \in Seq(QuantizedFrame \cup {FreeFrame})
      BY <3>4, <3>5, InvFacts
    <3>10. PICK u : u = found.sh
      OBVIOUS
    <3>11. Retain(u, q) = [pool |-> [P EXCEPT ![q] = f], free |-> F, slot |-> L]
      <4>1. u.pool = P /\ u.free = F /\ u.slot = L
        BY <3>8, <3>10
      <4>2. u = [pool |-> u.pool, free |-> u.free, slot |-> u.slot]
        BY <3>8, <3>10, <4>1
      <4>3. u.pool[q].active /\ n = u.pool[q] /\ q # None
        BY <3>3, <3>4, <3>9, <4>1
      <4>4. Retain(u, q) = [pool |-> [u.pool EXCEPT ![q] = [n EXCEPT !.refs = n.refs + 1]],
                            free |-> u.free, slot |-> u.slot]
        BY ONLY <4>2, <4>3, RetainRecord
      <4> QED BY <3>3, <4>1, <4>4
    <3>12. [P EXCEPT ![q] = f] = IF free # <<>> THEN [pool EXCEPT ![q] = f] ELSE Append(pool, f)
      <4>1. CASE free # <<>>
        BY <3>4, <3>5, <3>9, <4>1
      <4>2. CASE free = <<>>
        <5>1. P = Append(pool, n) /\ q = Len(pool) + 1
          BY <3>4, <3>5, <4>2
        <5>2. [P EXCEPT ![q] = f] = Append(pool, f)
          <6> DEFINE T == QuantizedFrame \cup {FreeFrame, n, f}
          <6>1. PICK A : A = Append(pool, f)
            OBVIOUS
          <6>2. PICK B : B = [P EXCEPT ![q] = f]
            OBVIOUS
          <6>3. pool \in Seq(T) /\ n \in T /\ f \in T /\ Len(pool) \in Nat
            BY <3>9
          <6> HIDE DEF T
          <6>4. /\ A \in Seq(T) /\ Len(A) = Len(pool) + 1 /\ A[Len(pool) + 1] = f
                /\ \A i \in 1..Len(pool) : A[i] = pool[i]
            BY ONLY <6>1, <6>3, AppendProperties
          <6>5. /\ P \in Seq(T) /\ Len(P) = Len(pool) + 1
                /\ \A i \in 1..Len(pool) : P[i] = pool[i]
            BY ONLY <5>1, <6>3, AppendProperties
          <6>6. /\ B \in Seq(T) /\ Len(B) = Len(pool) + 1 /\ B[q] = f
                /\ \A i \in 1..Len(pool) : B[i] = pool[i]
            <7>1. q \in 1..Len(P) /\ \A i \in 1..Len(pool) : i \in 1..Len(P) /\ i # q
              BY ONLY <5>1, <6>3, <6>5
            <7>2. /\ B \in Seq(T) /\ Len(B) = Len(P) /\ B[q] = f
                  /\ \A i \in 1..Len(P) : i # q => B[i] = P[i]
              BY ONLY <6>2, <6>3, <6>5, <7>1
            <7> QED BY ONLY <6>5, <7>1, <7>2
          <6>7. \A i \in 1..(Len(pool) + 1) : B[i] = A[i]
            BY ONLY <5>1, <6>3, <6>4, <6>6, SMTT(30)
          <6>8. B = A
            BY ONLY <6>4, <6>6, <6>7, SeqEqual
          <6> QED BY <6>1, <6>2, <6>8
        <5> QED BY <4>2, <5>2
      <4> QED BY <4>1, <4>2
    <3>13. sh = [pool |-> IF free # <<>> THEN [pool EXCEPT ![q] = f] ELSE Append(pool, f),
                 free |-> F, slot |-> L]
      BY <2>2, <2>4, <3>1, <3>2, <3>6, <3>7 DEF NewShared, FrameWith
    <3> QED BY <3>8, <3>10, <3>11, <3>12, <3>13
  <2>6. t[4] = q
    BY <2>3
  <2> QED BY <2>1, <2>4, <2>5, <2>6, CaptureNew
<1> QED BY <1>1, <1>2

--------------------------------------------------------------------------------
(* The operations *)

Rest(c, s) == {h \in Refs : ~(h[1] = c /\ h[2] = s)}

LEMMA StateFacts ==
    ASSUME PoolInv, NEW c \in Clients, NEW s \in Slots
    PROVE  /\ StateOK(state[c][s]) /\ Len(state[c][s].pending) \in Nat
           /\ Len(state[c][s].pending) <= MaxPending
           /\ Refs = Rest(c, s) \cup RefsOf(c, s, state[c][s])
           /\ Elsewhere(Rest(c, s), c, s)
<1>1. state \in [Clients -> [Slots -> ClientEntityState]] /\ Len(state[c][s].pending) <= MaxPending
  BY DEF PoolInv, TypeOK
<1>2. state[c][s] \in ClientEntityState
  BY <1>1
<1>3. StateOK(state[c][s]) /\ Len(state[c][s].pending) \in Nat
  BY <1>2 DEF ClientEntityState, StateOK
<1>4. Refs = Rest(c, s) \cup RefsOf(c, s, state[c][s])
  BY DEF Refs, Rest, RefsOf
<1>5. Elsewhere(Rest(c, s), c, s)
  BY DEF Refs, Rest, Elsewhere
<1> QED BY <1>1, <1>3, <1>4, <1>5

\* After an operation on the state of one client and slot.
LEMMA Settle ==
    ASSUME PoolInv, NEW c \in Clients, NEW s \in Slots, NEW st2, StateOK(st2),
           Len(st2.pending) <= MaxPending, state' = [state EXCEPT ![c][s] = st2],
           NEW sh, Update(sh), Sound(sh, Rest(c, s) \cup RefsOf(c, s, st2), {}),
           UNCHANGED <<frame, present, born>>
    PROVE  PoolInv'
<1>1. state \in [Clients -> [Slots -> ClientEntityState]]
  BY DEF PoolInv, TypeOK
<1>2. st2 \in ClientEntityState
  BY DEF StateOK, ClientEntityState
<1>3. /\ state' \in [Clients -> [Slots -> ClientEntityState]] /\ state'[c][s] = st2
      /\ \A d \in Clients, x \in Slots : ~(d = c /\ x = s) => state'[d][x] = state[d][x]
  BY <1>1, <1>2
<1>4. Shared' = sh /\ pool' = sh.pool /\ free' = sh.free /\ slot' = sh.slot
  <2>1. sh = [pool |-> sh.pool, free |-> sh.free, slot |-> sh.slot]
    BY DEF Sound, Good, SharedOK
  <2>2. pool' = sh.pool /\ free' = sh.free /\ slot' = sh.slot
    BY DEF Update
  <2> QED BY <2>1, <2>2 DEF Shared
<1>5. Refs' = Rest(c, s) \cup RefsOf(c, s, st2)
  <2>1. Refs' = {h \in Places : Holds(h, state'[h[1]][h[2]])}
    BY DEF Refs
  <2>2. \A h \in Places : h[1] \in Clients /\ h[2] \in Slots
    BY DEF Places
  <2>3. ASSUME NEW h \in Places, ~(h[1] = c /\ h[2] = s)
        PROVE  h \in Refs' <=> h \in Rest(c, s) \cup RefsOf(c, s, st2)
    <3>1. state'[h[1]][h[2]] = state[h[1]][h[2]]
      BY <1>3, <2>2, <2>3
    <3> QED BY <2>1, <2>3, <3>1 DEF Rest, Refs, RefsOf
  <2>4. ASSUME NEW h \in Places, h[1] = c, h[2] = s
        PROVE  h \in Refs' <=> h \in Rest(c, s) \cup RefsOf(c, s, st2)
    BY <1>3, <2>1, <2>4 DEF Rest, RefsOf
  <2>5. \A h \in Rest(c, s) \cup RefsOf(c, s, st2) : h \in Places
    BY DEF Rest, Refs, RefsOf
  <2>6. \A h \in Refs' : h \in Places
    BY <2>1
  <2> QED BY <2>3, <2>4, <2>5, <2>6
<1>6. Sound(Shared', Refs', {})
  BY <1>4, <1>5
<1>7. /\ pool' \in Seq(QuantizedFrame \cup {FreeFrame}) /\ free' \in Seq(1..Len(pool'))
      /\ slot' \in [Slots -> ReplicatedSlot]
  BY <1>4 DEF Sound, Good, SharedOK
<1>8. \A d \in Clients, x \in Slots : Len(state'[d][x].pending) <= MaxPending
  <2> SUFFICES ASSUME NEW d \in Clients, NEW x \in Slots
               PROVE  Len(state'[d][x].pending) <= MaxPending
    OBVIOUS
  <2>1. Len(state[d][x].pending) <= MaxPending
    BY DEF PoolInv, TypeOK
  <2>2. CASE d = c /\ x = s
    BY <1>3, <2>2
  <2>3. CASE ~(d = c /\ x = s)
    BY <1>3, <2>1, <2>3
  <2> QED BY <2>2, <2>3
<1>9. frame' \in 1..MaxFrame /\ born' \in 0..MaxEntity /\ present' \subseteq Clients
  BY DEF PoolInv, TypeOK
<1>10. TypeOK'
  BY <1>3, <1>7, <1>8, <1>9 DEF TypeOK, Ids
<1> QED BY <1>6, <1>10 DEF PoolInv

LEMMA InvalidatedFacts ==
    ASSUME NEW st, StateOK(st)
    PROVE  /\ StateOK(Invalidated(st)) /\ Invalidated(st).baseline = None
           /\ Len(Invalidated(st).pending) = Len(st.pending)
           /\ \A i \in 1..Len(st.pending) :
                /\ Invalidated(st).pending[i].id = st.pending[i].id
                /\ Invalidated(st).pending[i].frame = st.pending[i].frame
<1>1. PICK p : p = st.pending
  OBVIOUS
<1>2. p \in Seq(PendingFrame) /\ Len(p) \in Nat
  BY <1>1 DEF StateOK
<1>3. PICK r : r = [i \in 1..Len(p) |-> [p[i] EXCEPT !.current = FALSE]]
  OBVIOUS
<1>4. Invalidated(st) = [baseline |-> None, pending |-> r]
  BY <1>1, <1>3 DEF Invalidated
<1>5. ASSUME NEW i \in 1..Len(p)
      PROVE  /\ [p[i] EXCEPT !.current = FALSE] \in PendingFrame
             /\ r[i].id = p[i].id /\ r[i].frame = p[i].frame
  <2>1. p[i] \in PendingFrame
    BY <1>2
  <2>2. PICK e : e = p[i]
    OBVIOUS
  <2>3. /\ [e EXCEPT !.current = FALSE] \in PendingFrame
        /\ [e EXCEPT !.current = FALSE].id = e.id /\ [e EXCEPT !.current = FALSE].frame = e.frame
    BY <2>1, <2>2 DEF PendingFrame
  <2>4. r[i] = [e EXCEPT !.current = FALSE]
    BY <1>3, <2>2
  <2> QED BY <2>2, <2>3, <2>4
<1>6. r \in Seq(PendingFrame) /\ Len(r) = Len(p)
  BY <1>2, <1>3, <1>5
<1>7. None \in Nat
  BY DEF None
<1>8. PICK v : v = Invalidated(st)
  OBVIOUS
<1>9. v = [baseline |-> None, pending |-> r]
  BY <1>4, <1>8
<1>10. v.baseline = None /\ v.pending = r
  BY <1>9
<1>11. StateOK(v)
  BY <1>6, <1>7, <1>9, <1>10 DEF StateOK
<1> QED BY <1>1, <1>5, <1>6, <1>8, <1>10, <1>11

LEMMA ReopenInv ==
    ASSUME PoolInv, NEW c \in Clients, NEW s \in Slots, Reopen(c, s)
    PROVE  PoolInv'
<1>1. PICK st : st = state[c][s]
  OBVIOUS
<1>2. PICK st2 : st2 = Invalidated(st)
  OBVIOUS
<1>3. /\ StateOK(st) /\ Len(st.pending) <= MaxPending
      /\ Refs = Rest(c, s) \cup RefsOf(c, s, st) /\ Elsewhere(Rest(c, s), c, s)
  BY <1>1, StateFacts
<1>4. /\ StateOK(st2) /\ st2.baseline = None /\ Len(st2.pending) = Len(st.pending)
      /\ \A i \in 1..Len(st.pending) : /\ st2.pending[i].id = st.pending[i].id
                                       /\ st2.pending[i].frame = st.pending[i].frame
  BY <1>2, <1>3, InvalidatedFacts
<1>5. Sound(Shared, Rest(c, s) \cup RefsOf(c, s, st), {})
  BY <1>3 DEF PoolInv
<1>6. Sound(Release(Shared, st.baseline), Rest(c, s) \cup RefsOf(c, s, st2), {})
  BY <1>3, <1>4, <1>5, DropBaseline
<1>7. /\ Update(Release(Shared, st.baseline)) /\ UNCHANGED <<frame, present, born>>
      /\ state' = [state EXCEPT ![c][s] = st2]
  BY <1>1, <1>2 DEF Reopen
<1> QED BY <1>3, <1>4, <1>6, <1>7, Settle

LEMMA FoundType ==
    ASSUME PoolInv, NEW c \in Clients, NEW s \in Slots, slot[s].entity # 0
    PROVE  FindOrCreate(c, s).id \in Nat
<1>1. CASE Cached(s)
  BY <1>1, InvFacts DEF FindOrCreate, ReplicatedSlot
<1>2. CASE ~Cached(s) /\ Same(s, c) # {}
  <2>1. FindOrCreate(c, s).id \in slot[s].frames
    BY <1>2 DEF FindOrCreate, Same
  <2>2. slot[s].frames \subseteq Nat
    BY InvFacts DEF ReplicatedSlot
  <2> QED BY <2>1, <2>2
<1>3. CASE ~Cached(s) /\ Same(s, c) = {}
  <2>1. FindOrCreate(c, s).id = NewId
    BY <1>3 DEF FindOrCreate, NewId
  <2>2. free # <<>> => free[Len(free)] \in 1..Len(pool)
    BY InvFacts
  <2> QED BY <2>1, <2>2, InvFacts DEF NewId
<1> QED BY <1>1, <1>2, <1>3

\* The guard of a send holds one more reference than anybody has.
LEMMA GuardPlace ==
    ASSUME PoolInv, NEW c \in Clients, NEW s \in Slots, NEW q \in Nat, NEW n \in Nat,
           n > Len(state[c][s].pending), NEW t, t = <<c, s, n, q, frame>>
    PROVE  /\ t \in Places /\ t \notin Refs /\ t[1] = c /\ t[2] = s /\ t[3] = n /\ t[4] = q
           /\ t[5] = frame
<1>1. frame \in Nat
  BY PoolAssumption DEF PoolInv, TypeOK
<1>2. t \in Places /\ t[1] = c /\ t[2] = s /\ t[3] = n /\ t[4] = q /\ t[5] = frame
  BY <1>1 DEF Places
<1>3. Len(state[c][s].pending) \in Nat
  BY StateFacts
<1>4. n # 0 /\ ~(n <= Len(state[c][s].pending))
  BY <1>3
<1>5. t \notin Refs
  BY <1>2, <1>4 DEF Refs, Holds
<1> QED BY <1>2, <1>5

LEMMA RefuseInv ==
    ASSUME PoolInv, NEW c \in Clients, NEW s \in Slots, Refuse(c, s)
    PROVE  PoolInv'
<1>1. PICK found : found = FindOrCreate(c, s)
  OBVIOUS
<1>2. /\ slot[s].entity # 0 /\ Update(Release(Retain(found.sh, found.id), found.id))
      /\ UNCHANGED <<frame, present, born>> /\ UNCHANGED state
  BY <1>1 DEF Refuse
<1>3. PICK n \in Nat : n = Len(state[c][s].pending) + 1
  BY StateFacts
<1>4. PICK t : t = <<c, s, n, found.id, frame>>
  OBVIOUS
<1>5. found.id \in Nat /\ n > Len(state[c][s].pending)
  BY <1>1, <1>2, <1>3, FoundType, StateFacts
<1>6. t \in Places /\ t \notin Refs /\ t[1] = c /\ t[2] = s /\ t[4] = found.id /\ t[5] = frame
  BY <1>4, <1>5, GuardPlace
<1>7. PICK sh : sh = Retain(found.sh, found.id)
  OBVIOUS
<1>8. Sound(sh, Refs \cup {t}, {})
  BY <1>1, <1>2, <1>6, <1>7, Capture
<1>9. PICK H : H = Refs \cup {t}
  OBVIOUS
<1>10. t \in H /\ H \ {t} = Refs
  BY <1>6, <1>9
<1>11. Sound(Release(sh, t[4]), Refs, {})
  BY <1>8, <1>9, <1>10, SoundRelease
<1>12. PICK st : st = state[c][s]
  OBVIOUS
<1>13. /\ StateOK(st) /\ Len(st.pending) <= MaxPending
       /\ Refs = Rest(c, s) \cup RefsOf(c, s, st)
  BY <1>12, StateFacts
<1>14. state' = [state EXCEPT ![c][s] = st]
  <2>1. state \in [Clients -> [Slots -> ClientEntityState]]
    BY DEF PoolInv, TypeOK
  <2> QED BY <1>2, <1>12, <2>1
<1>15. Update(Release(sh, t[4])) /\ Sound(Release(sh, t[4]), Rest(c, s) \cup RefsOf(c, s, st), {})
  BY <1>2, <1>6, <1>7, <1>11, <1>13
<1> QED BY <1>2, <1>13, <1>14, <1>15, Settle

\* One more pending entry, one more reference.
LEMMA AppendRefs ==
    ASSUME NEW c \in Clients, NEW s \in Slots, NEW st, StateOK(st), NEW e \in PendingFrame,
           NEW st2, st2 = StateOf(st.baseline, Append(st.pending, e)),
           NEW t, t = <<c, s, Len(st.pending) + 1, e.id, e.frame>>
    PROVE  /\ StateOK(st2) /\ RefsOf(c, s, st2) = RefsOf(c, s, st) \cup {t}
           /\ Len(st2.pending) = Len(st.pending) + 1
<1>0. st.pending \in Seq(PendingFrame)
  BY DEF StateOK
<1>1. PICK n \in Nat : n = Len(st.pending)
  BY ONLY <1>0
<1>2. /\ st2 = [baseline |-> st.baseline, pending |-> Append(st.pending, e)]
      /\ st2.baseline = st.baseline /\ st2.pending = Append(st.pending, e)
  BY DEF StateOf
<1>3. /\ st2.pending \in Seq(PendingFrame) /\ Len(st2.pending) = n + 1
      /\ \A i \in 1..n : st2.pending[i] = st.pending[i]
      /\ st2.pending[n + 1] = e
  BY <1>1, <1>2, AppendProperties DEF StateOK
<1>4. StateOK(st2)
  BY <1>2, <1>3 DEF StateOK
<1>5. e.id \in Nat /\ e.frame \in Nat
  BY PoolAssumption DEF PendingFrame
<1>6. /\ t \in Places /\ t[1] = c /\ t[2] = s /\ t[3] = n + 1 /\ t[4] = e.id /\ t[5] = e.frame
  BY <1>1, <1>5 DEF Places
<1>7. n + 1 \in 1..(n + 1)
  OBVIOUS
<1>8. t = Place(c, s, st2, n + 1)
  BY <1>1, <1>3 DEF Place
<1>9. /\ t \in RefsOf(c, s, st2) /\ \A h \in RefsOf(c, s, st2) : h[3] = n + 1 => h = t
  <2>1. n + 1 \in 1..Len(st2.pending)
    BY <1>3, <1>7
  <2>2. PICK k : k = n + 1
    OBVIOUS
  <2>3. k \in 1..Len(st2.pending) /\ t = Place(c, s, st2, k) /\ c \in Clients /\ s \in Slots
    BY <1>8, <2>1, <2>2
  <2>4. t \in RefsOf(c, s, st2) /\ \A h \in RefsOf(c, s, st2) : h[3] = k => h = t
    BY ONLY <1>4, <2>3, PlaceFacts
  <2> QED BY <2>2, <2>4
<1>10. ASSUME NEW h \in Places, h[1] = c, h[2] = s, h[3] # n + 1
       PROVE  h \in RefsOf(c, s, st2) <=> h \in RefsOf(c, s, st)
  <2>1. h[3] \in Nat
    BY DEF Places
  <2>2. CASE h[3] = 0
    BY <1>2, <1>10, <2>2 DEF RefsOf, Holds
  <2>3. CASE h[3] # 0
    <3>1. h[3] <= n + 1 <=> h[3] <= n
      BY <1>10, <2>1
    <3>2. h[3] <= n => st2.pending[h[3]] = st.pending[h[3]]
      BY <1>3, <2>1, <2>3
    <3> QED BY <1>1, <1>3, <1>10, <2>3, <3>1, <3>2 DEF RefsOf, Holds
  <2> QED BY <2>2, <2>3
<1>11. \A h \in RefsOf(c, s, st) : h \in Places /\ h[1] = c /\ h[2] = s /\ h[3] # n + 1
  <2> SUFFICES ASSUME NEW h \in RefsOf(c, s, st)
               PROVE  h \in Places /\ h[1] = c /\ h[2] = s /\ h[3] # n + 1
    OBVIOUS
  <2>1. h \in Places /\ h[1] = c /\ h[2] = s /\ (h[3] # 0 => h[3] \in 1..n)
    BY <1>1, RefsOfPlaces
  <2>2. n + 1 # 0 /\ n + 1 \notin 1..n
    OBVIOUS
  <2> QED BY <2>1, <2>2
<1>12. \A h \in RefsOf(c, s, st2) : h \in Places /\ h[1] = c /\ h[2] = s
  BY RefsOfPlaces
<1>13. RefsOf(c, s, st2) = RefsOf(c, s, st) \cup {t}
  BY <1>9, <1>10, <1>11, <1>12
<1> QED BY <1>1, <1>3, <1>4, <1>13

\* Not more than MaxPending entries are left.
LEMMA TrimmedLen ==
    ASSUME NEW p \in Seq(PendingFrame), Len(p) <= MaxPending + 1
    PROVE  /\ Trimmed(p) \in SUBSET (1..Len(p))
           /\ Len(Picked(p, (1..Len(p)) \ Trimmed(p))) <= MaxPending
<1>1. PICK m \in Nat : m = MaxPending
  BY PoolAssumption
<1>2. PICK n \in Nat : n = Len(p)
  OBVIOUS
<1>3. PICK a \in Nat : (n > m => a = n - m) /\ (~(n > m) => a = 0)
  <2>1. CASE n > m
    <3>1. n - m \in Nat
      BY <2>1
    <3> QED BY <2>1, <3>1
  <2>2. CASE ~(n > m)
    BY <2>2
  <2> QED BY <2>1, <2>2
<1>4. PICK S : S = (1..n) \ Trimmed(p)
  OBVIOUS
<1>5. \A i \in S : i \in 1..n /\ ~(i <= n - m)
  BY <1>1, <1>2, <1>4 DEF Trimmed
<1>6. S \subseteq (a + 1)..(a + m)
  <2> SUFFICES ASSUME NEW i \in S PROVE i \in (a + 1)..(a + m)
    OBVIOUS
  <2>1. i \in 1..n /\ ~(i <= n - m)
    BY <1>5
  <2> QED BY <1>3, <2>1
<1>7. S \in SUBSET (1..Len(p))
  BY <1>2, <1>4
<1>8. Len(Picked(p, S)) <= m
  BY <1>6, <1>7, PickedLen
<1> QED BY <1>1, <1>2, <1>4, <1>8 DEF Trimmed

LEMMA SendInv ==
    ASSUME PoolInv, NEW c \in Clients, NEW s \in Slots, NEW full \in BOOLEAN, Send(c, s, full)
    PROVE  PoolInv'
<1>1. PICK found : found = FindOrCreate(c, s)
  OBVIOUS
<1>2. PICK st : st = state[c][s]
  OBVIOUS
<1>3. PICK reset \in BOOLEAN : reset = (full /\ st.baseline # None)
  OBVIOUS
<1>4. PICK held : held = Retain(found.sh, found.id)
  OBVIOUS
<1>5. PICK sh : sh = IF reset THEN Release(held, st.baseline) ELSE held
  OBVIOUS
<1>6. PICK base : base = IF reset THEN Invalidated(st) ELSE st
  OBVIOUS
<1>7. PICK e : e = [id |-> found.id, frame |-> frame, current |-> TRUE]
  OBVIOUS
<1>8. PICK more : more = Append(base.pending, e)
  OBVIOUS
<1>9. PICK st3 : st3 = [base EXCEPT !.pending = Picked(more, (1..Len(more)) \ Trimmed(more))]
  OBVIOUS
<1>10. PICK sh3 : sh3 = ReleaseAll(sh, FrameIds(Picked(more, Trimmed(more))))
  OBVIOUS
<1>11. /\ slot[s].entity # 0 /\ Update(sh3) /\ state' = [state EXCEPT ![c][s] = st3]
       /\ UNCHANGED <<frame, present, born>>
  <2>1. PICK d : d = Trimmed(more)
    OBVIOUS
  <2>2. /\ slot[s].entity # 0
        /\ Update(ReleaseAll(sh, FrameIds(Picked(more, d))))
        /\ state' = [state EXCEPT ![c][s] = [base EXCEPT !.pending = Picked(more, (1..Len(more)) \ d)]]
        /\ UNCHANGED <<frame, present, born>>
    BY <1>1, <1>2, <1>3, <1>4, <1>5, <1>6, <1>7, <1>8, <2>1 DEF Send, Guard
  <2> QED BY <1>9, <1>10, <2>1, <2>2
<1>12. /\ StateOK(st) /\ Len(st.pending) \in Nat /\ Len(st.pending) <= MaxPending
       /\ Refs = Rest(c, s) \cup RefsOf(c, s, st) /\ Elsewhere(Rest(c, s), c, s)
  BY <1>2, StateFacts
<1>13. PICK n \in Nat : n = Len(st.pending) + 1
  BY <1>12
<1>14. PICK t : t = <<c, s, n, found.id, frame>>
  OBVIOUS
<1>15. found.id \in Nat /\ n > Len(state[c][s].pending)
  BY <1>1, <1>2, <1>11, <1>12, <1>13, FoundType, SMTT(30)
<1>16. t \in Places /\ t \notin Refs /\ t[1] = c /\ t[2] = s /\ t[4] = found.id /\ t[5] = frame
  BY <1>14, <1>15, GuardPlace
<1>17. Sound(held, Refs \cup {t}, {})
  BY <1>1, <1>4, <1>11, <1>16, Capture
<1>18. e \in PendingFrame /\ e.id = found.id /\ e.frame = frame
  <2>1. frame \in 1..MaxFrame
    BY DEF PoolInv, TypeOK
  <2> QED BY <1>7, <1>15, <2>1 DEF PendingFrame
<1>19. PICK st1 : st1 = StateOf(st.baseline, Append(st.pending, e))
  OBVIOUS
<1>20. /\ StateOK(st1) /\ RefsOf(c, s, st1) = RefsOf(c, s, st) \cup {t}
       /\ Len(st1.pending) = Len(st.pending) + 1
  <2>1. t = <<c, s, Len(st.pending) + 1, e.id, e.frame>>
    BY <1>13, <1>14, <1>18
  <2>2. c \in Clients /\ s \in Slots /\ e \in PendingFrame /\ StateOK(st)
    BY <1>12, <1>18
  <2> QED BY ONLY <1>19, <2>1, <2>2, AppendRefs
<1>21. Sound(held, Rest(c, s) \cup RefsOf(c, s, st1), {})
  <2>1. Refs \cup {t} = Rest(c, s) \cup RefsOf(c, s, st1)
    BY <1>12, <1>20
  <2> QED BY <1>17, <2>1
<1>22. PICK stm : stm = [baseline |-> base.baseline, pending |-> more]
  OBVIOUS
<1>23. /\ StateOK(stm) /\ Sound(sh, Rest(c, s) \cup RefsOf(c, s, stm), {})
       /\ Len(stm.pending) = Len(st.pending) + 1 /\ StateOK(base)
  <2>1. CASE reset = TRUE
    <3>1. base = Invalidated(st) /\ sh = Release(held, st.baseline)
      BY <1>5, <1>6, <2>1
    <3>2. /\ StateOK(base) /\ base.baseline = None /\ Len(base.pending) = Len(st.pending)
          /\ \A i \in 1..Len(st.pending) : /\ base.pending[i].id = st.pending[i].id
                                           /\ base.pending[i].frame = st.pending[i].frame
      BY <1>12, <3>1, InvalidatedFacts
    <3>3. base.pending \in Seq(PendingFrame) /\ st.pending \in Seq(PendingFrame)
      BY <1>12, <3>2 DEF StateOK
    <3>4. /\ more \in Seq(PendingFrame) /\ Len(more) = Len(st.pending) + 1
          /\ \A i \in 1..Len(st.pending) : more[i] = base.pending[i]
          /\ more[Len(st.pending) + 1] = e
      BY <1>8, <1>18, <3>2, <3>3, AppendProperties
    <3>5. /\ \A i \in 1..Len(st.pending) : st1.pending[i] = st.pending[i]
          /\ st1.pending[Len(st.pending) + 1] = e
      <4>1. st1.pending = Append(st.pending, e)
        BY <1>19 DEF StateOf
      <4> QED BY <1>18, <3>3, <4>1, AppendProperties
    <3>6. stm.baseline = None /\ stm.pending = more /\ stm = [baseline |-> None, pending |-> more]
      BY <1>22, <3>2
    <3>7. StateOK(stm) /\ Len(stm.pending) = Len(st1.pending)
      BY <1>20, <3>4, <3>6 DEF StateOK, None
    <3>8. \A i \in 1..Len(st1.pending) : /\ stm.pending[i].id = st1.pending[i].id
                                         /\ stm.pending[i].frame = st1.pending[i].frame
      <4> SUFFICES ASSUME NEW i \in 1..Len(st1.pending)
                   PROVE  /\ stm.pending[i].id = st1.pending[i].id
                          /\ stm.pending[i].frame = st1.pending[i].frame
        OBVIOUS
      <4>1. i \in 1..Len(st.pending) \/ i = Len(st.pending) + 1
        BY <1>12, <1>20
      <4> QED BY <3>2, <3>4, <3>5, <3>6, <4>1
    <3>9. st1.baseline = st.baseline
      BY <1>19 DEF StateOf
    <3>10. Sound(Release(held, st1.baseline), Rest(c, s) \cup RefsOf(c, s, stm), {})
      BY <1>12, <1>20, <1>21, <3>6, <3>7, <3>8, DropBaseline
    <3> QED BY <1>20, <3>1, <3>2, <3>7, <3>9, <3>10
  <2>2. CASE reset = FALSE
    <3>1. base = st /\ sh = held
      BY <1>5, <1>6, <2>2
    <3>2. stm = st1
      BY <1>8, <1>19, <1>22, <3>1 DEF StateOf
    <3> QED BY <1>12, <1>20, <1>21, <3>1, <3>2
  <2> QED BY <2>1, <2>2
<1>24. stm.pending = more /\ stm.baseline = base.baseline /\ more \in Seq(PendingFrame)
       /\ Len(more) <= MaxPending + 1
  <2>1. stm.pending = more /\ stm.baseline = base.baseline
    BY <1>22
  <2>2. MaxPending \in Nat
    BY PoolAssumption
  <2> QED BY <1>12, <1>23, <2>1, <2>2 DEF StateOK
<1>25. Trimmed(more) \in SUBSET (1..Len(more))
       /\ Len(Picked(more, (1..Len(more)) \ Trimmed(more))) <= MaxPending
  BY <1>24, TrimmedLen
<1>26. st3 = [baseline |-> base.baseline, pending |-> Picked(more, (1..Len(more)) \ Trimmed(more))]
  <2>1. base = [baseline |-> base.baseline, pending |-> base.pending]
    BY <1>23 DEF StateOK
  <2> QED BY <1>9, <2>1
<1>27. Sound(sh3, Rest(c, s) \cup RefsOf(c, s, st3), {}) /\ StateOK(st3)
  <2>1. st3 = Keeping(stm, Trimmed(more))
    BY <1>24, <1>26 DEF StateOf, Keeping, Positions
  <2>2. sh3 = GivenUp(sh, stm, Trimmed(more))
    BY <1>10, <1>24 DEF GivenUp
  <2>3. /\ Elsewhere(Rest(c, s), c, s) /\ StateOK(stm)
        /\ Trimmed(more) \subseteq Positions(stm) /\ Sound(sh, With(Rest(c, s), c, s, stm), {})
    BY <1>12, <1>23, <1>24, <1>25 DEF Positions, With
  <2>4. Sound(sh3, With(Rest(c, s), c, s, st3), {}) /\ StateOK(st3)
    BY <2>1, <2>2, <2>3, Drop
  <2> QED BY <2>4 DEF With
<1>28. Len(st3.pending) <= MaxPending
  BY <1>25, <1>26
<1> QED BY <1>11, <1>27, <1>28, Settle

\* Another baseline, one more reference.
LEMMA BaselineRefs ==
    ASSUME NEW c \in Clients, NEW s \in Slots, NEW st, StateOK(st), st.baseline = None,
           NEW q \in Nat, q # None, NEW st2, st2 = StateOf(q, st.pending),
           NEW b, b = <<c, s, 0, q, 0>>
    PROVE  StateOK(st2) /\ RefsOf(c, s, st2) = RefsOf(c, s, st) \cup {b} /\ b \notin RefsOf(c, s, st)
<1>1. st2 = [baseline |-> q, pending |-> st.pending] /\ st2.baseline = q /\ st2.pending = st.pending
  BY DEF StateOf
<1>2. StateOK(st2)
  BY <1>1 DEF StateOK
<1>3. /\ b \in Places /\ b[1] = c /\ b[2] = s /\ b[3] = 0 /\ b[4] = q /\ b[5] = 0
      /\ \A h \in Places : h[1] = c /\ h[2] = s /\ h[3] = 0 /\ h[4] = q /\ h[5] = 0 => h = b
  BY BaselinePlace
<1>4. b \in RefsOf(c, s, st2)
  BY <1>1, <1>3 DEF RefsOf, Holds
<1>5. \A h \in RefsOf(c, s, st) : h[3] # 0 /\ h \in RefsOf(c, s, st2)
  BY <1>1 DEF RefsOf, Holds
<1>6. \A h \in RefsOf(c, s, st2) : h[3] = 0 => h = b
  BY <1>1, <1>3 DEF RefsOf, Holds
<1>7. \A h \in RefsOf(c, s, st2) : h[3] # 0 => h \in RefsOf(c, s, st)
  BY <1>1 DEF RefsOf, Holds
<1> QED BY <1>2, <1>3, <1>4, <1>5, <1>6, <1>7

LEMMA AcknowledgeInv ==
    ASSUME PoolInv, NEW c \in Clients, NEW s \in Slots, NEW f \in 1..MaxFrame, Acknowledge(c, s, f)
    PROVE  PoolInv'
<1>1. PICK st : st = state[c][s]
  OBVIOUS
<1>2. PICK at : at = SentAt(st.pending, f)
  OBVIOUS
<1>3. PICK k : k = CHOOSE i \in at : \A j \in at : i <= j
  OBVIOUS
<1>4. PICK p : p = st.pending[k]
  OBVIOUS
<1>5. PICK older : older = UpTo(st.pending, f)
  OBVIOUS
<1>6. PICK adopted : adopted = IF p.current THEN AdoptBaseline(Shared, st, p.id) ELSE Shared
  OBVIOUS
<1>7. PICK q : q = IF p.current THEN p.id ELSE st.baseline
  OBVIOUS
<1>8. /\ at # {} /\ Update(ReleaseAll(adopted, FrameIds(Picked(st.pending, older))))
      /\ state' = [state EXCEPT ![c][s] =
                     [baseline |-> q, pending |-> Picked(st.pending, (1..Len(st.pending)) \ older)]]
      /\ UNCHANGED <<frame, present, born>>
  <2>1. p = FirstAt(st.pending, f)
    BY <1>2, <1>3, <1>4, Zenon DEF FirstAt
  <2>2. /\ at # {} /\ UNCHANGED <<frame, present, born>>
        /\ Update(ReleaseAll(adopted, FrameIds(Picked(st.pending, older))))
        /\ state' = [state EXCEPT ![c][s] = Acknowledged(st, p, older)]
    BY <1>1, <1>2, <1>5, <1>6, <2>1, Zenon DEF Acknowledge
  <2>3. Acknowledged(st, p, older) =
          [baseline |-> q, pending |-> Picked(st.pending, (1..Len(st.pending)) \ older)]
    BY <1>7 DEF Acknowledged
  <2> QED BY <2>2, <2>3
<1>9. /\ StateOK(st) /\ Len(st.pending) \in Nat /\ Len(st.pending) <= MaxPending
      /\ Refs = Rest(c, s) \cup RefsOf(c, s, st) /\ Elsewhere(Rest(c, s), c, s)
  BY <1>1, StateFacts
<1>10. k \in at /\ k \in 1..Len(st.pending)
  <2>1. at \in SUBSET Nat /\ at \subseteq 1..Len(st.pending)
    BY <1>2, <1>9 DEF SentAt
  <2>2. \E i \in at : \A j \in at : i <= j
    BY <1>8, <2>1, LeastNumber
  <2> QED BY <1>3, <2>1, <2>2
<1>11. p \in PendingFrame
  BY <1>4, <1>9, <1>10 DEF StateOK
<1>12. p.id \in Nat /\ p.current \in BOOLEAN /\ st.baseline \in Nat
  BY <1>9, <1>11 DEF PendingFrame, StateOK
<1>13. Sound(Shared, With(Rest(c, s), c, s, st), {})
  BY <1>9 DEF PoolInv, With
<1>14. PICK stb : stb = StateOf(q, st.pending)
  OBVIOUS
<1>15. st = StateOf(st.baseline, st.pending)
  BY <1>9 DEF StateOK, StateOf
<1>16. StateOK(stb) /\ Sound(adopted, With(Rest(c, s), c, s, stb), {})
  <2>1. CASE p.current /\ st.baseline # p.id
    <3>1. PICK stn : stn = StateOf(None, st.pending)
      OBVIOUS
    <3>2. StateOK(stn) /\ stn.baseline = None /\ stn.pending = st.pending
      <4>1. stn = [baseline |-> None, pending |-> st.pending]
        BY <3>1 DEF StateOf
      <4>2. stn.baseline = None /\ stn.pending = st.pending
        BY ONLY <4>1
      <4>3. None \in Nat /\ st.pending \in Seq(PendingFrame)
        BY <1>9 DEF None, StateOK
      <4> QED BY ONLY <4>1, <4>2, <4>3 DEF StateOK
    <3>3. PICK sh1 : sh1 = Release(Shared, st.baseline)
      OBVIOUS
    <3>4. PICK H : H = With(Rest(c, s), c, s, stn)
      OBVIOUS
    <3>5. Sound(sh1, H, {})
      BY <1>9, <1>13, <3>2, <3>3, <3>4, DropBaseline DEF With
    <3>6. PICK h : h = Place(c, s, stn, k)
      OBVIOUS
    <3>7. h \in RefsOf(c, s, stn) /\ h[3] = k /\ h[4] = p.id
      BY <1>4, <1>10, <3>2, <3>6, PlaceFacts
    <3>8. h \in H /\ h[1] = c /\ h[2] = s
      BY <3>4, <3>7 DEF With, RefsOf
    <3>9. p.id \in 1..Len(sh1.pool) /\ Fits(sh1, h)
      BY <3>5, <3>7, <3>8 DEF Sound, Good, Owned
    <3>10. sh1.pool[p.id].active
      <4>1. h \in To(H, p.id)
        BY <3>7, <3>8 DEF To
      <4> QED BY <3>5, <3>9, <4>1 DEF Sound, Good, Counted
    <3>11. p.id # None
      BY <3>9 DEF None
    <3>12. PICK b : b = <<c, s, 0, p.id, 0>>
      OBVIOUS
    <3>13. b \in Places /\ b[1] = c /\ b[2] = s /\ b[3] = 0 /\ b[4] = p.id
      BY <1>12, <3>12, BaselinePlace
    <3>14. stb = StateOf(p.id, stn.pending)
      BY <1>7, <1>14, <2>1, <3>2
    <3>15. StateOK(stb) /\ RefsOf(c, s, stb) = RefsOf(c, s, stn) \cup {b} /\ b \notin RefsOf(c, s, stn)
      BY <1>12, <3>2, <3>11, <3>12, <3>14, BaselineRefs
    <3>16. b \notin H
      BY <1>9, <3>4, <3>13, <3>15 DEF With, Elsewhere
    <3>17. Fits(sh1, b)
      BY <3>7, <3>8, <3>9, <3>13 DEF Fits
    <3>18. Sound(Retain(sh1, b[4]), H \cup {b}, {})
      BY <3>5, <3>9, <3>10, <3>13, <3>16, <3>17, SoundRetain
    <3>19. H \cup {b} = With(Rest(c, s), c, s, stb)
      BY <3>4, <3>15 DEF With
    <3>20. adopted = Retain(sh1, b[4])
      BY <1>6, <2>1, <3>3, <3>13 DEF AdoptBaseline
    <3> QED BY <3>15, <3>18, <3>19, <3>20
  <2>2. CASE ~(p.current /\ st.baseline # p.id)
    <3>1. q = st.baseline
      BY <1>7, <2>2
    <3>2. stb = st
      BY <1>14, <1>15, <3>1
    <3>3. adopted = Shared
      BY <1>6, <2>2 DEF AdoptBaseline
    <3> QED BY <1>9, <1>13, <3>2, <3>3
  <2> QED BY <2>1, <2>2
<1>17. stb.baseline = q /\ stb.pending = st.pending
  BY <1>14 DEF StateOf
<1>18. PICK st3 : st3 = Keeping(stb, older)
  OBVIOUS
<1>19. PICK sh3 : sh3 = GivenUp(adopted, stb, older)
  OBVIOUS
<1>20. older \subseteq Positions(stb)
  BY <1>5, <1>17 DEF Positions, UpTo
<1>21. Sound(sh3, With(Rest(c, s), c, s, st3), {}) /\ StateOK(st3)
  BY <1>9, <1>16, <1>18, <1>19, <1>20, Drop
<1>22. st3 = [baseline |-> q, pending |-> Picked(st.pending, (1..Len(st.pending)) \ older)]
  BY <1>17, <1>18 DEF Keeping, StateOf, Positions
<1>23. Update(sh3) /\ state' = [state EXCEPT ![c][s] = st3]
  BY <1>8, <1>17, <1>19, <1>22 DEF GivenUp
<1>24. Len(st3.pending) <= MaxPending
  <2>1. PICK S : S = (1..Len(st.pending)) \ older
    OBVIOUS
  <2>2. PICK n \in Nat : n = Len(st.pending)
    BY <1>9
  <2>3. S \in SUBSET (1..Len(st.pending)) /\ S \subseteq (0 + 1)..(0 + n) /\ 0 \in Nat
    BY <2>1, <2>2
  <2>4. st.pending \in Seq(PendingFrame)
    BY <1>9 DEF StateOK
  <2>5. Len(Picked(st.pending, S)) <= n
    BY <2>2, <2>3, <2>4, PickedLen
  <2>6. st3.pending = Picked(st.pending, S)
    BY <1>22, <2>1
  <2>7. Len(st3.pending) \in Nat /\ MaxPending \in Nat
    BY <1>21, PoolAssumption DEF StateOK
  <2> QED BY <1>9, <2>2, <2>5, <2>6, <2>7
<1> QED BY <1>8, <1>21, <1>23, <1>24, Settle DEF With

--------------------------------------------------------------------------------
(* Operations that clear the states of several clients or slots *)

\* An enumeration of as many members as the set has is one without repetition.
LEMMA OrderInjective ==
    ASSUME NEW S, IsFiniteSet(S), NEW order \in [1..Cardinality(S) -> S],
           \A x \in S : \E i \in DOMAIN order : order[i] = x
    PROVE  /\ Cardinality(S) \in Nat
           /\ \A i, j \in 1..Cardinality(S) : order[i] = order[j] => i = j
<1>1. Cardinality(S) \in Nat
  BY FS_CardinalityType
<1>2. IsFiniteSet(1..Cardinality(S)) /\ Cardinality(1..Cardinality(S)) = Cardinality(S)
  BY <1>1, FS_Interval
<1>3. order \in Surjection(1..Cardinality(S), S)
  BY DEF Surjection
<1>4. order \in Injection(1..Cardinality(S), S)
  BY <1>2, <1>3, FS_SurjSameCardinalityImpliesInj
<1>5. \A i, j \in DOMAIN order : order[i] = order[j] => i = j
  BY <1>4 DEF Injection, IsInjective
<1> QED BY <1>1, <1>5

\* After an operation that cleared the states of P.
LEMMA SettleAll ==
    ASSUME PoolInv, NEW P, state' \in [Clients -> [Slots -> ClientEntityState]],
           \A d \in Clients, x \in Slots :
             state'[d][x] = IF <<d, x>> \in P THEN NoState ELSE state[d][x],
           NEW sh, Update(sh), Sound(sh, {h \in Refs : <<h[1], h[2]>> \notin P}, {}),
           UNCHANGED <<frame, born>>, present' \subseteq Clients
    PROVE  PoolInv'
<1>1. Shared' = sh /\ pool' = sh.pool /\ free' = sh.free /\ slot' = sh.slot
  <2>1. sh = [pool |-> sh.pool, free |-> sh.free, slot |-> sh.slot]
    BY DEF Sound, Good, SharedOK
  <2>2. pool' = sh.pool /\ free' = sh.free /\ slot' = sh.slot
    BY DEF Update
  <2> QED BY <2>1, <2>2 DEF Shared
<1>2. \A h \in Places : h[1] \in Clients /\ h[2] \in Slots /\ h[3] \in Nat
  BY DEF Places
<1>3. \A h \in Places : ~Holds(h, NoState)
  <2>1. NoState.baseline = None /\ Len(NoState.pending) = 0
    BY DEF NoState
  <2> QED BY <1>2, <2>1 DEF Holds
<1>4. Refs' = {h \in Places : Holds(h, state'[h[1]][h[2]])}
  BY DEF Refs
<1>5. ASSUME NEW h \in Places
      PROVE  h \in Refs' <=> h \in Refs /\ <<h[1], h[2]>> \notin P
  <2>1. CASE <<h[1], h[2]>> \in P
    <3>1. state'[h[1]][h[2]] = NoState
      BY <1>2, <2>1
    <3> QED BY <1>3, <1>4, <2>1, <3>1
  <2>2. CASE <<h[1], h[2]>> \notin P
    <3>1. state'[h[1]][h[2]] = state[h[1]][h[2]]
      BY <1>2, <2>2
    <3> QED BY <1>4, <2>2, <3>1 DEF Refs
  <2> QED BY <2>1, <2>2
<1>6. Refs' = {h \in Refs : <<h[1], h[2]>> \notin P}
  <2>1. \A h \in Refs' : h \in Places
    BY <1>4
  <2>2. \A h \in Refs : h \in Places
    BY DEF Refs
  <2> QED BY <1>5, <2>1, <2>2
<1>7. Sound(Shared', Refs', {})
  BY <1>1, <1>6
<1>8. /\ pool' \in Seq(QuantizedFrame \cup {FreeFrame}) /\ free' \in Seq(1..Len(pool'))
      /\ slot' \in [Slots -> ReplicatedSlot]
  BY <1>1 DEF Sound, Good, SharedOK
<1>9. \A d \in Clients, x \in Slots : Len(state'[d][x].pending) <= MaxPending
  <2> SUFFICES ASSUME NEW d \in Clients, NEW x \in Slots
               PROVE  Len(state'[d][x].pending) <= MaxPending
    OBVIOUS
  <2>1. Len(state[d][x].pending) <= MaxPending
    BY DEF PoolInv, TypeOK
  <2>2. Len(NoState.pending) <= MaxPending
    <3>1. Len(NoState.pending) = 0
      BY DEF NoState
    <3> QED BY <3>1, PoolAssumption
  <2>3. state'[d][x] = NoState \/ state'[d][x] = state[d][x]
    OBVIOUS
  <2> QED BY <2>1, <2>2, <2>3
<1>10. frame' \in 1..MaxFrame /\ born' \in 0..MaxEntity /\ present' \subseteq Clients
  BY DEF PoolInv, TypeOK
<1>11. TypeOK'
  BY <1>8, <1>9, <1>10 DEF TypeOK, Ids
<1> QED BY <1>7, <1>11 DEF PoolInv

LEMMA NoStateType == NoState \in ClientEntityState
<1>1. None \in Nat /\ <<>> \in Seq(PendingFrame)
  BY DEF None
<1> QED BY <1>1 DEF NoState, ClientEntityState

\* A set of references at one client and slot is that of its state.
LEMMA RefsAt ==
    ASSUME NEW c \in Clients, NEW s \in Slots
    PROVE  At(Refs, c, s) = RefsOf(c, s, state[c][s])
BY DEF Refs, RefsOf, At

LEMMA RemoveClientInv ==
    ASSUME PoolInv, NEW c \in Clients, RemoveClient(c)
    PROVE  PoolInv'
<1>1. PICK order \in [1..Cardinality(Slots) -> Slots] :
        /\ \A s \in Slots : \E i \in DOMAIN order : order[i] = s
        /\ Update(ClearStates(Shared, [i \in DOMAIN order |-> state[c][order[i]]]))
  BY DEF RemoveClient
<1>2. PICK n \in Nat : n = Cardinality(Slots)
  BY PoolAssumption, FS_CardinalityType
<1>3. order \in [1..n -> Slots] /\ \A i, j \in 1..n : order[i] = order[j] => i = j
  BY <1>1, <1>2, PoolAssumption, OrderInjective
<1>4. PICK sts : sts = [i \in 1..n |-> state[c][order[i]]]
  OBVIOUS
<1>5. Update(ClearStates(Shared, sts))
  <2>1. DOMAIN order = 1..n
    BY <1>3
  <2> QED BY <1>1, <1>4, <2>1
<1>6. Len(sts) = n /\ \A i \in 1..n : sts[i] = state[c][order[i]]
  BY <1>4
<1>7. PICK cs \in [1..n -> Clients] : \A i \in 1..n : cs[i] = c
  <2>1. [i \in 1..n |-> c] \in [1..n -> Clients]
    OBVIOUS
  <2> QED BY <2>1
<1>8. \A i \in 1..n : StateOK(sts[i])
  BY <1>3, <1>6, StateFacts
<1>9. \A i \in 1..n : At(Refs, cs[i], order[i]) = RefsOf(cs[i], order[i], sts[i])
  <2> SUFFICES ASSUME NEW i \in 1..n
               PROVE  At(Refs, cs[i], order[i]) = RefsOf(cs[i], order[i], sts[i])
    OBVIOUS
  <2>1. PICK s : s = order[i]
    OBVIOUS
  <2>2. s \in Slots /\ cs[i] = c /\ sts[i] = state[c][s]
    BY <1>3, <1>6, <1>7, <2>1
  <2> QED BY <2>1, <2>2, RefsAt
<1>10. \A i, j \in 1..n : cs[i] = cs[j] /\ order[i] = order[j] => i = j
  BY <1>3
<1>11. Sound(Shared, Refs, {})
  BY DEF PoolInv
<1>12. Sound(ClearStates(Shared, sts), LeftOf(Refs, cs, order, n), {})
  <2>1. Sound(ClearStates(Shared, sts), LeftOf(Refs, cs, order, Len(sts)), {})
    <3>1. /\ cs \in [1..Len(sts) -> Clients] /\ order \in [1..Len(sts) -> Slots] /\ Len(sts) \in Nat
      BY <1>3, <1>6, <1>7
    <3>2. /\ \A i \in 1..Len(sts) : StateOK(sts[i])
          /\ \A i \in 1..Len(sts) : At(Refs, cs[i], order[i]) = RefsOf(cs[i], order[i], sts[i])
          /\ \A i, j \in 1..Len(sts) : cs[i] = cs[j] /\ order[i] = order[j] => i = j
      BY ONLY <1>6, <1>8, <1>9, <1>10
    <3> QED BY ONLY <1>11, <3>1, <3>2, ClearSome
  <2> QED BY <1>6, <2>1
<1>13. PICK P : P = {<<c, s>> : s \in Slots}
  OBVIOUS
<1>14. LeftOf(Refs, cs, order, n) = {h \in Refs : <<h[1], h[2]>> \notin P}
  <2>1. \A h \in Refs : h[1] \in Clients /\ h[2] \in Slots
    BY DEF Refs, Places
  <2>2. \A s \in Slots : \E i \in 1..n : order[i] = s
    BY <1>1, <1>3
  <2>3. \A h \in Refs : (\E i \in 1..n : h[1] = cs[i] /\ h[2] = order[i]) <=> h[1] = c
    BY <1>7, <2>1, <2>2
  <2>4. \A h \in Refs : <<h[1], h[2]>> \in P <=> h[1] = c
    BY <1>13, <2>1
  <2> QED BY <2>3, <2>4 DEF LeftOf
<1>15. /\ state' = [state EXCEPT ![c] = [s \in Slots |-> NoState]]
       /\ present' = present \ {c} /\ UNCHANGED <<frame, born>>
  BY DEF RemoveClient
<1>16. state \in [Clients -> [Slots -> ClientEntityState]] /\ present \subseteq Clients
  BY DEF PoolInv, TypeOK
<1>17. state' \in [Clients -> [Slots -> ClientEntityState]]
  BY <1>15, <1>16, NoStateType
<1>18. \A d \in Clients, x \in Slots :
         state'[d][x] = IF <<d, x>> \in P THEN NoState ELSE state[d][x]
  <2>1. \A d \in Clients, x \in Slots : <<d, x>> \in P <=> d = c
    BY <1>13
  <2> QED BY <1>15, <1>16, <2>1
<1>19. Sound(ClearStates(Shared, sts), {h \in Refs : <<h[1], h[2]>> \notin P}, {})
  BY <1>12, <1>14
<1>20. present' \subseteq Clients
  BY <1>15, <1>16
<1> QED BY <1>5, <1>15, <1>17, <1>18, <1>19, <1>20, SettleAll

LEMMA EmptySlotType == EmptySlot \in ReplicatedSlot
<1>1. 0 \in 0..MaxEntity /\ 0 \in 0..MaxFrame /\ None \in Nat /\ {} \in SUBSET Nat
  BY PoolAssumption DEF None
<1> QED BY <1>1 DEF EmptySlot, ReplicatedSlot

\* What is shared once a slot is given a new content without frames: emptied when
\* its entity goes, or taken by a new one.
Vacated(s, v) == [Shared EXCEPT !.slot[s] = v]

LEMMA VacatedSound ==
    ASSUME PoolInv, NEW s \in Slots, NEW v \in ReplicatedSlot, v.frames = {}, v.cache = None
    PROVE  Sound(Vacated(s, v), Refs, {s})
<1>1. PICK sh : sh = Vacated(s, v)
  OBVIOUS
<1>2. slot \in [Slots -> ReplicatedSlot]
  BY InvFacts
<1>3. /\ sh = [pool |-> pool, free |-> free, slot |-> [slot EXCEPT ![s] = v]]
      /\ sh.pool = pool /\ sh.free = free /\ sh.slot = [slot EXCEPT ![s] = v]
  BY <1>1 DEF Vacated, Shared
<1>4. /\ sh.slot \in [Slots -> ReplicatedSlot] /\ sh.slot[s] = v
      /\ \A x \in Slots : x # s => sh.slot[x] = slot[x]
  BY <1>2, <1>3
<1>5. SharedOK(sh)
  BY <1>3, <1>4, InvFacts DEF SharedOK
<1>6. v.frames = {} /\ v.cache = None
  OBVIOUS
<1>7. Counted(sh, Refs) /\ FreeOK(sh) /\ \A h \in Refs : h[4] \in 1..Len(sh.pool)
  <2>1. Counted(Shared, Refs) /\ FreeOK(Shared) /\ \A h \in Refs : h[4] \in 1..Len(Shared.pool)
    BY InvFacts DEF Good
  <2> QED BY <1>3, <2>1, SharedFields DEF Counted, FreeOK
<1>8. ListsOK(sh, {s})
  <2>1. ListsOK(Shared, {})
    BY InvFacts DEF Good
  <2> SUFFICES ASSUME NEW x \in Slots
               PROVE  sh.slot[x].frames =
                        IF x \in {s} THEN {}
                        ELSE {q \in 1..Len(sh.pool) : sh.pool[q].active /\ sh.pool[q].slot = x}
    BY DEF ListsOK
  <2>2. CASE x = s
    BY <1>4, <1>6, <2>2
  <2>3. CASE x # s
    BY <1>3, <1>4, <2>1, <2>3, SharedFields DEF ListsOK
  <2> QED BY <2>2, <2>3
<1>9. Owned(sh, Refs, {s})
  <2>1. \A h \in Refs : Fits(Shared, h) /\ h[2] \in Slots
    BY InvFacts DEF Owned, Places
  <2> SUFFICES ASSUME NEW h \in Refs, h[2] # s
               PROVE  Fits(sh, h)
    BY DEF Owned
  <2>2. sh.slot[h[2]] = Shared.slot[h[2]] /\ sh.pool = Shared.pool
    BY <1>3, <1>4, <2>1, SharedFields
  <2> QED BY <2>1, <2>2 DEF Fits, ViewIn
<1>10. ActiveOwn(sh, {s})
  <2> SUFFICES ASSUME NEW q \in 1..Len(pool), pool[q].active, pool[q].slot # s
               PROVE  InPlace(sh, pool[q])
    BY <1>3 DEF ActiveOwn
  <2>1. InPlace(Shared, pool[q])
    BY InvFacts, SharedFields DEF ActiveOwn
  <2>2. pool[q] \in QuantizedFrame
    BY InvFacts, FrameTypes
  <2>3. pool[q].slot \in Slots
    BY <2>2 DEF QuantizedFrame
  <2>4. sh.slot[pool[q].slot] = Shared.slot[pool[q].slot]
    BY <1>4, <2>3, SharedFields
  <2> QED BY <2>1, <2>4 DEF InPlace
<1>11. CacheOK(sh)
  <2>1. CacheOK(Shared)
    BY InvFacts
  <2> SUFFICES ASSUME NEW x \in Slots
               PROVE  sh.slot[x].cache = None \/ sh.slot[x].cache \in 1..Len(sh.pool)
    BY DEF CacheOK
  <2>2. CASE x = s
    BY <1>4, <1>6, <2>2
  <2>3. CASE x # s
    BY <1>3, <1>4, <2>1, <2>3, SharedFields DEF CacheOK
  <2> QED BY <2>2, <2>3
<1>12. Refs \subseteq Places /\ IsFiniteSet(Refs)
  BY InvFacts DEF Good
<1>13. Sound(sh, Refs, {s})
  BY <1>5, <1>7, <1>8, <1>9, <1>10, <1>11, <1>12 DEF Sound, Good
<1> QED BY <1>1, <1>13

\* Once nobody refers to a frame of the emptied slot, none is left.
LEMMA VacatedDone ==
    ASSUME NEW sh, NEW L, NEW s \in Slots, Sound(sh, L, {s}), \A h \in L : h[2] # s
    PROVE  Sound(sh, L, {})
<1>1. \A h \in L : Fits(sh, h)
  BY DEF Sound, Owned
<1>2. ASSUME NEW q \in 1..Len(sh.pool), sh.pool[q].active
      PROVE  sh.pool[q].slot # s
  <2>1. To(L, q) # {}
    BY <1>2 DEF Sound, Good, Counted
  <2>2. PICK h \in L : h[4] = q
    BY <2>1 DEF To
  <2> QED BY <1>1, <2>2 DEF Fits
<1>3. ListsOK(sh, {})
  <2>1. ListsOK(sh, {s})
    BY DEF Sound, Good
  <2> SUFFICES ASSUME NEW x \in Slots
               PROVE  sh.slot[x].frames =
                        {q \in 1..Len(sh.pool) : sh.pool[q].active /\ sh.pool[q].slot = x}
    BY DEF ListsOK
  <2>2. CASE x = s
    BY <1>2, <2>1, <2>2 DEF ListsOK
  <2>3. CASE x # s
    BY <2>1, <2>3 DEF ListsOK
  <2> QED BY <2>2, <2>3
<1>4. ActiveOwn(sh, {})
  BY <1>2 DEF Sound, ActiveOwn
<1>5. Owned(sh, L, {})
  BY <1>1 DEF Owned
<1> QED BY <1>3, <1>4, <1>5 DEF Sound, Good

LEMMA DeactivateInv ==
    ASSUME PoolInv, NEW s \in Slots, Deactivate(s)
    PROVE  PoolInv'
<1>1. PICK order \in [1..Cardinality(Clients) -> Clients] :
        /\ \A c \in Clients : \E i \in DOMAIN order : order[i] = c
        /\ Update(ClearStates(Vacated(s, EmptySlot), [i \in DOMAIN order |-> state[order[i]][s]]))
  BY DEF Deactivate, Vacated
<1>2. PICK n \in Nat : n = Cardinality(Clients)
  BY PoolAssumption, FS_CardinalityType
<1>3. order \in [1..n -> Clients] /\ \A i, j \in 1..n : order[i] = order[j] => i = j
  BY <1>1, <1>2, PoolAssumption, OrderInjective
<1>4. PICK sts : sts = [i \in 1..n |-> state[order[i]][s]]
  OBVIOUS
<1>5. Update(ClearStates(Vacated(s, EmptySlot), sts))
  <2>1. DOMAIN order = 1..n
    BY <1>3
  <2> QED BY <1>1, <1>4, <2>1
<1>6. Len(sts) = n /\ \A i \in 1..n : sts[i] = state[order[i]][s]
  BY <1>4
<1>7. PICK ss \in [1..n -> Slots] : \A i \in 1..n : ss[i] = s
  <2>1. [i \in 1..n |-> s] \in [1..n -> Slots]
    OBVIOUS
  <2> QED BY <2>1
<1>8. \A i \in 1..n : StateOK(sts[i])
  BY <1>3, <1>6, StateFacts
<1>9. \A i \in 1..n : At(Refs, order[i], ss[i]) = RefsOf(order[i], ss[i], sts[i])
  <2> SUFFICES ASSUME NEW i \in 1..n
               PROVE  At(Refs, order[i], ss[i]) = RefsOf(order[i], ss[i], sts[i])
    OBVIOUS
  <2>1. PICK c : c = order[i]
    OBVIOUS
  <2>2. c \in Clients /\ ss[i] = s /\ sts[i] = state[c][s]
    BY <1>3, <1>6, <1>7, <2>1
  <2> QED BY <2>1, <2>2, RefsAt
<1>10. \A i, j \in 1..n : order[i] = order[j] /\ ss[i] = ss[j] => i = j
  BY <1>3
<1>11. PICK sh0 : sh0 = Vacated(s, EmptySlot)
  OBVIOUS
<1>12. Sound(sh0, Refs, {s})
  <2>1. EmptySlot.frames = {} /\ EmptySlot.cache = None
    BY DEF EmptySlot
  <2> QED BY <1>11, <2>1, EmptySlotType, VacatedSound
<1>13. PICK L : L = LeftOf(Refs, order, ss, n)
  OBVIOUS
<1>14. Sound(ClearStates(sh0, sts), L, {s})
  <2>1. Sound(ClearStates(sh0, sts), LeftOf(Refs, order, ss, Len(sts)), {s})
    <3>1. order \in [1..Len(sts) -> Clients] /\ ss \in [1..Len(sts) -> Slots] /\ Len(sts) \in Nat
      BY <1>3, <1>6, <1>7
    <3>2. /\ \A i \in 1..Len(sts) : StateOK(sts[i])
          /\ \A i \in 1..Len(sts) : At(Refs, order[i], ss[i]) = RefsOf(order[i], ss[i], sts[i])
          /\ \A i, j \in 1..Len(sts) : order[i] = order[j] /\ ss[i] = ss[j] => i = j
      BY ONLY <1>6, <1>8, <1>9, <1>10
    <3> QED BY ONLY <1>12, <3>1, <3>2, ClearSome
  <2> QED BY <1>6, <1>13, <2>1
<1>15. PICK P : P = {<<c, s>> : c \in Clients}
  OBVIOUS
<1>16. \A h \in Refs : h[1] \in Clients /\ h[2] \in Slots
  BY DEF Refs, Places
<1>17. \A h \in Refs : (\E i \in 1..n : h[1] = order[i] /\ h[2] = ss[i]) <=> h[2] = s
  <2>1. \A c \in Clients : \E i \in 1..n : order[i] = c
    BY <1>1, <1>3
  <2> QED BY <1>7, <1>16, <2>1
<1>18. L = {h \in Refs : <<h[1], h[2]>> \notin P} /\ \A h \in L : h[2] # s
  <2>1. \A h \in Refs : <<h[1], h[2]>> \in P <=> h[2] = s
    BY <1>15, <1>16
  <2> QED BY <1>13, <1>17, <2>1 DEF LeftOf
<1>19. Sound(ClearStates(sh0, sts), {h \in Refs : <<h[1], h[2]>> \notin P}, {})
  BY <1>14, <1>18, VacatedDone
<1>20. /\ state' = [c \in Clients |-> [state[c] EXCEPT ![s] = NoState]]
       /\ UNCHANGED <<frame, present, born>>
  BY DEF Deactivate
<1>21. state \in [Clients -> [Slots -> ClientEntityState]] /\ present \subseteq Clients
  BY DEF PoolInv, TypeOK
<1>22. state' \in [Clients -> [Slots -> ClientEntityState]]
  BY <1>20, <1>21, NoStateType
<1>23. \A d \in Clients, x \in Slots :
         state'[d][x] = IF <<d, x>> \in P THEN NoState ELSE state[d][x]
  <2>1. \A d \in Clients, x \in Slots : <<d, x>> \in P <=> x = s
    BY <1>15
  <2> QED BY <1>20, <1>21, <2>1
<1>24. Update(ClearStates(sh0, sts))
  BY <1>5, <1>11
<1> QED BY <1>19, <1>20, <1>21, <1>22, <1>23, <1>24, SettleAll

LEMMA SpawnInv ==
    ASSUME PoolInv, NEW s \in Slots, NEW cacheable \in BOOLEAN, Spawn(s, cacheable)
    PROVE  PoolInv'
<1>1. PICK v : v = [EmptySlot EXCEPT !.entity = born + 1, !.cacheable = cacheable]
  OBVIOUS
<1>2. /\ slot[s].entity = 0 /\ born < MaxEntity /\ born' = born + 1 /\ slot' = [slot EXCEPT ![s] = v]
      /\ UNCHANGED <<frame, pool, free, state, present>>
  BY <1>1 DEF Spawn
<1>3. v \in ReplicatedSlot /\ v.frames = {} /\ v.cache = None
  <2>1. v = [entity |-> born + 1, cacheable |-> cacheable, frames |-> {}, cache |-> None, at |-> 0]
    BY <1>1 DEF EmptySlot
  <2>2. born + 1 \in 0..MaxEntity /\ 0 \in 0..MaxFrame /\ None \in Nat /\ {} \in SUBSET Nat
    BY <1>2, PoolAssumption DEF PoolInv, TypeOK, None
  <2> QED BY <2>1, <2>2 DEF ReplicatedSlot
<1>4. Sound(Vacated(s, v), Refs, {s})
  BY <1>3, VacatedSound
<1>5. \A h \in Refs : h[2] # s
  <2> SUFFICES ASSUME NEW h \in Refs, h[2] = s
               PROVE  FALSE
    OBVIOUS
  <2>1. h[4] \in 1..Len(pool) /\ Fits(Shared, h) /\ Counted(Shared, Refs)
    BY InvFacts, SharedFields DEF Good, Owned
  <2>2. pool[h[4]].entity = 0
    BY <1>2, <2>1, SharedFields DEF Fits
  <2>3. To(Refs, h[4]) # {}
    BY DEF To
  <2>4. pool[h[4]].active
    BY <2>1, <2>3, SharedFields DEF Counted
  <2>5. pool[h[4]] \in QuantizedFrame
    BY <2>1, <2>4, InvFacts, FrameTypes
  <2>6. pool[h[4]].entity \in 1..MaxEntity
    BY <2>5 DEF QuantizedFrame
  <2> QED BY <2>2, <2>6
<1>6. Sound(Vacated(s, v), Refs, {})
  BY <1>4, <1>5, VacatedDone
<1>7. Shared' = Vacated(s, v)
  BY <1>2 DEF Shared, Vacated
<1>8. Refs' = Refs
  BY <1>2 DEF Refs
<1>9. Sound(Shared', Refs', {})
  BY <1>6, <1>7, <1>8
<1>10. TypeOK'
  <2>1. slot' \in [Slots -> ReplicatedSlot]
    BY <1>2, <1>3, InvFacts
  <2>2. born' \in 0..MaxEntity
    BY <1>2, PoolAssumption DEF PoolInv, TypeOK
  <2> QED BY <1>2, <2>1, <2>2 DEF PoolInv, TypeOK, Ids
<1> QED BY <1>9, <1>10 DEF PoolInv

\* Steps that leave the pool, the slots and the clients' states alone.
LEMMA QuietInv ==
    ASSUME PoolInv, UNCHANGED <<slot, pool, free, state, born>>,
           frame' \in 1..MaxFrame, present' \subseteq Clients
    PROVE  PoolInv'
<1>1. Shared' = Shared /\ Refs' = Refs
  BY DEF Shared, Refs
<1>2. Sound(Shared', Refs', {})
  BY <1>1 DEF PoolInv
<1>3. TypeOK'
  BY DEF PoolInv, TypeOK, Ids
<1> QED BY <1>2, <1>3 DEF PoolInv

LEMMA InitInv == Init => PoolInv
<1> SUFFICES ASSUME Init
             PROVE  PoolInv
  OBVIOUS
<1>1. TypeOK
  <2>1. state \in [Clients -> [Slots -> ClientEntityState]] /\ slot \in [Slots -> ReplicatedSlot]
    BY NoStateType, EmptySlotType DEF Init
  <2>2. pool \in Seq(QuantizedFrame \cup {FreeFrame}) /\ free \in Seq(Ids)
    BY DEF Init
  <2>3. frame \in 1..MaxFrame /\ born \in 0..MaxEntity /\ present \subseteq Clients
    BY PoolAssumption DEF Init
  <2>4. \A c \in Clients, s \in Slots : Len(state[c][s].pending) <= MaxPending
    <3>1. Len(NoState.pending) <= MaxPending
      BY PoolAssumption DEF NoState
    <3> QED BY <3>1 DEF Init
  <2> QED BY <2>1, <2>2, <2>3, <2>4 DEF TypeOK
<1>2. Refs = {}
  <2> SUFFICES ASSUME NEW h \in Places, Holds(h, state[h[1]][h[2]])
               PROVE  FALSE
    BY DEF Refs
  <2>1. h[1] \in Clients /\ h[2] \in Slots /\ h[3] \in Nat
    BY DEF Places
  <2>2. state[h[1]][h[2]] = NoState
    BY <2>1 DEF Init
  <2>3. NoState.baseline = None /\ Len(NoState.pending) = 0
    BY DEF NoState
  <2> QED BY <2>1, <2>2, <2>3 DEF Holds
<1>3. Len(pool) = 0 /\ Len(free) = 0 /\ \A s \in Slots : slot[s] = EmptySlot
  BY DEF Init
<1>4. EmptySlot.frames = {} /\ EmptySlot.cache = None
  BY DEF EmptySlot
<1>5. SharedOK(Shared)
  <2>1. Shared = [pool |-> Shared.pool, free |-> Shared.free, slot |-> Shared.slot]
    BY DEF Shared
  <2> QED BY <1>1, <2>1, SharedFields DEF SharedOK, TypeOK, Ids
<1>6. Good(Shared, Refs, {})
  <2>1. IsFiniteSet(Refs)
    BY <1>2, FS_EmptySet
  <2>2. Counted(Shared, Refs) /\ FreeOK(Shared)
    BY <1>3, SharedFields DEF Counted, FreeOK
  <2>3. ListsOK(Shared, {})
    BY <1>3, <1>4, SharedFields DEF ListsOK
  <2> QED BY <1>2, <1>5, <2>1, <2>2, <2>3 DEF Good
<1>7. Owned(Shared, Refs, {}) /\ ActiveOwn(Shared, {}) /\ CacheOK(Shared)
  BY <1>2, <1>3, <1>4, SharedFields DEF Owned, ActiveOwn, CacheOK
<1> QED BY <1>1, <1>6, <1>7 DEF PoolInv, Sound

\* Every operation of the server leaves the pool sound with what the clients hold.
THEOREM PoolInvAlways == Spec => []PoolInv
<1>1. Init => PoolInv
  BY InitInv
<1>2. PoolInv /\ [Next]_vars => PoolInv'
  <2> SUFFICES ASSUME PoolInv, [Next]_vars
               PROVE  PoolInv'
    OBVIOUS
  <2>1. frame \in 1..MaxFrame /\ present \subseteq Clients
    BY DEF PoolInv, TypeOK
  <2>2. CASE Tick
    <3>1. frame' \in 1..MaxFrame
      BY <2>1, <2>2, PoolAssumption DEF Tick
    <3> QED BY <2>1, <2>2, <3>1, QuietInv DEF Tick
  <2>3. ASSUME NEW c \in Clients, AddClient(c) PROVE PoolInv'
    <3>1. present' \subseteq Clients
      BY <2>1, <2>3 DEF AddClient
    <3> QED BY <2>1, <2>3, <3>1, QuietInv DEF AddClient
  <2>4. ASSUME NEW c \in Clients, RemoveClient(c) PROVE PoolInv'
    BY <2>4, RemoveClientInv
  <2>5. ASSUME NEW s \in Slots, Deactivate(s) PROVE PoolInv'
    BY <2>5, DeactivateInv
  <2>6. ASSUME NEW s \in Slots, NEW cacheable \in BOOLEAN, Spawn(s, cacheable) PROVE PoolInv'
    BY <2>6, SpawnInv
  <2>7. ASSUME NEW c \in Clients, NEW s \in Slots, Reopen(c, s) PROVE PoolInv'
    BY <2>7, ReopenInv
  <2>8. ASSUME NEW c \in Clients, NEW s \in Slots, Refuse(c, s) PROVE PoolInv'
    BY <2>8, RefuseInv
  <2>9. ASSUME NEW c \in Clients, NEW s \in Slots, NEW full \in BOOLEAN, Send(c, s, full)
        PROVE  PoolInv'
    BY <2>9, SendInv
  <2>10. ASSUME NEW c \in Clients, NEW s \in Slots, NEW f \in 1..MaxFrame, Acknowledge(c, s, f)
         PROVE  PoolInv'
    BY <2>10, AcknowledgeInv
  <2>11. CASE UNCHANGED vars
    BY <2>1, <2>11, QuietInv DEF vars
  <2> QED BY <2>2, <2>3, <2>4, <2>5, <2>6, <2>7, <2>8, <2>9, <2>10, <2>11 DEF Next
<1> QED BY <1>1, <1>2, PTL DEF Spec

\* Every variable keeps its shape, the pending lists within their limit included.
THEOREM TypeCorrect == Spec => []TypeOK
<1>1. PoolInv => TypeOK
  BY DEF PoolInv
<1> QED BY <1>1, PoolInvAlways, PTL

\* Every index is in use or on the free list once, and every slot lists the frames
\* of its entity: no index leaks and none is handed out twice.
THEOREM IndicesPartitionedAlways == Spec => []IndicesPartitioned
<1>1. ASSUME PoolInv PROVE IndicesPartitioned
  <2>1. FreeOK(Shared) /\ ListsOK(Shared, {})
    BY <1>1, InvFacts DEF Good
  <2>2. \A q \in Ids : pool[q].active <=> ~\E i \in 1..Len(free) : free[i] = q
    BY <2>1, SharedFields DEF FreeOK, Ids
  <2>3. \A i, j \in 1..Len(free) : free[i] = free[j] => i = j
    BY <2>1, SharedFields DEF FreeOK
  <2>4. \A s \in Slots : slot[s].frames = {q \in Ids : pool[q].active /\ pool[q].slot = s}
    BY <2>1, SharedFields, SMTT(30) DEF ListsOK, Ids
  <2> QED BY <2>2, <2>3, <2>4 DEF IndicesPartitioned
<1> QED BY <1>1, PoolInvAlways, PTL

\* Whatever a client holds, as a baseline or in flight, is of the entity now in the
\* slot, of the frame it was sent at and of the client's own view.
THEOREM FramesAreOwnAlways == Spec => []FramesAreOwn
<1>1. ASSUME PoolInv PROVE FramesAreOwn
  <2> SUFFICES ASSUME NEW c \in Clients, NEW s \in Slots
               PROVE  LET Own(q) == /\ q \in Ids /\ pool[q].active /\ pool[q].slot = s
                                    /\ pool[q].entity = slot[s].entity
                                    /\ pool[q].view = ViewOf(c, s)
                      IN  /\ state[c][s].baseline # None => Own(state[c][s].baseline)
                          /\ \A i \in 1..Len(state[c][s].pending) :
                               /\ Own(state[c][s].pending[i].id)
                               /\ pool[state[c][s].pending[i].id].frame = state[c][s].pending[i].frame
    BY DEF FramesAreOwn
  <2>1. PICK st : st = state[c][s]
    OBVIOUS
  <2>2. StateOK(st) /\ Refs = Rest(c, s) \cup RefsOf(c, s, st)
    BY <1>1, <2>1, StateFacts
  <2>3. ASSUME NEW h \in Refs, h[1] = c, h[2] = s
        PROVE  /\ h[4] \in Ids /\ pool[h[4]].active /\ pool[h[4]].slot = s
               /\ pool[h[4]].entity = slot[s].entity /\ pool[h[4]].view = ViewOf(c, s)
               /\ h[3] # 0 => pool[h[4]].frame = h[5]
    <3>1. h[4] \in 1..Len(pool) /\ Fits(Shared, h) /\ Counted(Shared, Refs)
      BY <1>1, InvFacts, SharedFields DEF Good, Owned
    <3>2. To(Refs, h[4]) # {}
      BY DEF To
    <3>3. pool[h[4]].active
      BY <3>1, <3>2, SharedFields DEF Counted
    <3> QED BY <2>3, <3>1, <3>3, SharedFields DEF Fits, ViewIn, ViewOf, Ids
  <2>4. st.baseline # None =>
          /\ st.baseline \in Ids /\ pool[st.baseline].active /\ pool[st.baseline].slot = s
          /\ pool[st.baseline].entity = slot[s].entity /\ pool[st.baseline].view = ViewOf(c, s)
    <3> SUFFICES ASSUME st.baseline # None
                 PROVE  /\ st.baseline \in Ids /\ pool[st.baseline].active
                        /\ pool[st.baseline].slot = s /\ pool[st.baseline].entity = slot[s].entity
                        /\ pool[st.baseline].view = ViewOf(c, s)
      OBVIOUS
    <3>1. PICK h : h = <<c, s, 0, st.baseline, 0>>
      OBVIOUS
    <3>2. st.baseline \in Nat
      BY <2>2 DEF StateOK
    <3>3. h \in Places /\ h[1] = c /\ h[2] = s /\ h[3] = 0 /\ h[4] = st.baseline /\ h[5] = 0
      BY <3>1, <3>2, BaselinePlace
    <3>4. h \in Refs
      BY <2>2, <3>3 DEF RefsOf, Holds
    <3> QED BY <2>3, <3>3, <3>4
  <2>5. ASSUME NEW i \in 1..Len(st.pending)
        PROVE  /\ st.pending[i].id \in Ids /\ pool[st.pending[i].id].active
               /\ pool[st.pending[i].id].slot = s
               /\ pool[st.pending[i].id].entity = slot[s].entity
               /\ pool[st.pending[i].id].view = ViewOf(c, s)
               /\ pool[st.pending[i].id].frame = st.pending[i].frame
    <3>1. PICK h : h = Place(c, s, st, i)
      OBVIOUS
    <3>2. h \in RefsOf(c, s, st) /\ h[3] = i /\ h[4] = st.pending[i].id /\ h[5] = st.pending[i].frame
      <4>1. h \in RefsOf(c, s, st) /\ h[3] = i /\ h[4] = st.pending[i].id
        BY <2>2, <3>1, PlaceFacts
      <4>2. h[5] = st.pending[h[3]].frame
        BY <4>1 DEF RefsOf, Holds
      <4> QED BY <4>1, <4>2
    <3>3. h \in Refs /\ h[1] = c /\ h[2] = s /\ h[3] # 0
      BY <2>2, <3>2 DEF RefsOf
    <3> QED BY <2>3, <3>2, <3>3
  <2> QED BY <2>1, <2>4, <2>5, SMTT(30)
<1> QED BY <1>1, PoolInvAlways, PTL

\* A place that holds a frame, as CountsAreExact names it.
Short(h) == <<h[1], h[2], h[3]>>

LEMMA ShortFacts ==
    ASSUME NEW h \in Places
    PROVE  /\ Short(h) \in Clients \X Slots \X Nat
           /\ Short(h)[1] = h[1] /\ Short(h)[2] = h[2] /\ Short(h)[3] = h[3]
           /\ h = <<h[1], h[2], h[3], h[4], h[5]>>
BY DEF Places, Short

\* There are as many references to a frame as places that hold it.
LEMMA HoldersCounted ==
    ASSUME PoolInv, NEW q \in Ids
    PROVE  Cardinality(To(Refs, q)) = Cardinality(Holders(q))
<1> DEFINE T == To(Refs, q)
           B == Holders(q)
           g == [h \in T |-> Short(h)]
<1>1. \A h \in T : h \in Places /\ Holds(h, state[h[1]][h[2]]) /\ h[4] = q
  BY DEF To, Refs
<1>2. IsFiniteSet(T)
  BY InvFacts, FS_Subset DEF Good, To
<1>3. q \in Nat /\ q # None
  BY DEF Ids, None
<1>4. ASSUME NEW h \in T
      PROVE  Short(h) \in B
  <2>1. /\ h[1] \in Clients /\ h[2] \in Slots /\ h[3] \in Nat
        /\ Short(h)[1] = h[1] /\ Short(h)[2] = h[2] /\ Short(h)[3] = h[3]
    BY <1>1, <1>4, ShortFacts DEF Places
  <2>2. PICK st : st = state[h[1]][h[2]]
    OBVIOUS
  <2>3. Len(st.pending) \in Nat /\ Len(st.pending) <= MaxPending /\ MaxPending \in Nat
    BY <2>1, <2>2, StateFacts, PoolAssumption
  <2>4. Holds(h, st) /\ h[4] = q
    BY <1>1, <1>4, <2>2
  <2>5. CASE h[3] = 0
    <3>1. Short(h) \in Clients \X Slots \X (0..MaxPending)
      BY <2>1, <2>3, <2>5 DEF Short
    <3>2. st.baseline = q
      BY <2>4, <2>5 DEF Holds
    <3> QED BY <2>1, <2>2, <2>5, <3>1, <3>2 DEF Holders
  <2>6. CASE h[3] # 0
    <3>1. h[3] <= Len(st.pending) /\ st.pending[h[3]].id = q
      BY <2>4, <2>6 DEF Holds
    <3>2. h[3] \in 0..MaxPending
      BY <2>1, <2>3, <3>1
    <3>3. Short(h) \in Clients \X Slots \X (0..MaxPending)
      BY <2>1, <3>2 DEF Short
    <3> QED BY <2>1, <2>2, <2>6, <3>1, <3>3 DEF Holders
  <2> QED BY <2>5, <2>6
<1>5. ASSUME NEW h \in T, NEW k \in T, Short(h) = Short(k)
      PROVE  h = k
  <2>1. h \in Places /\ k \in Places /\ h[4] = q /\ k[4] = q
    BY <1>1, <1>5
  <2>2. h[1] = k[1] /\ h[2] = k[2] /\ h[3] = k[3]
    BY <1>5, <2>1, ShortFacts
  <2>3. PICK st : st = state[h[1]][h[2]]
    OBVIOUS
  <2>4. Holds(h, st) /\ Holds(k, st)
    BY <1>1, <1>5, <2>2, <2>3
  <2>5. h[5] = k[5]
    BY <2>2, <2>4 DEF Holds
  <2>6. h = <<h[1], h[2], h[3], h[4], h[5]>> /\ k = <<k[1], k[2], k[3], k[4], k[5]>>
    BY <2>1, ShortFacts
  <2> QED BY <2>1, <2>2, <2>5, <2>6
<1>6. ASSUME NEW t \in B
      PROVE  \E h \in T : Short(h) = t
  <2>1. /\ t[1] \in Clients /\ t[2] \in Slots /\ t[3] \in 0..MaxPending /\ t = <<t[1], t[2], t[3]>>
    BY <1>6 DEF Holders
  <2>2. PICK c \in Clients : c = t[1]
    BY <2>1
  <2>3. PICK s \in Slots : s = t[2]
    BY <2>1
  <2>4. PICK st : st = state[c][s]
    OBVIOUS
  <2>5. StateOK(st) /\ Len(st.pending) \in Nat /\ Refs = Rest(c, s) \cup RefsOf(c, s, st)
    BY <2>4, StateFacts
  <2>6. IF t[3] = 0 THEN st.baseline = q ELSE t[3] <= Len(st.pending) /\ st.pending[t[3]].id = q
    BY <1>6, <2>2, <2>3, <2>4 DEF Holders
  <2>7. PICK h \in RefsOf(c, s, st) : h[3] = t[3] /\ h[4] = q
    <3>1. CASE t[3] = 0
      <4>1. PICK h : h = <<c, s, 0, q, 0>>
        OBVIOUS
      <4>2. h \in Places /\ h[1] = c /\ h[2] = s /\ h[3] = 0 /\ h[4] = q /\ h[5] = 0
        BY <1>3, <4>1, BaselinePlace
      <4>3. h \in RefsOf(c, s, st)
        BY <1>3, <2>6, <3>1, <4>2 DEF RefsOf, Holds
      <4> QED BY <3>1, <4>2, <4>3
    <3>2. CASE t[3] # 0
      <4>1. t[3] \in 1..Len(st.pending) /\ st.pending[t[3]].id = q
        BY <2>1, <2>5, <2>6, <3>2, PoolAssumption
      <4> QED BY <2>5, <4>1, PlaceFacts
    <3> QED BY <3>1, <3>2
  <2>8. h \in T /\ h \in Places /\ h[1] = c /\ h[2] = s
    BY <2>5, <2>7 DEF To, RefsOf
  <2>9. Short(h) = t
    BY <2>1, <2>2, <2>3, <2>7, <2>8 DEF Short
  <2> QED BY <2>8, <2>9
<1>7. g \in Bijection(T, B)
  <2> HIDE DEF T, B
  <2>1. g \in [T -> B] /\ \A h \in T : g[h] = Short(h)
    BY <1>4
  <2> HIDE DEF g
  <2>2. g \in Injection(T, B)
    BY <1>5, <2>1 DEF Injection, IsInjective
  <2>3. g \in Surjection(T, B)
    BY <1>6, <2>1 DEF Surjection
  <2> QED BY <2>2, <2>3 DEF Bijection
<1>8. ExistsBijection(T, B)
  BY <1>7 DEF ExistsBijection
<1> HIDE DEF T, B
<1>9. Cardinality(B) = Cardinality(T)
  BY <1>2, <1>8, FS_Bijection
<1> QED BY <1>9 DEF T, B

\* The count of a frame is the number of baselines and pending entries that hold it,
\* and exactly the frames somebody holds are in use.
THEOREM CountsAreExactAlways == Spec => []CountsAreExact
<1>1. ASSUME PoolInv PROVE CountsAreExact
  <2> SUFFICES ASSUME NEW q \in Ids
               PROVE  /\ pool[q].refs = Cardinality(Holders(q))
                      /\ pool[q].active <=> pool[q].refs > 0
    BY DEF CountsAreExact
  <2>1. pool[q].refs = Cardinality(To(Refs, q)) /\ (pool[q].active <=> To(Refs, q) # {})
    BY <1>1, InvFacts, SharedFields DEF Good, Counted, Ids
  <2>2. IsFiniteSet(To(Refs, q))
    BY <1>1, InvFacts, FS_Subset DEF Good, To
  <2>3. Cardinality(To(Refs, q)) \in Nat /\ (To(Refs, q) = {} <=> Cardinality(To(Refs, q)) = 0)
    BY <2>2, FS_CardinalityType, FS_EmptySet
  <2>4. Cardinality(To(Refs, q)) > 0 <=> To(Refs, q) # {}
    BY <2>3
  <2> QED BY <1>1, <2>1, <2>4, HoldersCounted
<1> QED BY <1>1, PoolInvAlways, PTL

-------------------------------------------------------------------------------
(* Display                                                                      *)

\* The frames of a ring: no two of them share a slot.
OnePerSlot(r) ==
  \A f, g \in DOMAIN r : f % DrawnCapacity = g % DrawnCapacity => f = g

\* The rings, and the number of writes n they know of.
PredictedRing(p, n) ==
  /\ p \in [DOMAIN p -> [val : Int, gen : 1 .. n]]
  /\ DOMAIN p \subseteq Nat
  /\ OnePerSlot(p)

PresentedRing(s, n) ==
  /\ s \in [DOMAIN s -> [val : Int, origin : [val : Int, gen : 1 .. n], corrected : BOOLEAN]]
  /\ DOMAIN s \subseteq Nat
  /\ OnePerSlot(s)

\* What is left to fade in a frame.
Left(p, s, f) == Dsp!Abs(s[f].val - p[f].val)

\* A frame that was presented as it is still predicted looks like its prediction,
\* or follows a presented frame from which its correction faded.
Fades(p, s) ==
  \A f \in DOMAIN p :
    (/\ f + 1 \in DOMAIN p /\ f + 1 \in DOMAIN s
     /\ s[f + 1].origin.gen = p[f + 1].gen /\ p[f].gen < p[f + 1].gen) =>
    \/ s[f + 1].val = p[f + 1].val
    \/ /\ f \in DOMAIN s
       /\ Left(p, s, f + 1) <= IF Left(p, s, f) > 0 THEN Left(p, s, f) - 1 ELSE 0

\* While every predicted frame was drawn nothing after the last one is presented.
DrawnSoFar ==
  (dspMode = "Predict" /\ dspRegular = TRUE) =>
    /\ \A f \in DOMAIN dspPres : f <= dspLast
    /\ dspDrawn = TRUE => dspLast \in DOMAIN dspPres

DisplayInv ==
  /\ dspMode \in {"Snap", "Predict"}
  /\ dspLive \in Int /\ dspError \in Int
  /\ dspClock \in Nat /\ dspReceived \in Nat /\ dspLast \in Nat /\ dspWrites \in Nat
  /\ PredictedRing(dspPred, dspWrites)
  /\ PresentedRing(dspPres, dspWrites)
  /\ dspLast # 0 => dspLast \in DOMAIN dspPred
  /\ dspMode = "Predict" => dspLast # 0
  /\ Fades(dspPred, dspPres)
  /\ DrawnSoFar
  /\ dspServer = [frame |-> dspServer.frame, world |-> dspServer.world,
                  previous |-> dspServer.previous, current |-> dspServer.current]
  /\ dspServer.frame \in Nat /\ dspServer.current.frame = dspServer.frame

\* The assumptions by their parts.
LEMMA DrawnConstants ==
  /\ DrawnValues \subseteq Int
  /\ DrawnCapacity \in Nat /\ DrawnCapacity > 0
  /\ DrawnFrames \in Nat /\ DrawnWrites \in Nat
BY DrawnAssumption DEF Dsp!DisplayAssumption

\* What Put leaves and writes.
LEMMA PutFacts ==
  ASSUME NEW r, NEW f, NEW x
  PROVE  /\ DOMAIN Dsp!Put(r, f, x) =
              {h \in DOMAIN r : h % DrawnCapacity # f % DrawnCapacity} \cup {f}
         /\ Dsp!Put(r, f, x)[f] = x
         /\ \A g \in DOMAIN Dsp!Put(r, f, x) :
              g # f => /\ g \in DOMAIN r /\ g % DrawnCapacity # f % DrawnCapacity
                       /\ Dsp!Put(r, f, x)[g] = r[g]
BY DEF Dsp!Put

\* A ring stays a ring.
LEMMA PutKeepsSlots ==
  ASSUME NEW r, NEW f \in Nat, NEW x, OnePerSlot(r)
  PROVE  OnePerSlot(Dsp!Put(r, f, x))
BY DEF OnePerSlot, Dsp!Put

LEMMA PutPredicted ==
  ASSUME NEW p, NEW n \in Nat, NEW m \in Nat, n <= m, PredictedRing(p, n),
         NEW f \in Nat, NEW x \in [val : Int, gen : 1 .. m]
  PROVE  PredictedRing(Dsp!Put(p, f, x), m)
<1> DEFINE q == Dsp!Put(p, f, x)
<1>1. OnePerSlot(q)
  BY PutKeepsSlots DEF PredictedRing
<1>2. DOMAIN q \subseteq Nat
  BY PutFacts DEF PredictedRing
<1>3. \A g \in DOMAIN q : q[g] \in [val : Int, gen : 1 .. m]
  <2> SUFFICES ASSUME NEW g \in DOMAIN q PROVE q[g] \in [val : Int, gen : 1 .. m]
    OBVIOUS
  <2>1. CASE g = f
    BY <2>1 DEF Dsp!Put
  <2>2. CASE g # f
    <3>1. q[g] = p[g] /\ p[g] \in [val : Int, gen : 1 .. n]
      BY <2>2 DEF PredictedRing, Dsp!Put
    <3> QED BY <3>1
  <2> QED BY <2>1, <2>2
<1>4. q = [g \in DOMAIN q |-> q[g]]
  BY DEF Dsp!Put
<1> QED BY <1>1, <1>2, <1>3, <1>4 DEF PredictedRing

LEMMA PutPresented ==
  ASSUME NEW s, NEW n \in Nat, PresentedRing(s, n), NEW f \in Nat,
         NEW x \in [val : Int, origin : [val : Int, gen : 1 .. n], corrected : BOOLEAN]
  PROVE  PresentedRing(Dsp!Put(s, f, x), n)
<1> DEFINE q == Dsp!Put(s, f, x)
<1>1. OnePerSlot(q)
  BY PutKeepsSlots DEF PresentedRing
<1>2. DOMAIN q \subseteq Nat
  BY PutFacts DEF PresentedRing
<1>3. \A g \in DOMAIN q : q[g] \in [val : Int, origin : [val : Int, gen : 1 .. n], corrected : BOOLEAN]
  BY DEF PresentedRing, Dsp!Put
<1>4. q = [g \in DOMAIN q |-> q[g]]
  BY DEF Dsp!Put
<1> QED BY <1>1, <1>2, <1>3, <1>4 DEF PresentedRing

\* More writes fit too.
LEMMA PresentedLater ==
  ASSUME NEW s, NEW n \in Nat, NEW m \in Nat, n <= m, PresentedRing(s, n)
  PROVE  PresentedRing(s, m)
<1>1. \A f \in DOMAIN s :
        s[f] \in [val : Int, origin : [val : Int, gen : 1 .. m], corrected : BOOLEAN]
  <2> SUFFICES ASSUME NEW f \in DOMAIN s
               PROVE  s[f] \in [val : Int, origin : [val : Int, gen : 1 .. m], corrected : BOOLEAN]
    OBVIOUS
  <2>1. PICK y \in [val : Int, origin : [val : Int, gen : 1 .. n], corrected : BOOLEAN] : y = s[f]
    BY DEF PresentedRing
  <2>2. y.origin \in [val : Int, gen : 1 .. m]
    BY <2>1
  <2> QED BY <2>1, <2>2
<1> QED BY <1>1 DEF PresentedRing

\* Predicting frames again, with writes that no presented frame knows, leaves
\* nothing to say of them.
LEMMA RewrittenFades ==
  ASSUME NEW p, NEW q, NEW s, NEW n \in Nat, NEW m \in Nat,
         PredictedRing(p, n), PresentedRing(s, n), PredictedRing(q, m), Fades(p, s),
         \A f \in DOMAIN q : q[f].gen > n \/ (f \in DOMAIN p /\ q[f] = p[f])
  PROVE  Fades(q, s)
<1> SUFFICES ASSUME NEW f \in DOMAIN q,
                    f + 1 \in DOMAIN q, f + 1 \in DOMAIN s,
                    s[f + 1].origin.gen = q[f + 1].gen, q[f].gen < q[f + 1].gen
             PROVE  \/ s[f + 1].val = q[f + 1].val
                    \/ /\ f \in DOMAIN s
                       /\ Left(q, s, f + 1) <= IF Left(q, s, f) > 0 THEN Left(q, s, f) - 1 ELSE 0
  BY DEF Fades
<1>1. s[f + 1].origin.gen <= n
  BY DEF PresentedRing
<1>2. f + 1 \in DOMAIN p /\ q[f + 1] = p[f + 1]
  BY <1>1 DEF PredictedRing
<1>3. p[f + 1].gen \in 1 .. n /\ q[f].gen \in 1 .. m
  BY <1>2 DEF PredictedRing
<1>4. f \in DOMAIN p /\ q[f] = p[f]
  BY <1>2, <1>3
<1> QED BY <1>2, <1>4 DEF Fades, Left

-----------------------------------------------------------------------------
\* The presented frames after a sample.
Presented ==
  IF ~Dsp!IsPredicted THEN dspPres
  ELSE Dsp!Put(IF Dsp!HasPrevious THEN Dsp!Put(dspPres, dspLast - 1, Dsp!Previous) ELSE dspPres,
               dspLast, Dsp!Current)

PresentedFrame(n) == [val : Int, origin : [val : Int, gen : 1 .. n], corrected : BOOLEAN]

\* What is presented of a frame that can be shown.
LEMMA EnsuredFrame ==
  ASSUME DisplayInv, NEW f \in DOMAIN dspPres \cup DOMAIN dspPred
  PROVE  /\ Dsp!Ensured(f) \in PresentedFrame(dspWrites)
         /\ f \in DOMAIN dspPres => Dsp!Ensured(f) = dspPres[f]
         /\ f \notin DOMAIN dspPres => /\ Dsp!Ensured(f).val = dspPred[f].val
                                       /\ Dsp!Ensured(f).corrected = FALSE
<1>1. CASE f \in DOMAIN dspPres
  BY <1>1 DEF Dsp!Ensured, DisplayInv, PresentedRing, PresentedFrame
<1>2. CASE f \notin DOMAIN dspPres
  <2>1. dspPred[f] \in [val : Int, gen : 1 .. dspWrites]
    BY <1>2 DEF DisplayInv, PredictedRing
  <2> QED BY <1>2, <2>1 DEF Dsp!Ensured, Dsp!Origin, PresentedFrame
<1> QED BY <1>1, <1>2

\* The last frame as it is presented, and how far it is from its prediction.
LEMMA CurrentFrame ==
  ASSUME DisplayInv, dspLast # 0
  PROVE  /\ Dsp!Current \in PresentedFrame(dspWrites)
         /\ dspLast \in DOMAIN dspPres => Dsp!Current = dspPres[dspLast]
         /\ dspLast \notin DOMAIN dspPres =>
              \/ Dsp!Current.val = dspPred[dspLast].val
              \/ /\ dspLast - 1 \in DOMAIN dspPred
                 /\ Dsp!Current.val = dspPred[dspLast].val
                      + Dsp!BlendOut(Dsp!Previous.val - dspPred[dspLast - 1].val)
<1>0. dspLast \in DOMAIN dspPred /\ dspPred[dspLast] \in [val : Int, gen : 1 .. dspWrites]
  BY DEF DisplayInv, PredictedRing
<1>1. CASE dspLast \in DOMAIN dspPres
  BY <1>1 DEF Dsp!Current, DisplayInv, PresentedRing, PresentedFrame
<1>2. CASE dspLast \notin DOMAIN dspPres /\ Dsp!Anchors /\ dspLast - 1 \in DOMAIN dspPred
  <2>1. dspPred[dspLast - 1] \in [val : Int, gen : 1 .. dspWrites]
    BY <1>2 DEF DisplayInv, PredictedRing
  <2>2. Dsp!Previous \in PresentedFrame(dspWrites)
    BY <1>2, EnsuredFrame DEF Dsp!Previous
  <2>3. PICK d \in Int : d = Dsp!BlendOut(Dsp!Previous.val - dspPred[dspLast - 1].val)
    BY <2>1, <2>2 DEF Dsp!BlendOut, PresentedFrame
  <2>4. Dsp!Current = [val |-> dspPred[dspLast].val + d,
                       origin |-> Dsp!Origin(dspLast), corrected |-> TRUE]
    BY <1>2, <2>3 DEF Dsp!Current, Dsp!BoundaryError
  <2> QED BY <1>0, <1>2, <2>3, <2>4 DEF Dsp!Origin, PresentedFrame
<1>3. CASE dspLast \notin DOMAIN dspPres /\ ~(Dsp!Anchors /\ dspLast - 1 \in DOMAIN dspPred)
  BY <1>0, <1>3, EnsuredFrame DEF Dsp!Current
<1> QED BY <1>1, <1>2, <1>3

\* A sample keeps what is presented of the frames that are predicted, and adds
\* the last two frames.
LEMMA SamplePresents ==
  ASSUME DisplayInv, Dsp!IsPredicted
  PROVE  /\ PresentedRing(Presented, dspWrites)
         /\ \A f \in DOMAIN dspPres :
              /\ f \in DOMAIN dspPred => f \in DOMAIN Presented
              /\ f \in DOMAIN Presented => Presented[f] = dspPres[f]
         /\ dspLast \in DOMAIN Presented /\ Presented[dspLast] = Dsp!Current
         /\ dspLast - 1 \in DOMAIN dspPred =>
              dspLast - 1 \in DOMAIN Presented /\ Presented[dspLast - 1] = Dsp!Previous
         /\ \A f \in DOMAIN Presented \ DOMAIN dspPres :
              f = dspLast \/ (f = dspLast - 1 /\ f \in DOMAIN dspPred
                              /\ Presented[f].val = dspPred[f].val)
<1> DEFINE before == IF Dsp!HasPrevious THEN Dsp!Put(dspPres, dspLast - 1, Dsp!Previous)
                     ELSE dspPres
           after == Dsp!Put(before, dspLast, Dsp!Current)
<1>0. /\ dspLast # 0 /\ dspLast \in Nat /\ dspLast \in DOMAIN dspPred /\ dspWrites \in Nat
      /\ DrawnCapacity \in Nat /\ DrawnCapacity > 0
      /\ DOMAIN dspPred \subseteq Nat /\ DOMAIN dspPres \subseteq Nat
      /\ Presented = after
  BY DrawnConstants DEF Dsp!IsPredicted, DisplayInv, PredictedRing, PresentedRing, Presented
<1>1. \A f, g \in DOMAIN dspPred : f % DrawnCapacity = g % DrawnCapacity => f = g
  BY DEF DisplayInv, PredictedRing, OnePerSlot
<1>2. \A f, g \in DOMAIN dspPres : f % DrawnCapacity = g % DrawnCapacity => f = g
  BY DEF DisplayInv, PresentedRing, OnePerSlot
<1>3. Dsp!HasPrevious <=> dspLast - 1 \in DOMAIN dspPres \cup DOMAIN dspPred
  BY <1>0 DEF Dsp!HasPrevious
<1>4. Dsp!HasPrevious =>
        /\ Dsp!Previous \in PresentedFrame(dspWrites)
        /\ dspLast - 1 \in DOMAIN dspPres => Dsp!Previous = dspPres[dspLast - 1]
        /\ dspLast - 1 \notin DOMAIN dspPres => Dsp!Previous.val = dspPred[dspLast - 1].val
  BY <1>3, EnsuredFrame DEF Dsp!Previous
<1>5. /\ Dsp!Current \in PresentedFrame(dspWrites)
      /\ dspLast \in DOMAIN dspPres => Dsp!Current = dspPres[dspLast]
  BY <1>0, CurrentFrame
<1>6. PresentedRing(before, dspWrites)
  <2>1. CASE Dsp!HasPrevious
    BY <1>0, <1>4, <2>1, PutPresented DEF DisplayInv, PresentedFrame
  <2> QED BY <2>1 DEF DisplayInv
<1>7. PresentedRing(after, dspWrites)
  <2> HIDE DEF before
  <2> QED BY <1>0, <1>5, <1>6, PutPresented DEF PresentedFrame
<1>8. /\ DOMAIN before = IF Dsp!HasPrevious
            THEN {h \in DOMAIN dspPres : h % DrawnCapacity # (dspLast - 1) % DrawnCapacity}
                   \cup {dspLast - 1}
            ELSE DOMAIN dspPres
      /\ Dsp!HasPrevious => before[dspLast - 1] = Dsp!Previous
      /\ \A g \in DOMAIN before : (g = dspLast - 1 /\ Dsp!HasPrevious)
                                  \/ (g \in DOMAIN dspPres /\ before[g] = dspPres[g])
  BY DEF Dsp!Put
<1> HIDE DEF before
<1>9. /\ DOMAIN after = {h \in DOMAIN before : h % DrawnCapacity # dspLast % DrawnCapacity}
                          \cup {dspLast}
      /\ after[dspLast] = Dsp!Current
      /\ \A g \in DOMAIN after : g = dspLast \/ (g \in DOMAIN before /\ after[g] = before[g])
  BY DEF Dsp!Put
<1> HIDE DEF after
<1>10. ASSUME NEW f \in DOMAIN dspPres
       PROVE  /\ f \in DOMAIN dspPred => f \in DOMAIN after
              /\ f \in DOMAIN after => after[f] = dspPres[f]
  <2>1. f \in DOMAIN after => after[f] = dspPres[f]
    <3>1. f \in DOMAIN before => before[f] = dspPres[f]
      BY <1>4, <1>8
    <3> QED BY <1>5, <1>9, <3>1
  <2>2. ASSUME f \in DOMAIN dspPred PROVE f \in DOMAIN after
    <3>1. f \in DOMAIN before
      <4>1. CASE ~Dsp!HasPrevious
        BY <1>8, <4>1
      <4>2. CASE Dsp!HasPrevious
        <5>1. f % DrawnCapacity = (dspLast - 1) % DrawnCapacity => f = dspLast - 1
          BY <1>1, <1>2, <1>3, <2>2, <4>2
        <5> QED BY <1>8, <4>2, <5>1
      <4> QED BY <4>1, <4>2
    <3>2. f % DrawnCapacity = dspLast % DrawnCapacity => f = dspLast
      BY <1>0, <1>1, <2>2
    <3> QED BY <1>9, <3>1, <3>2
  <2> QED BY <2>1, <2>2
<1>11. ASSUME dspLast - 1 \in DOMAIN dspPred
       PROVE  dspLast - 1 \in DOMAIN after /\ after[dspLast - 1] = Dsp!Previous
  <2>1. dspLast - 1 # dspLast
    BY <1>0
  <2>2. (dspLast - 1) % DrawnCapacity # dspLast % DrawnCapacity
    BY <1>0, <1>1, <1>11, <2>1
  <2>3. dspLast - 1 \in DOMAIN before /\ before[dspLast - 1] = Dsp!Previous
    BY <1>3, <1>8, <1>11
  <2> QED BY <1>9, <2>1, <2>2, <2>3
<1>12. ASSUME NEW f \in DOMAIN after, f \notin DOMAIN dspPres, f # dspLast
       PROVE  f = dspLast - 1 /\ f \in DOMAIN dspPred /\ after[f].val = dspPred[f].val
  <2>1. f \in DOMAIN before /\ after[f] = before[f]
    BY <1>9, <1>12
  <2>2. f = dspLast - 1 /\ Dsp!HasPrevious
    BY <1>8, <1>12, <2>1
  <2> QED BY <1>3, <1>4, <1>8, <1>12, <2>1, <2>2
<1> QED BY <1>0, <1>7, <1>9, <1>10, <1>11, <1>12

\* What is blended out is one less.
LEMMA BlendedOut ==
  ASSUME NEW d \in Int
  PROVE  /\ Dsp!BlendOut(d) \in Int
         /\ Dsp!Abs(Dsp!BlendOut(d)) <= IF Dsp!Abs(d) > 0 THEN Dsp!Abs(d) - 1 ELSE 0
BY DEF Dsp!BlendOut, Dsp!Abs

\* A sample lets corrections fade.
LEMMA SampleFades ==
  ASSUME DisplayInv
  PROVE  Fades(dspPred, Presented)
<1>1. CASE ~Dsp!IsPredicted
  BY <1>1 DEF Presented, DisplayInv
<1>2. CASE Dsp!IsPredicted
  <2> DEFINE p == dspPred
             s == Presented
  <2> SUFFICES ASSUME NEW f \in DOMAIN p,
                      f + 1 \in DOMAIN p, f + 1 \in DOMAIN s,
                      s[f + 1].origin.gen = p[f + 1].gen, p[f].gen < p[f + 1].gen
               PROVE  \/ s[f + 1].val = p[f + 1].val
                      \/ /\ f \in DOMAIN s
                         /\ Left(p, s, f + 1) <= IF Left(p, s, f) > 0 THEN Left(p, s, f) - 1 ELSE 0
    BY DEF Fades
  <2>0. /\ dspLast \in Nat /\ dspLast # 0 /\ f \in Nat
        /\ p[f].val \in Int /\ p[f + 1].val \in Int
    BY <1>2 DEF DisplayInv, PredictedRing, Dsp!IsPredicted
  <2>1. CASE f + 1 \in DOMAIN dspPres
    <3>1. s[f + 1] = dspPres[f + 1]
      BY <1>2, <2>1, SamplePresents
    <3>2. \/ dspPres[f + 1].val = p[f + 1].val
          \/ /\ f \in DOMAIN dspPres
             /\ Left(p, dspPres, f + 1) <=
                  IF Left(p, dspPres, f) > 0 THEN Left(p, dspPres, f) - 1 ELSE 0
      BY <2>1, <3>1 DEF Fades, DisplayInv
    <3>3. f \in DOMAIN dspPres => f \in DOMAIN s /\ s[f] = dspPres[f]
      BY <1>2, SamplePresents
    <3> QED BY <3>1, <3>2, <3>3 DEF Left
  <2>2. CASE f + 1 \notin DOMAIN dspPres /\ f + 1 # dspLast
    BY <1>2, <2>2, SamplePresents
  <2>3. CASE f + 1 \notin DOMAIN dspPres /\ f + 1 = dspLast
    <3>1. s[f + 1] = Dsp!Current /\ f = dspLast - 1
      BY <1>2, <2>0, <2>3, SamplePresents
    <3>2. f \in DOMAIN s /\ s[f] = Dsp!Previous
      BY <1>2, <3>1, SamplePresents
    <3>3. PICK y \in PresentedFrame(dspWrites) : y = Dsp!Previous
      BY <3>1, EnsuredFrame DEF Dsp!Previous
    <3>4. PICK d \in Int : d = y.val - p[f].val
      BY <2>0, <3>3 DEF PresentedFrame
    <3>5. \/ s[f + 1].val = p[f + 1].val
          \/ s[f + 1].val = p[f + 1].val + Dsp!BlendOut(d)
      BY <2>0, <2>3, <3>1, <3>3, <3>4, CurrentFrame
    <3>6. PICK b \in Int : b = Dsp!BlendOut(d)
      BY <3>4, BlendedOut
    <3>7. ASSUME s[f + 1].val = p[f + 1].val + b
          PROVE  Left(p, s, f + 1) = Dsp!Abs(b) /\ Left(p, s, f) = Dsp!Abs(d)
      <4>1. s[f + 1].val - p[f + 1].val = b
        BY <2>0, <3>6, <3>7
      <4> QED BY <3>2, <3>3, <3>4, <4>1 DEF Left
    <3>8. Dsp!Abs(b) <= IF Dsp!Abs(d) > 0 THEN Dsp!Abs(d) - 1 ELSE 0
      BY <3>4, <3>6, BlendedOut
    <3> QED BY <3>2, <3>5, <3>6, <3>7, <3>8
  <2> QED BY <2>1, <2>2, <2>3
<1> QED BY <1>1, <1>2

\* Frames less than a ring apart are in different slots.
LEMMA SameSlotWithin ==
  ASSUME NEW c \in Nat, c > 0, NEW a \in Nat, NEW b \in Int, b - a + 1 <= c
  PROVE  \A f, g \in a .. b : f % c = g % c => f = g
<1> SUFFICES ASSUME NEW f \in a .. b, NEW g \in a .. b, f % c = g % c, f < g PROVE FALSE
  BY SMTT(30)
<1>1. PICK u \in Int, v \in Int, r \in 0 .. (c - 1) : f = u * c + r /\ g = v * c + r
  <2>1. f = (f \div c) * c + (f % c) /\ g = (g \div c) * c + (g % c)
    OBVIOUS
  <2>2. f \div c \in Int /\ g \div c \in Int /\ f % c \in 0 .. (c - 1)
    OBVIOUS
  <2> QED BY <2>1, <2>2
<1>2. g - f = (v - u) * c
  BY <1>1
<1>3. PICK w \in Int : w = v - u
  BY <1>1
<1>4. w * c > 0 /\ w * c < c
  BY <1>2, <1>3
<1>5. w > 0 => w * c >= c
  <2> SUFFICES ASSUME w > 0 PROVE w * c >= c
    OBVIOUS
  <2>1. (w - 1) * c >= 0
    BY <1>3
  <2> QED BY <1>3, <2>1
<1>6. w <= 0 => w * c <= 0
  BY <1>3
<1> QED BY <1>3, <1>4, <1>5, <1>6

-----------------------------------------------------------------------------
\* An entity in Predict mode is drawn from its predicted frames.
LEMMA PredictModeIsDrawn ==
  ASSUME DisplayInv, dspMode = "Predict"
  PROVE  Dsp!IsPredicted
<1>1. dspLast # 0 /\ dspLast \in DOMAIN dspPred
  BY DEF DisplayInv
<1>2. DOMAIN dspPred # {}
  BY <1>1
<1>3. dspPred # <<>>
  BY <1>2
<1> QED BY <1>1, <1>3 DEF Dsp!IsPredicted, Dsp!HasCurrent

\* A sample.
LEMMA SampleKeeps ==
  ASSUME DisplayInv, NEW passed \in BOOLEAN, Dsp!Sample(passed)
  PROVE  DisplayInv'
<1>0. /\ dspPres' = Presented
      /\ UNCHANGED <<dspMode, dspLive, dspClock, dspReceived, dspLast, dspPred, dspWrites,
                     dspRegular, dspServer>>
      /\ dspDrawn' = TRUE
  BY DEF Dsp!Sample, Presented
<1>1. dspError' \in Int
  BY DEF Dsp!Sample, DisplayInv, Dsp!BlendOut
<1>2. PresentedRing(dspPres', dspWrites')
  <2>1. CASE Dsp!IsPredicted
    BY <1>0, <2>1, SamplePresents
  <2>2. CASE ~Dsp!IsPredicted
    BY <1>0, <2>2 DEF Presented, DisplayInv
  <2> QED BY <2>1, <2>2
<1>3. Fades(dspPred', dspPres')
  BY <1>0, SampleFades
<1>4. DrawnSoFar'
  <2> SUFFICES ASSUME dspMode = "Predict", dspRegular = TRUE
               PROVE  (\A f \in DOMAIN Presented : f <= dspLast) /\ dspLast \in DOMAIN Presented
    BY <1>0 DEF DrawnSoFar
  <2>1. Dsp!IsPredicted
    BY PredictModeIsDrawn
  <2>2. dspLast \in DOMAIN Presented
    BY <2>1, SamplePresents
  <2>3. ASSUME NEW f \in DOMAIN Presented PROVE f <= dspLast
    <3>1. CASE f \in DOMAIN dspPres
      BY <3>1 DEF DisplayInv, DrawnSoFar
    <3>2. CASE f \notin DOMAIN dspPres
      <4>1. f = dspLast \/ f = dspLast - 1
        BY <2>1, <3>2, SamplePresents
      <4> QED BY <4>1 DEF DisplayInv
    <3> QED BY <3>1, <3>2
  <2> QED BY <2>2, <2>3
<1> QED BY <1>0, <1>1, <1>2, <1>3, <1>4 DEF DisplayInv

\* Predicting the frames from first to the last one again.
LEMMA ResimulatedRing ==
  ASSUME DisplayInv, NEW first \in Nat, NEW n \in Nat, n = dspLast - first + 1,
         n <= DrawnCapacity, NEW y \in Int
  PROVE  /\ PredictedRing(Dsp!Resimulated(first, y), dspWrites + n)
         /\ \A f \in DOMAIN Dsp!Resimulated(first, y) :
              \/ f \in first .. dspLast /\ Dsp!Resimulated(first, y)[f].gen > dspWrites
              \/ f \in DOMAIN dspPred /\ Dsp!Resimulated(first, y)[f] = dspPred[f]
         /\ first .. dspLast \subseteq DOMAIN Dsp!Resimulated(first, y)
         /\ \A f \in first .. dspLast :
              Dsp!Resimulated(first, y)[f] = [val |-> y, gen |-> dspWrites + 1 + (f - first)]
<1> DEFINE q == Dsp!Resimulated(first, y)
           kept == {g \in DOMAIN dspPred :
                      \A h \in first .. dspLast : g % DrawnCapacity # h % DrawnCapacity}
<1>0. /\ dspLast \in Nat /\ dspWrites \in Nat /\ DOMAIN dspPred \subseteq Nat
      /\ DrawnCapacity \in Nat /\ DrawnCapacity > 0
  BY DrawnConstants DEF DisplayInv, PredictedRing
<1>1. q = [f \in kept \cup first .. dspLast |->
             IF f \in first .. dspLast THEN [val |-> y, gen |-> dspWrites + 1 + (f - first)]
             ELSE dspPred[f]]
  BY DEF Dsp!Resimulated
<1> HIDE DEF q
<1>2. \A f \in first .. dspLast :
        /\ f \in DOMAIN q /\ q[f] = [val |-> y, gen |-> dspWrites + 1 + (f - first)]
        /\ q[f] \in [val : Int, gen : 1 .. (dspWrites + n)] /\ q[f].gen > dspWrites
  BY <1>0, <1>1
<1>3. \A f \in DOMAIN q : f \notin first .. dspLast =>
        /\ f \in kept /\ q[f] = dspPred[f] /\ q[f] \in [val : Int, gen : 1 .. (dspWrites + n)]
  <2> SUFFICES ASSUME NEW f \in DOMAIN q, f \notin first .. dspLast
               PROVE  f \in kept /\ q[f] = dspPred[f]
                      /\ q[f] \in [val : Int, gen : 1 .. (dspWrites + n)]
    OBVIOUS
  <2>1. f \in kept /\ q[f] = dspPred[f]
    BY <1>1
  <2>2. dspPred[f] \in [val : Int, gen : 1 .. dspWrites]
    BY <2>1 DEF DisplayInv, PredictedRing
  <2>3. 1 .. dspWrites \subseteq 1 .. (dspWrites + n)
    BY <1>0
  <2> QED BY <2>1, <2>2, <2>3
<1>4. \A f, g \in first .. dspLast : f % DrawnCapacity = g % DrawnCapacity => f = g
  <2>1. dspLast - first + 1 <= DrawnCapacity /\ dspLast \in Int
    BY <1>0
  <2> QED BY <1>0, <2>1, SameSlotWithin, Zenon
<1>5. OnePerSlot(q)
  <2> SUFFICES ASSUME NEW f \in DOMAIN q, NEW g \in DOMAIN q,
                      f % DrawnCapacity = g % DrawnCapacity
               PROVE  f = g
    BY DEF OnePerSlot
  <2>1. CASE f \in first .. dspLast /\ g \in first .. dspLast
    BY <1>4, <2>1
  <2>2. CASE f \in first .. dspLast /\ g \notin first .. dspLast
    BY <1>3, <2>2
  <2>3. CASE f \notin first .. dspLast /\ g \in first .. dspLast
    BY <1>3, <2>3
  <2>4. CASE f \notin first .. dspLast /\ g \notin first .. dspLast
    <3>1. f \in DOMAIN dspPred /\ g \in DOMAIN dspPred
      BY <1>3, <2>4
    <3> QED BY <3>1 DEF DisplayInv, PredictedRing, OnePerSlot
  <2> QED BY <2>1, <2>2, <2>3, <2>4
<1>6. q = [f \in DOMAIN q |-> q[f]] /\ DOMAIN q \subseteq Nat
  BY <1>0, <1>1
<1>7. PredictedRing(q, dspWrites + n)
  BY <1>2, <1>3, <1>5, <1>6 DEF PredictedRing
<1> QED BY <1>2, <1>3, <1>7 DEF q

\* A frame is predicted, after a rollback or without one.
LEMMA RunFrameKeeps ==
  ASSUME DisplayInv, NEW first \in 1 .. DrawnFrames, NEW y \in DrawnValues, NEW x \in DrawnValues,
         Dsp!RunFrame(first, y, x)
  PROVE  DisplayInv'
<1> DEFINE n == dspLast - first + 1
           q == Dsp!Resimulated(first, y)
           new == [val |-> x, gen |-> dspWrites + n + 1]
<1>0. /\ dspLast \in Nat /\ dspWrites \in Nat /\ dspClock \in Nat
      /\ first \in Nat /\ n \in Nat /\ n <= DrawnCapacity
      /\ x \in Int /\ y \in Int /\ dspMode = "Predict"
  BY DrawnConstants DEF Dsp!RunFrame, DisplayInv
<1>1. /\ dspClock' = dspClock + 1 /\ dspLast' = dspClock + 1
      /\ dspPred' = Dsp!Put(q, dspClock + 1, new)
      /\ dspWrites' = dspWrites + n + 1 /\ dspLive' = x /\ dspDrawn' = FALSE
      /\ dspRegular' = (dspRegular /\ dspDrawn /\ dspClock = dspLast)
      /\ UNCHANGED <<dspMode, dspReceived, dspPres, dspServer>>
  BY DEF Dsp!RunFrame
<1>2. dspError' \in Int
  <2>1. dspLast \in DOMAIN dspPred => dspPred[dspLast].val \in Int
    BY DEF DisplayInv, PredictedRing
  <2>2. dspError' = IF n > 0 /\ dspLast \in DOMAIN dspPred
                    THEN dspPred[dspLast].val - y ELSE dspError
    BY DEF Dsp!RunFrame, Dsp!ErrorOf
  <2> QED BY <1>0, <2>1, <2>2 DEF DisplayInv
<1>3. /\ PredictedRing(q, dspWrites + n)
      /\ \A f \in DOMAIN q : q[f].gen > dspWrites \/ (f \in DOMAIN dspPred /\ q[f] = dspPred[f])
  BY <1>0, ResimulatedRing
<1> HIDE DEF q
<1>4. PredictedRing(dspPred', dspWrites')
  <2>1. /\ dspWrites + n \in Nat /\ dspWrites + n + 1 \in Nat /\ dspWrites + n <= dspWrites + n + 1
        /\ new \in [val : Int, gen : 1 .. (dspWrites + n + 1)] /\ dspClock + 1 \in Nat
    BY <1>0
  <2> HIDE DEF n, new
  <2> QED BY <1>1, <1>3, <2>1, PutPredicted
<1>5. PresentedRing(dspPres', dspWrites')
  <2>1. dspWrites' \in Nat /\ dspWrites <= dspWrites'
    BY <1>0, <1>1
  <2> QED BY <1>0, <1>1, <2>1, PresentedLater DEF DisplayInv
<1>6. Fades(dspPred', dspPres')
  <2>1. \A f \in DOMAIN dspPred' :
          dspPred'[f].gen > dspWrites \/ (f \in DOMAIN dspPred /\ dspPred'[f] = dspPred[f])
    <3> SUFFICES ASSUME NEW f \in DOMAIN dspPred'
                 PROVE  dspPred'[f].gen > dspWrites \/ (f \in DOMAIN dspPred /\ dspPred'[f] = dspPred[f])
      OBVIOUS
    <3>1. CASE f = dspClock + 1
      <4>1. dspPred'[f] = new
        BY <1>1, <3>1 DEF Dsp!Put
      <4> QED BY <1>0, <4>1
    <3>2. CASE f # dspClock + 1
      <4>1. f \in DOMAIN q /\ dspPred'[f] = q[f]
        BY <1>1, <3>2 DEF Dsp!Put
      <4> QED BY <1>3, <4>1
    <3> QED BY <3>1, <3>2
  <2>2. dspWrites' \in Nat
    BY <1>0, <1>1
  <2> QED BY <1>0, <1>1, <1>4, <2>1, <2>2, RewrittenFades DEF DisplayInv
<1>7. DrawnSoFar'
  <2> SUFFICES ASSUME dspRegular' = TRUE
               PROVE  \A f \in DOMAIN dspPres : f <= dspClock + 1
    BY <1>1 DEF DrawnSoFar
  <2>1. dspRegular = TRUE /\ dspClock = dspLast
    BY <1>1
  <2>2. \A f \in DOMAIN dspPres : f \in Nat /\ f <= dspLast
    BY <1>0, <2>1 DEF DisplayInv, DrawnSoFar, PresentedRing
  <2> QED BY <1>0, <2>1, <2>2
<1>9. dspLast' \in Nat /\ dspLast' # 0 /\ dspLast' \in DOMAIN dspPred' /\ dspWrites' \in Nat
      /\ dspClock' \in Nat /\ dspLive' \in Int
  BY <1>0, <1>1 DEF Dsp!Put
<1> QED BY <1>1, <1>2, <1>4, <1>5, <1>6, <1>7, <1>9 DEF DisplayInv

\* A record in Snap mode.
LEMMA SnapRecordKeeps ==
  ASSUME DisplayInv, NEW f \in 1 .. DrawnFrames, NEW x \in DrawnValues, Dsp!SnapRecord(f, x)
  PROVE  DisplayInv'
<1>1. /\ dspReceived' = f /\ dspLive' = x /\ dspError' = dspLive - x
      /\ UNCHANGED <<dspMode, dspClock, dspLast, dspPred, dspPres, dspWrites, dspRegular,
                     dspDrawn, dspServer>>
  BY DEF Dsp!SnapRecord, Dsp!ErrorOf
<1>2. dspReceived' \in Nat /\ dspLive' \in Int /\ dspError' \in Int
  BY <1>1, DrawnConstants DEF DisplayInv
<1>3. DrawnSoFar'
  BY <1>1 DEF DrawnSoFar, DisplayInv
<1> QED BY <1>1, <1>2, <1>3 DEF DisplayInv

\* The entity leaves prediction.
LEMMA ToSnapKeeps ==
  ASSUME DisplayInv, NEW f \in 1 .. DrawnFrames, NEW x \in DrawnValues, Dsp!TransitionToSnap(f, x)
  PROVE  DisplayInv'
<1>1. /\ dspReceived' = f /\ dspLive' = x /\ dspError' = 0 /\ dspMode' = "Snap"
      /\ UNCHANGED <<dspClock, dspLast, dspPred, dspPres, dspWrites, dspDrawn, dspServer>>
  BY DEF Dsp!TransitionToSnap
<1>2. dspReceived' \in Nat /\ dspLive' \in Int /\ dspError' \in Int
  BY <1>1, DrawnConstants DEF DisplayInv
<1>3. DrawnSoFar'
  BY <1>1 DEF DrawnSoFar
<1> QED BY <1>1, <1>2, <1>3 DEF DisplayInv

\* Prediction starts from the frame received last.
LEMMA ToPredictKeeps ==
  ASSUME DisplayInv, Dsp!TransitionToPredict
  PROVE  DisplayInv'
<1> DEFINE new == [val |-> dspLive, gen |-> dspWrites + 1]
<1>0. /\ dspWrites \in Nat /\ dspClock \in Nat /\ dspReceived \in Nat /\ dspReceived # 0
      /\ dspLive \in Int
  BY DEF Dsp!TransitionToPredict, DisplayInv
<1>1. /\ dspMode' = "Predict" /\ dspError' = 0 /\ dspWrites' = dspWrites + 1
      /\ dspPred' = Dsp!Put(dspPred, dspReceived, new)
      /\ dspLast' = dspReceived /\ dspDrawn' = FALSE
      /\ dspClock' = IF dspClock < dspReceived THEN dspReceived ELSE dspClock
      /\ dspRegular' = (dspPres = <<>>)
      /\ UNCHANGED <<dspLive, dspReceived, dspPres, dspServer>>
  BY DEF Dsp!TransitionToPredict
<1>2. PredictedRing(dspPred', dspWrites')
  <2>1. dspWrites + 1 \in Nat /\ dspWrites <= dspWrites + 1
        /\ new \in [val : Int, gen : 1 .. (dspWrites + 1)]
    BY <1>0
  <2> HIDE DEF new
  <2> QED BY <1>0, <1>1, <2>1, PutPredicted DEF DisplayInv
<1>3. PresentedRing(dspPres', dspWrites')
  <2>1. dspWrites' \in Nat /\ dspWrites <= dspWrites'
    BY <1>0, <1>1
  <2> QED BY <1>0, <1>1, <2>1, PresentedLater DEF DisplayInv
<1>4. Fades(dspPred', dspPres')
  <2>1. \A f \in DOMAIN dspPred' :
          dspPred'[f].gen > dspWrites \/ (f \in DOMAIN dspPred /\ dspPred'[f] = dspPred[f])
    BY <1>0, <1>1 DEF Dsp!Put
  <2>2. dspWrites' \in Nat
    BY <1>0, <1>1
  <2> QED BY <1>0, <1>1, <1>2, <2>1, <2>2, RewrittenFades DEF DisplayInv
<1>5. DrawnSoFar'
  <2> SUFFICES ASSUME dspPres = <<>> PROVE DOMAIN dspPres = {}
    BY <1>1 DEF DrawnSoFar
  <2> QED OBVIOUS
<1>6. dspLast' \in Nat /\ dspLast' # 0 /\ dspLast' \in DOMAIN dspPred' /\ dspWrites' \in Nat
      /\ dspClock' \in Nat
  BY <1>0, <1>1 DEF Dsp!Put
<1> QED BY <1>1, <1>2, <1>3, <1>4, <1>5, <1>6 DEF DisplayInv

\* A step of the server captures its frame.
LEMMA ServerStepCaptures ==
  ASSUME DisplayInv, NEW world, Dsp!ServerStep(world)
  PROVE  /\ dspServer.frame \in Nat /\ dspServer'.frame = dspServer.frame + 1
         /\ dspServer'.current = [frame |-> dspServer.frame + 1, world |-> world]
         /\ dspServer'.previous = dspServer.current
         /\ dspServer' = [frame |-> dspServer'.frame, world |-> dspServer'.world,
                          previous |-> dspServer'.previous, current |-> dspServer'.current]
<1>2. PICK fr, wo, pr, cu :
        /\ dspServer = [frame |-> fr, world |-> wo, previous |-> pr, current |-> cu]
        /\ fr \in Nat
  BY DEF DisplayInv
<1>3. cu.frame = fr
  BY <1>2 DEF DisplayInv
<1>4. PICK t : t = [dspServer EXCEPT !.frame = @ + 1, !.world = world]
  OBVIOUS
<1>5. /\ t.frame = fr + 1 /\ t.world = world /\ t.previous = pr /\ t.current = cu
      /\ t = [frame |-> t.frame, world |-> t.world, previous |-> t.previous,
              current |-> t.current]
  BY <1>2, <1>4
<1>6. dspServer' = [t EXCEPT !.previous = cu, !.current = [frame |-> fr + 1, world |-> world]]
  <2>1. dspServer' = Dsp!Captured(t, world)
    BY <1>4, Zenon DEF Dsp!ServerStep
  <2>2. t.current.frame # t.frame
    BY <1>2, <1>3, <1>5
  <2> QED BY <1>5, <2>1, <2>2 DEF Dsp!Captured
<1>7. /\ dspServer'.frame = fr + 1 /\ dspServer'.previous = cu
      /\ dspServer'.current = [frame |-> fr + 1, world |-> world]
      /\ dspServer' = [frame |-> dspServer'.frame, world |-> dspServer'.world,
                       previous |-> dspServer'.previous, current |-> dspServer'.current]
  BY <1>5, <1>6
<1> QED BY <1>2, <1>7

\* The server's frames.
LEMMA ServerKeeps ==
  ASSUME DisplayInv,
         Dsp!CaptureAgain \/ (\E world \in [DrawnEntities -> DrawnValues \cup {Dsp!None, Dsp!Gone}] :
                                Dsp!ServerStep(world))
  PROVE  DisplayInv'
<1>1. UNCHANGED <<dspMode, dspLive, dspClock, dspReceived, dspLast, dspPred, dspPres, dspWrites,
                  dspError, dspRegular, dspDrawn>>
  BY DEF Dsp!CaptureAgain, Dsp!ServerStep, Dsp!entityVars
<1>2. /\ dspServer' = [frame |-> dspServer'.frame, world |-> dspServer'.world,
                       previous |-> dspServer'.previous, current |-> dspServer'.current]
      /\ dspServer'.frame \in Nat /\ dspServer'.current.frame = dspServer'.frame
  <2>1. CASE Dsp!CaptureAgain
    BY <2>1 DEF Dsp!CaptureAgain, Dsp!Captured, DisplayInv
  <2>2. CASE \E world \in [DrawnEntities -> DrawnValues \cup {Dsp!None, Dsp!Gone}] :
               Dsp!ServerStep(world)
    <3>1. PICK world : Dsp!ServerStep(world)
      BY <2>2
    <3>2. /\ dspServer'.frame = dspServer.frame + 1 /\ dspServer.frame \in Nat
          /\ dspServer'.current = [frame |-> dspServer.frame + 1, world |-> world]
          /\ dspServer' = [frame |-> dspServer'.frame, world |-> dspServer'.world,
                           previous |-> dspServer'.previous, current |-> dspServer'.current]
      BY <3>1, ServerStepCaptures
    <3>3. dspServer'.current.frame = dspServer.frame + 1
      BY <3>2
    <3> QED BY <3>2, <3>3
  <2> QED BY <2>1, <2>2
<1>3. DrawnSoFar'
  BY <1>1 DEF DrawnSoFar, DisplayInv
<1> QED BY <1>1, <1>2, <1>3 DEF DisplayInv

-----------------------------------------------------------------------------
\* Every step of the display keeps its invariant.
LEMMA DisplayKeeps ==
  ASSUME DisplayInv, Dsp!Next
  PROVE  DisplayInv'
<1>1. CASE \E passed \in BOOLEAN : Dsp!Sample(passed)
  BY <1>1, SampleKeeps
<1>2. CASE \E first \in 1 .. DrawnFrames : \E y \in DrawnValues : \E x \in DrawnValues :
             Dsp!RunFrame(first, y, x)
  BY <1>2, RunFrameKeeps
<1>3. CASE \E f \in 1 .. DrawnFrames : \E x \in DrawnValues :
             Dsp!SnapRecord(f, x) \/ Dsp!TransitionToSnap(f, x)
  BY <1>3, SnapRecordKeeps, ToSnapKeeps
<1>4. CASE Dsp!TransitionToPredict
  BY <1>4, ToPredictKeeps
<1>5. CASE \E world \in [DrawnEntities -> DrawnValues \cup {Dsp!None, Dsp!Gone}] :
             Dsp!ServerStep(world)
  BY <1>5, ServerKeeps
<1>6. CASE Dsp!CaptureAgain
  BY <1>6, ServerKeeps
<1> QED BY <1>1, <1>2, <1>3, <1>4, <1>5, <1>6, Zenon DEF Dsp!Next

\* It holds from the start.
LEMMA DisplayStarts ==
  ASSUME Dsp!Init
  PROVE  DisplayInv
<1>1. /\ dspMode = "Snap" /\ dspLive \in DrawnValues /\ dspClock = 0 /\ dspReceived = 0
      /\ dspLast = 0 /\ dspPred = <<>> /\ dspPres = <<>> /\ dspWrites = 0 /\ dspError = 0
  BY DEF Dsp!Init
<1>2. DOMAIN dspPred = {} /\ DOMAIN dspPres = {}
  BY <1>1
<1>3. PredictedRing(dspPred, dspWrites)
  BY <1>1, <1>2 DEF PredictedRing, OnePerSlot
<1>4. PresentedRing(dspPres, dspWrites)
  BY <1>1, <1>2 DEF PresentedRing, OnePerSlot
<1>5. Fades(dspPred, dspPres)
  BY <1>2 DEF Fades
<1>6. DrawnSoFar
  BY <1>1 DEF DrawnSoFar
<1>7. /\ dspServer = [frame |-> dspServer.frame, world |-> dspServer.world,
                      previous |-> dspServer.previous, current |-> dspServer.current]
      /\ dspServer.frame \in Nat /\ dspServer.current.frame = dspServer.frame
  BY DEF Dsp!Init
<1> QED BY <1>1, <1>3, <1>4, <1>5, <1>6, <1>7, DrawnConstants DEF DisplayInv

\* A step of the display or none at all.
LEMMA DisplaySteps ==
  ASSUME [MCNext]_<<part, vars, drawnVars, dspServer, playedVars>>
  PROVE  Dsp!Next \/ UNCHANGED <<drawnVars, dspServer>>
BY DEF MCNext

LEMMA DisplayStutters ==
  ASSUME DisplayInv, UNCHANGED <<drawnVars, dspServer>>
  PROVE  DisplayInv'
<1>1. UNCHANGED <<dspMode, dspLive, dspClock, dspReceived, dspLast, dspPred, dspPres, dspWrites,
                  dspError, dspRegular, dspDrawn, dspServer>>
  BY DEF drawnVars
<1>2. DrawnSoFar'
  BY <1>1 DEF DrawnSoFar, DisplayInv
<1> QED BY <1>1, <1>2 DEF DisplayInv

LEMMA DisplayInvariant == MCSpec => []DisplayInv
<1>1. MCInit => DisplayInv
  BY DisplayStarts DEF MCInit
<1>2. DisplayInv /\ [MCNext]_<<part, vars, drawnVars, dspServer, playedVars>> => DisplayInv'
  BY DisplaySteps, DisplayKeeps, DisplayStutters
<1> QED BY <1>1, <1>2, PTL DEF MCSpec

\* A correction fades.
THEOREM CorrectionsFade == MCSpec => []CorrectionFades
<1>1. DisplayInv => CorrectionFades
  <2> SUFFICES ASSUME DisplayInv,
                      NEW f \in DOMAIN dspPres \cap DOMAIN dspPred,
                      f + 1 \in DOMAIN dspPres \cap DOMAIN dspPred, ~Dsp!Stale(f + 1),
                      dspPred[f].gen < dspPred[f + 1].gen
               PROVE  Left(dspPred, dspPres, f + 1) <=
                        IF Left(dspPred, dspPres, f) > 0 THEN Left(dspPred, dspPres, f) - 1 ELSE 0
    BY DEF CorrectionFades, Dsp!CorrectionFades, Left
  <2>1. dspPres[f + 1].origin.gen = dspPred[f + 1].gen
    BY DEF Dsp!Stale, Dsp!Origin
  <2>2. /\ dspPres[f].val \in Int /\ dspPred[f].val \in Int
        /\ dspPres[f + 1].val \in Int /\ dspPred[f + 1].val \in Int
    BY DEF DisplayInv, PredictedRing, PresentedRing
  <2>3. dspPres[f + 1].val = dspPred[f + 1].val =>
          /\ Left(dspPred, dspPres, f + 1) = 0
          /\ Left(dspPred, dspPres, f) \in Int
    BY <2>2 DEF Left, Dsp!Abs
  <2> QED BY <2>1, <2>3 DEF DisplayInv, Fades
<1> QED BY <1>1, DisplayInvariant, PTL

-----------------------------------------------------------------------------
\* The frame that is predicted next begins where the last one ended.
LEMMA RunFrameMovesOn ==
  ASSUME DisplayInv, DrawnCapacity > 1,
         NEW first \in 1 .. DrawnFrames, NEW y \in DrawnValues, NEW x \in DrawnValues,
         Dsp!RunFrame(first, y, x), dspLast' = dspLast + 1, dspRegular', Dsp!VisibleError = 0
  PROVE  Dsp!Look'.floor = Dsp!Look.next
<1> DEFINE n == dspLast - first + 1
           q == Dsp!Resimulated(first, y)
           c == DrawnCapacity
<1>0. /\ dspLast \in Nat /\ dspWrites \in Nat /\ dspClock \in Nat
      /\ first \in Nat /\ n \in Nat /\ n <= c /\ c \in Nat
      /\ x \in Int /\ y \in Int /\ dspMode = "Predict" /\ dspLast # 0
      /\ dspError \in Int
  BY DrawnConstants DEF Dsp!RunFrame, DisplayInv
<1>1. /\ dspPred' = Dsp!Put(q, dspLast + 1, [val |-> x, gen |-> dspWrites + n + 1])
      /\ n = 0 => dspError' = dspError
      /\ dspRegular = TRUE /\ dspDrawn = TRUE /\ dspClock = dspLast
      /\ UNCHANGED <<dspMode, dspPres>>
  <2>1. /\ dspPred' = Dsp!Put(q, dspClock + 1, [val |-> x, gen |-> dspWrites + n + 1])
        /\ dspLast' = dspClock + 1
        /\ UNCHANGED <<dspMode, dspPres>>
    BY DEF Dsp!RunFrame
  <2>2. dspClock = dspLast
    BY <1>0, <2>1
  <2>3. dspRegular' = (dspRegular /\ dspDrawn /\ dspClock = dspLast)
    BY DEF Dsp!RunFrame
  <2>4. dspRegular = TRUE /\ dspDrawn = TRUE
    BY <2>2, <2>3
  <2>5. n = 0 => dspError' = dspError
    BY DEF Dsp!RunFrame
  <2> QED BY <2>1, <2>2, <2>4, <2>5
<1>2. dspLast \in DOMAIN dspPres /\ \A f \in DOMAIN dspPres : f \in Nat /\ f <= dspLast
  BY <1>0, <1>1 DEF DisplayInv, DrawnSoFar, PresentedRing
<1>3. PICK shown \in PresentedFrame(dspWrites) : shown = dspPres[dspLast]
  BY <1>2 DEF DisplayInv, PresentedRing, PresentedFrame
<1>4. Dsp!Look.next = shown.val
  <2>1. Dsp!IsPredicted
    BY <1>0, PredictModeIsDrawn
  <2>2. Dsp!Current = shown
    BY <1>2, <1>3 DEF Dsp!Current
  <2>3. shown.val \in Int
    BY <1>3 DEF PresentedFrame
  <2> QED BY <2>1, <2>2, <2>3 DEF Dsp!Look, Dsp!PredictedLook
<1>5. dspLast \in DOMAIN q /\ (n > 0 => q[dspLast].gen > dspWrites)
                           /\ (n = 0 => q[dspLast] = dspPred[dspLast])
  <2>1. CASE n > 0
    <3>1. dspLast \in first .. dspLast
      BY <1>0, <2>1
    <3>2. q[dspLast] = [val |-> y, gen |-> dspWrites + 1 + (dspLast - first)] /\ dspLast \in DOMAIN q
      BY <1>0, <3>1, ResimulatedRing
    <3> QED BY <1>0, <2>1, <3>2
  <2>2. CASE n = 0
    <3>1. first .. dspLast = {}
      BY <1>0, <2>2
    <3>2. dspLast \in DOMAIN dspPred
      BY <1>0 DEF DisplayInv
    <3> QED BY <2>2, <3>1, <3>2 DEF Dsp!Resimulated
  <2> QED BY <1>0, <2>1, <2>2
<1> HIDE DEF q
<1>6. dspLast % c # (dspLast + 1) % c
  <2>1. (dspLast + 1) - dspLast + 1 <= c /\ dspLast + 1 \in Int /\ c > 0
        /\ dspLast \in dspLast .. (dspLast + 1) /\ dspLast + 1 \in dspLast .. (dspLast + 1)
        /\ dspLast # dspLast + 1
    BY <1>0
  <2> QED BY <1>0, <2>1, SameSlotWithin, Zenon
<1>7. /\ dspLast + 1 \in DOMAIN dspPred'
      /\ dspLast \in DOMAIN dspPred' /\ dspPred'[dspLast] = q[dspLast]
  BY <1>0, <1>1, <1>5, <1>6 DEF Dsp!Put
<1>8. dspLast' - 1 = dspLast /\ dspLast' # 0 /\ dspLast' > 0
  BY <1>0
<1>9. Dsp!IsPredicted'
  <2>1. DOMAIN dspPred' # {}
    BY <1>7
  <2>2. dspPred' # <<>>
    BY <2>1
  <2> QED BY <1>0, <1>1, <1>7, <1>8, <2>2 DEF Dsp!IsPredicted, Dsp!HasCurrent
<1>10. Dsp!HasPrevious' /\ Dsp!Previous' = shown
  BY <1>1, <1>2, <1>3, <1>8 DEF Dsp!HasPrevious, Dsp!Previous, Dsp!Ensured
<1>11. dspLast' \notin DOMAIN dspPres'
  BY <1>0, <1>1, <1>2
<1>12. CASE Dsp!Anchors'
  <2>1. Dsp!Current' = [val |-> dspPred'[dspLast'].val + Dsp!BoundaryError(dspLast - 1, Dsp!Previous.val)',
                        origin |-> Dsp!Origin(dspLast)', corrected |-> TRUE]
    BY <1>7, <1>8, <1>11, <1>12 DEF Dsp!Current
  <2>2. Dsp!VisibleError' = 0
    BY <2>1 DEF Dsp!VisibleError
  <2>3. shown.val \in Int
    BY <1>3 DEF PresentedFrame
  <2> QED BY <1>4, <1>9, <1>10, <2>2, <2>3 DEF Dsp!Look, Dsp!PredictedLook
<1>13. CASE ~Dsp!Anchors'
  <2>1. shown.corrected = FALSE /\ ~Dsp!Stale(dspLast - 1)'
    BY <1>3, <1>10, <1>13 DEF Dsp!Anchors, PresentedFrame
  <2>2. shown.origin = [val |-> q[dspLast].val, gen |-> q[dspLast].gen]
    BY <1>1, <1>2, <1>3, <1>7, <1>8, <2>1 DEF Dsp!Stale, Dsp!Origin
  <2>3. n = 0
    <3>1. shown.origin.gen <= dspWrites /\ shown.origin.gen \in Nat
      BY <1>0, <1>3 DEF PresentedFrame
    <3>2. shown.origin.gen = q[dspLast].gen
      BY <2>2
    <3> QED BY <1>0, <1>5, <3>1, <3>2
  <2>4. ~Dsp!Stale(dspLast)
    <3>1. dspLast \in DOMAIN dspPred
      BY <1>0 DEF DisplayInv
    <3> QED BY <1>2, <1>3, <1>5, <2>2, <2>3, <3>1 DEF Dsp!Stale, Dsp!Origin
  <2>5. dspError = 0
    <3>1. Dsp!Current.corrected = FALSE
      BY <1>2, <1>3, <2>1 DEF Dsp!Current
    <3> QED BY <2>4, <3>1 DEF Dsp!VisibleError
  <2>6. Dsp!VisibleError' = 0
    BY <1>1, <2>3, <2>5 DEF Dsp!VisibleError
  <2>7. shown.val \in Int
    BY <1>3 DEF PresentedFrame
  <2> QED BY <1>4, <1>9, <1>10, <2>6, <2>7 DEF Dsp!Look, Dsp!PredictedLook
<1> QED BY <1>12, <1>13

\* A predicted entity that is drawn in every frame moves on.
LEMMA PredictedMovesOn ==
  ASSUME DisplayInv, DrawnCapacity > 1, Dsp!Next, Dsp!IsPredicted,
         dspLast' = dspLast + 1, dspRegular', Dsp!VisibleError = 0
  PROVE  Dsp!Look'.floor = Dsp!Look.next
<1>0. dspMode = "Predict" /\ dspLast' # dspLast
  BY DEF Dsp!IsPredicted, DisplayInv
<1>1. CASE \E first \in 1 .. DrawnFrames : \E y \in DrawnValues : \E x \in DrawnValues :
             Dsp!RunFrame(first, y, x)
  BY <1>1, RunFrameMovesOn
<1>2. CASE \E passed \in BOOLEAN : Dsp!Sample(passed)
  BY <1>0, <1>2 DEF Dsp!Sample
<1>3. CASE \E f \in 1 .. DrawnFrames : \E x \in DrawnValues :
             Dsp!SnapRecord(f, x) \/ Dsp!TransitionToSnap(f, x)
  BY <1>0, <1>3 DEF Dsp!SnapRecord, Dsp!TransitionToSnap
<1>4. CASE Dsp!TransitionToPredict
  BY <1>0, <1>4 DEF Dsp!TransitionToPredict
<1>5. CASE \/ \E world \in [DrawnEntities -> DrawnValues \cup {Dsp!None, Dsp!Gone}] :
                Dsp!ServerStep(world)
           \/ Dsp!CaptureAgain
  BY <1>0, <1>5 DEF Dsp!ServerStep, Dsp!CaptureAgain, Dsp!entityVars
<1> QED BY <1>1, <1>2, <1>3, <1>4, <1>5, Zenon DEF Dsp!Next

\* In Snap mode a step with no error left moves nothing.
LEMMA SnapMovesOn ==
  ASSUME DisplayInv, Dsp!Next, dspMode = "Snap", dspMode' = "Snap", dspError = 0
  PROVE  Dsp!Look' = Dsp!Look
<1>0. ~Dsp!IsPredicted /\ ~Dsp!IsPredicted' /\ dspLive \in Int
  BY DEF Dsp!IsPredicted, DisplayInv
<1>1. dspLive' + dspError' = dspLive + dspError
  <2>1. CASE \E passed \in BOOLEAN : Dsp!Sample(passed)
    BY <2>1 DEF Dsp!Sample, Dsp!BlendOut
  <2>2. CASE \E first \in 1 .. DrawnFrames : \E y \in DrawnValues : \E x \in DrawnValues :
               Dsp!RunFrame(first, y, x)
    BY <2>2 DEF Dsp!RunFrame
  <2>3. CASE \E f \in 1 .. DrawnFrames : \E x \in DrawnValues :
               Dsp!SnapRecord(f, x) \/ Dsp!TransitionToSnap(f, x)
    BY <1>0, <2>3, DrawnConstants DEF Dsp!SnapRecord, Dsp!TransitionToSnap, Dsp!ErrorOf
  <2>4. CASE Dsp!TransitionToPredict
    BY <2>4 DEF Dsp!TransitionToPredict
  <2>5. CASE \/ \E world \in [DrawnEntities -> DrawnValues \cup {Dsp!None, Dsp!Gone}] :
                  Dsp!ServerStep(world)
             \/ Dsp!CaptureAgain
    BY <2>5 DEF Dsp!ServerStep, Dsp!CaptureAgain, Dsp!entityVars
  <2> QED BY <2>1, <2>2, <2>3, <2>4, <2>5, Zenon DEF Dsp!Next
<1> QED BY <1>0, <1>1 DEF Dsp!Look, Dsp!LiveLook

\* What the server draws.
LEMMA ServerMovesOn ==
  ASSUME DisplayInv, Dsp!Next, NEW e \in DrawnEntities
  PROVE  /\ dspServer'.frame = dspServer.frame => Dsp!ServerLook(e)' = Dsp!ServerLook(e)
         /\ (/\ dspServer'.frame = dspServer.frame + 1
             /\ {dspServer.current.world[e], dspServer'.world[e]} \cap {Dsp!None, Dsp!Gone} = {})
              => Dsp!ServerLook(e)'.floor = Dsp!ServerLook(e).next
<1>1. CASE \E world \in [DrawnEntities -> DrawnValues \cup {Dsp!None, Dsp!Gone}] :
             Dsp!ServerStep(world)
  <2>1. PICK world : Dsp!ServerStep(world)
    BY <1>1
  <2>2. /\ dspServer'.frame = dspServer.frame + 1
        /\ dspServer'.previous = dspServer.current
    BY <2>1, ServerStepCaptures
  <2>3. dspServer.frame \in Nat /\ dspServer.frame + 1 # dspServer.frame
    BY DEF DisplayInv
  <2>4. Dsp!ServerLook(e).next = dspServer.current.world[e]
    BY DEF Dsp!ServerLook
  <2>5. dspServer.current.world[e] \notin {Dsp!None, Dsp!Gone}
          => Dsp!ServerLook(e)'.floor = dspServer.current.world[e]
    BY <2>2 DEF Dsp!ServerLook
  <2> QED BY <2>2, <2>3, <2>4, <2>5
<1>2. CASE dspServer' = dspServer
  <2>1. dspServer'.frame = dspServer.frame /\ dspServer.frame \in Nat
    BY <1>2 DEF DisplayInv
  <2> QED BY <1>2, <2>1 DEF Dsp!ServerLook
<1>3. CASE Dsp!CaptureAgain
  <2>1. dspServer' = dspServer
    BY <1>3 DEF Dsp!CaptureAgain, Dsp!Captured, DisplayInv
  <2> QED BY <1>2, <2>1
<1>4. CASE \E passed \in BOOLEAN : Dsp!Sample(passed)
  BY <1>2, <1>4 DEF Dsp!Sample
<1>5. CASE \E first \in 1 .. DrawnFrames : \E y \in DrawnValues : \E x \in DrawnValues :
             Dsp!RunFrame(first, y, x)
  BY <1>2, <1>5 DEF Dsp!RunFrame
<1>6. CASE \E f \in 1 .. DrawnFrames : \E x \in DrawnValues :
             Dsp!SnapRecord(f, x) \/ Dsp!TransitionToSnap(f, x)
  BY <1>2, <1>6 DEF Dsp!SnapRecord, Dsp!TransitionToSnap
<1>7. CASE Dsp!TransitionToPredict
  BY <1>2, <1>7 DEF Dsp!TransitionToPredict
<1> QED BY <1>1, <1>3, <1>4, <1>5, <1>6, <1>7, Zenon DEF Dsp!Next

\* What is drawn moves without a jump, with a ring of at least two frames: a ring
\* of one has lost the frame before the last one, from which a corrected frame
\* would follow.
THEOREM LookMovesOn == DrawnCapacity > 1 => (MCSpec => LookIsContinuous)
<1> SUFFICES ASSUME DrawnCapacity > 1 PROVE MCSpec => LookIsContinuous
  OBVIOUS
<1>1. DisplayInv /\ [MCNext]_<<part, vars, drawnVars, dspServer, playedVars>> => [Dsp!MovesOn]_(Dsp!vars)
  <2> SUFFICES ASSUME DisplayInv, [MCNext]_<<part, vars, drawnVars, dspServer, playedVars>>
               PROVE  Dsp!MovesOn \/ UNCHANGED Dsp!vars
    OBVIOUS
  <2>1. CASE Dsp!Next
    BY <2>1, PredictedMovesOn, SnapMovesOn, ServerMovesOn, Zenon DEF Dsp!MovesOn
  <2>2. CASE UNCHANGED <<drawnVars, dspServer>>
    BY <2>2 DEF drawnVars, Dsp!vars, Dsp!entityVars
  <2> QED BY <2>1, <2>2, DisplaySteps
<1> QED BY <1>1, DisplayInvariant, PTL DEF MCSpec, LookIsContinuous, Dsp!LookIsContinuous

-------------------------------------------------------------------------------
(* Buffered playback                                                            *)

\* The registry has every component of data, with its value there.
Agrees(local, data) ==
  \A c \in DOMAIN data : c \in DOMAIN local.data /\ local.data[c] = data[c]

\* The fields of what an application changes.
IsShown(sh) ==
  /\ sh = [reg |-> sh.reg, mask |-> sh.mask, cue |-> sh.cue, hist |-> sh.hist,
           erased |-> sh.erased]
  /\ sh.reg = [alive |-> sh.reg.alive, at |-> sh.reg.at, data |-> sh.reg.data]
  /\ sh.cue = [buffered |-> sh.cue.buffered, played |-> sh.cue.played]
  /\ sh.hist = [shown |-> sh.hist.shown, sound |-> sh.hist.sound,
                promised |-> sh.hist.promised, missed |-> sh.hist.missed,
                overrun |-> sh.hist.overrun]
  /\ sh.reg.alive \in BOOLEAN /\ sh.erased \in BOOLEAN
  /\ sh.hist.missed \in BOOLEAN /\ sh.hist.overrun \in BOOLEAN

\* A ring of frames up to n: what a frame does not push is as in the frame before
\* it, if the ring has that one.
PlayedRing(r, n) ==
  /\ DOMAIN r \subseteq 1 .. n
  /\ \A f \in DOMAIN r :
       /\ r[f].present \in BOOLEAN
       /\ f + 1 \in DOMAIN r /\ r[f + 1].present =>
            \A c \in DOMAIN r[f + 1].data \ r[f + 1].push :
              /\ r[f].present
              /\ c \in DOMAIN r[f].data
              /\ r[f].data[c] = r[f + 1].data[c]

\* The registry agrees with the frame it shows, and with what the next frame of the
\* ring does not push.
RegistryFollows(sh, r, n) ==
  /\ sh.reg.at \in 0 .. n
  /\ sh.reg.alive => Agrees(sh.reg, sh.hist.shown)
  /\ sh.erased => ~sh.reg.alive
  /\ ~sh.erased /\ sh.reg.at \in DOMAIN r /\ r[sh.reg.at].present =>
       Agrees(sh.reg, r[sh.reg.at].data)
  /\ ~sh.erased /\ sh.reg.at + 1 \in DOMAIN r /\ r[sh.reg.at + 1].present =>
       \A c \in DOMAIN r[sh.reg.at + 1].data \ r[sh.reg.at + 1].push :
         c \in DOMAIN sh.reg.data /\ sh.reg.data[c] = r[sh.reg.at + 1].data[c]

\* A cue was heard if it is in the played ones.
HeardAsPlayed(sh) ==
  /\ sh.hist.sound \in [1 .. PlayedFrames -> {0, 1}]
  /\ ~sh.erased => \A f \in 1 .. PlayedFrames : sh.hist.sound[f] = 1 <=> f \in sh.cue.played
  /\ sh.hist.promised \subseteq 1 .. PlayedFrames
  /\ sh.cue.buffered \subseteq Nat

\* The record in Snap mode is what the registry has.
SnapShown ==
  bufMode = "Snap" /\ Buf!Known /\ ~bufRec.erased =>
    IF bufRec.present THEN bufReg.alive /\ Agrees(bufReg, bufRec.data) ELSE ~bufReg.alive

\* A destroy is still to come, or nothing is there to be shown again.
DestroyAhead ==
  Buf!Buffered /\ ~bufRec.present /\ ~bufHist.missed =>
    \/ bufClock < bufRec.frame
    \/ ~bufReg.alive /\ \A f \in DOMAIN bufRing : ~bufRing[f].present

\* The entity of a record whose frame is over is there.
RecordShown ==
  Buf!Buffered /\ bufRec.present /\ ~bufHist.missed
    /\ (bufRec.frame <= bufApplied \/ bufRec.frame <= bufClock) => bufReg.alive

\* A promised cue was played, or waits for its frame, which the ring has.
CuesWait ==
  ~bufRec.erased /\ bufRec.present /\ ~bufHist.missed /\ ~bufHist.overrun =>
    \A g \in bufHist.promised :
      \/ g \in bufCue.played
      \/ /\ bufMode = "BufferedInterpolation" /\ g \in bufCue.buffered
         /\ g > bufClock /\ g \in DOMAIN bufRing

PlaybackInv ==
  /\ bufClock \in Nat /\ bufApplied \in Nat
  /\ bufMode \in {"Snap", "BufferedInterpolation"}
  /\ bufRec = [frame |-> bufRec.frame, data |-> bufRec.data, present |-> bufRec.present,
               mask |-> bufRec.mask, erased |-> bufRec.erased]
  /\ bufRec.frame \in Nat /\ bufRec.present \in BOOLEAN
  /\ IsShown(Buf!Shown)
  /\ PlayedRing(bufRing, bufRec.frame)
  /\ bufMode = "Snap" \/ bufRec.erased => DOMAIN bufRing = {}
  /\ Buf!Buffered => /\ bufRec.frame \in DOMAIN bufRing
                     /\ bufRing[bufRec.frame].present = bufRec.present
  /\ RegistryFollows(Buf!Shown, bufRing, bufRec.frame)
  /\ HeardAsPlayed(Buf!Shown)
  /\ SnapShown
  /\ DestroyAhead
  /\ RecordShown
  /\ CuesWait

\* The constants of the playback.
LEMMA PlayedConstants ==
  PlayedCapacity \in Nat /\ PlayedCapacity > 0 /\ PlayedFrames \in Nat
BY DrawnAssumption DEF Buf!BufferedAssumption

-----------------------------------------------------------------------------
(* What is shown                                                             *)

\* What applying a frame to the registry changes.
SampleShown(sh, t, f, s) ==
  /\ IsShown(t) /\ t.cue = sh.cue /\ t.erased = sh.erased
  /\ t.hist.sound = sh.hist.sound /\ t.hist.promised = sh.hist.promised
  /\ t.hist.missed = sh.hist.missed /\ t.hist.overrun = sh.hist.overrun
  /\ t.reg.at = f /\ t.reg.alive = (s.present = TRUE)
  /\ s.present = TRUE => /\ t.hist.shown = s.data
                         /\ t.reg.data = Buf!Pushed(sh.reg.data, sh.mask \ DOMAIN s.data, s.data,
                                                    Buf!PushSet(sh.reg.at, f, s))

LEMMA ApplySampleFields ==
  ASSUME NEW sh, IsShown(sh), NEW f, NEW s, s.present \in BOOLEAN
  PROVE  SampleShown(sh, Buf!ApplySample(sh, f, s), f, s)
<1>0. PICK t : t = Buf!ApplySample(sh, f, s)
  OBVIOUS
<1>1. CASE s.present = TRUE
  <2>1. PICK d : d = Buf!Pushed(sh.reg.data, sh.mask \ DOMAIN s.data, s.data,
                                Buf!PushSet(sh.reg.at, f, s))
    OBVIOUS
  <2>2. t = [sh EXCEPT !.reg = [alive |-> TRUE, at |-> f, data |-> d],
                       !.mask = DOMAIN s.data, !.hist.shown = s.data]
    BY <1>0, <1>1, <2>1 DEF Buf!ApplySample
  <2>3. /\ t.reg = [alive |-> TRUE, at |-> f, data |-> d]
        /\ t.cue = sh.cue /\ t.erased = sh.erased /\ t.mask = DOMAIN s.data
        /\ t.hist = [sh.hist EXCEPT !.shown = s.data]
        /\ t = [reg |-> t.reg, mask |-> t.mask, cue |-> t.cue, hist |-> t.hist,
                erased |-> t.erased]
    BY <2>2 DEF IsShown
  <2>4. /\ t.hist = [shown |-> t.hist.shown, sound |-> t.hist.sound,
                     promised |-> t.hist.promised, missed |-> t.hist.missed,
                     overrun |-> t.hist.overrun]
        /\ t.hist.shown = s.data /\ t.hist.sound = sh.hist.sound
        /\ t.hist.promised = sh.hist.promised
        /\ t.hist.missed = sh.hist.missed /\ t.hist.overrun = sh.hist.overrun
    BY <2>3 DEF IsShown
  <2>5. IsShown(t)
    BY <2>3, <2>4 DEF IsShown
  <2>6. t.reg.at = f /\ t.reg.alive = TRUE /\ t.reg.data = d
    BY <2>3
  <2>7. SampleShown(sh, t, f, s)
    BY <1>1, <2>1, <2>3, <2>4, <2>5, <2>6 DEF SampleShown
  <2> QED BY <1>0, <2>7
<1>2. CASE s.present = FALSE
  <2>2. t = [sh EXCEPT !.reg = [Buf!NoLocal EXCEPT !.at = f], !.mask = {},
                       !.hist.shown = Buf!NoData]
    BY <1>0, <1>2 DEF Buf!ApplySample
  <2>3. /\ t.reg = [alive |-> FALSE, at |-> f, data |-> Buf!NoData]
        /\ t.cue = sh.cue /\ t.erased = sh.erased
        /\ t.hist = [sh.hist EXCEPT !.shown = Buf!NoData]
        /\ t = [reg |-> t.reg, mask |-> t.mask, cue |-> t.cue, hist |-> t.hist,
                erased |-> t.erased]
    BY <2>2 DEF IsShown, Buf!NoLocal
  <2>4. /\ t.hist = [shown |-> t.hist.shown, sound |-> t.hist.sound,
                     promised |-> t.hist.promised, missed |-> t.hist.missed,
                     overrun |-> t.hist.overrun]
        /\ t.hist.sound = sh.hist.sound
        /\ t.hist.promised = sh.hist.promised
        /\ t.hist.missed = sh.hist.missed /\ t.hist.overrun = sh.hist.overrun
    BY <2>3 DEF IsShown
  <2>5. IsShown(t)
    BY <2>3, <2>4 DEF IsShown
  <2>6. t.reg.at = f /\ t.reg.alive = FALSE
    BY <2>3
  <2>7. SampleShown(sh, t, f, s)
    BY <1>2, <2>3, <2>4, <2>5, <2>6 DEF SampleShown
  <2> QED BY <1>0, <2>7
<1> QED BY <1>1, <1>2

\* What playing cues changes.
CuesPlayed(sh, t, cues) ==
  /\ IsShown(t) /\ t.reg = sh.reg /\ t.mask = sh.mask /\ t.erased = sh.erased
  /\ t.hist.shown = sh.hist.shown /\ t.hist.promised = sh.hist.promised
  /\ t.hist.missed = sh.hist.missed /\ t.hist.overrun = sh.hist.overrun
  /\ t.cue.buffered = sh.cue.buffered
  /\ sh.reg.alive = TRUE => t.cue.played = sh.cue.played \cup cues
  /\ sh.reg.alive = FALSE => t = sh
  /\ HeardAsPlayed(t)

LEMMA PlayCuesFields ==
  ASSUME NEW sh, IsShown(sh), HeardAsPlayed(sh), sh.erased => ~sh.reg.alive, NEW cues
  PROVE  CuesPlayed(sh, Buf!PlayCues(sh, cues), cues)
<1>0. PICK t : t = Buf!PlayCues(sh, cues)
  OBVIOUS
<1>1. CASE sh.reg.alive = TRUE
  <2>0. sh.erased = FALSE
    BY <1>1 DEF IsShown
  <2>1. PICK snd : snd = [f \in Buf!Frames |-> sh.hist.sound[f] +
                            (IF f \in Buf!Unplayed(sh, cues) THEN 1 ELSE 0)]
    OBVIOUS
  <2>2. t = [sh EXCEPT !.cue.played = @ \cup cues, !.hist.sound = snd]
    BY <1>0, <1>1, <2>1 DEF Buf!PlayCues
  <2>3. /\ t.reg = sh.reg /\ t.mask = sh.mask /\ t.erased = sh.erased
        /\ t.cue = [sh.cue EXCEPT !.played = @ \cup cues]
        /\ t.hist = [sh.hist EXCEPT !.sound = snd]
        /\ t = [reg |-> t.reg, mask |-> t.mask, cue |-> t.cue, hist |-> t.hist,
                erased |-> t.erased]
    BY <2>2 DEF IsShown
  <2>4. /\ t.hist = [shown |-> t.hist.shown, sound |-> t.hist.sound,
                     promised |-> t.hist.promised, missed |-> t.hist.missed,
                     overrun |-> t.hist.overrun]
        /\ t.hist.sound = snd /\ t.hist.shown = sh.hist.shown
        /\ t.hist.promised = sh.hist.promised
        /\ t.hist.missed = sh.hist.missed /\ t.hist.overrun = sh.hist.overrun
    BY <2>3 DEF IsShown
  <2>5. /\ t.cue = [buffered |-> t.cue.buffered, played |-> t.cue.played]
        /\ t.cue.buffered = sh.cue.buffered /\ t.cue.played = sh.cue.played \cup cues
    BY <2>3 DEF IsShown
  <2>6. IsShown(t)
    BY <2>3, <2>4, <2>5 DEF IsShown
  <2>7. \A f \in 1 .. PlayedFrames :
          snd[f] \in {0, 1} /\ (snd[f] = 1 <=> f \in sh.cue.played \cup cues)
    <3> SUFFICES ASSUME NEW f \in 1 .. PlayedFrames
                 PROVE  snd[f] \in {0, 1} /\ (snd[f] = 1 <=> f \in sh.cue.played \cup cues)
      OBVIOUS
    <3>1. sh.hist.sound[f] \in {0, 1} /\ (sh.hist.sound[f] = 1 <=> f \in sh.cue.played)
      BY <2>0 DEF HeardAsPlayed
    <3>2. snd[f] = sh.hist.sound[f] + (IF f \in cues \ sh.cue.played THEN 1 ELSE 0)
      BY <2>1 DEF Buf!Unplayed, Buf!Frames
    <3> QED BY <3>1, <3>2
  <2>8. snd \in [1 .. PlayedFrames -> {0, 1}]
    BY <2>1, <2>7 DEF Buf!Frames
  <2>9. HeardAsPlayed(t)
    BY <2>4, <2>5, <2>7, <2>8 DEF HeardAsPlayed
  <2> QED BY <1>0, <1>1, <2>3, <2>4, <2>5, <2>6, <2>9 DEF CuesPlayed
<1>2. CASE sh.reg.alive = FALSE
  BY <1>2 DEF CuesPlayed, Buf!PlayCues
<1> QED BY <1>1, <1>2 DEF IsShown

\* What is left of an erased entity.
EntityErased(sh, t) ==
  /\ IsShown(t) /\ t.erased = TRUE /\ t.reg.alive = FALSE /\ t.reg.at = 0
  /\ t.hist.sound = sh.hist.sound /\ t.hist.promised = sh.hist.promised
  /\ t.hist.missed = sh.hist.missed /\ t.hist.overrun = sh.hist.overrun
  /\ t.cue.buffered = {}

LEMMA EraseEntityFields ==
  ASSUME NEW sh, IsShown(sh)
  PROVE  EntityErased(sh, Buf!EraseEntity(sh))
<1>0. PICK t : t = Buf!EraseEntity(sh)
  OBVIOUS
<1>1. /\ t.reg = [alive |-> FALSE, at |-> 0, data |-> Buf!NoData]
      /\ t.cue = [buffered |-> {}, played |-> {}] /\ t.erased = TRUE /\ t.hist = sh.hist
      /\ t = [reg |-> t.reg, mask |-> t.mask, cue |-> t.cue, hist |-> t.hist,
              erased |-> t.erased]
  BY <1>0 DEF Buf!EraseEntity, IsShown, Buf!NoLocal, Buf!NoFrame
<1>2. t.reg.alive = FALSE /\ t.reg.at = 0
  BY <1>1
<1>3. IsShown(t)
  BY <1>1, <1>2 DEF IsShown
<1>4. EntityErased(sh, t)
  BY <1>1, <1>2, <1>3 DEF EntityErased
<1> QED BY <1>0, <1>4

\* What discarding the cues up to a frame changes.
CuesDiscarded(sh, t, f) ==
  /\ IsShown(t) /\ t.reg = sh.reg /\ t.mask = sh.mask /\ t.erased = sh.erased
  /\ t.hist = sh.hist /\ t.cue.played = sh.cue.played
  /\ t.cue.buffered = {g \in sh.cue.buffered : g > f}

LEMMA DiscardCuesFields ==
  ASSUME NEW sh, IsShown(sh), NEW f
  PROVE  CuesDiscarded(sh, Buf!DiscardCues(sh, f), f)
<1>0. PICK t : t = Buf!DiscardCues(sh, f)
  OBVIOUS
<1>1. PICK kept : kept = {g \in sh.cue.buffered : g > f}
  OBVIOUS
<1>2. t = [sh EXCEPT !.cue = [sh.cue EXCEPT !.buffered = kept]]
  BY <1>0, <1>1 DEF Buf!DiscardCues
<1>3. /\ t.reg = sh.reg /\ t.mask = sh.mask /\ t.erased = sh.erased /\ t.hist = sh.hist
      /\ t.cue = [sh.cue EXCEPT !.buffered = kept]
      /\ t = [reg |-> t.reg, mask |-> t.mask, cue |-> t.cue, hist |-> t.hist,
              erased |-> t.erased]
  BY <1>2 DEF IsShown
<1>4. /\ t.cue = [buffered |-> t.cue.buffered, played |-> t.cue.played]
      /\ t.cue.buffered = kept /\ t.cue.played = sh.cue.played
  BY <1>3 DEF IsShown
<1>5. IsShown(t)
  BY <1>3, <1>4 DEF IsShown
<1>6. CuesDiscarded(sh, t, f)
  BY <1>1, <1>3, <1>4, <1>5 DEF CuesDiscarded
<1> QED BY <1>0, <1>6

\* The registry after a frame of the ring was applied to it.
LEMMA SampleFollows ==
  ASSUME NEW r, NEW n \in Nat, PlayedRing(r, n), NEW m \in Nat, NEW sh, IsShown(sh),
         RegistryFollows(sh, r, m), NEW f \in DOMAIN r, r[f].present = TRUE, sh.erased = FALSE,
         NEW t, SampleShown(sh, t, f, r[f])
  PROVE  RegistryFollows(t, r, n)
<1>0. f \in 1 .. n /\ sh.reg.at \in Nat
  BY DEF PlayedRing, RegistryFollows
<1>1. PICK s : s = r[f]
  OBVIOUS
<1>2. PICK push : push = Buf!PushSet(sh.reg.at, f, s)
  OBVIOUS
<1>3. \A c \in DOMAIN s.data \ push : c \in DOMAIN sh.reg.data /\ sh.reg.data[c] = s.data[c]
  <2>1. CASE sh.reg.at + 1 = f
    BY <1>1, <1>2, <2>1 DEF Buf!PushSet, RegistryFollows
  <2>2. CASE sh.reg.at + 1 # f
    BY <1>2, <2>2 DEF Buf!PushSet
  <2> QED BY <2>1, <2>2
<1>4. t.reg.data = Buf!Pushed(sh.reg.data, sh.mask \ DOMAIN s.data, s.data, push)
  BY <1>1, <1>2 DEF SampleShown
<1>5. \A c \in DOMAIN s.data : c \in DOMAIN t.reg.data /\ t.reg.data[c] = s.data[c]
  <2>1. PICK old, mask, data : old = sh.reg.data /\ mask = sh.mask /\ data = s.data
    OBVIOUS
  <2>2. \A c \in DOMAIN data \ push : c \in DOMAIN old /\ old[c] = data[c]
    BY <1>3, <2>1
  <2>3. \A c \in DOMAIN data :
           /\ c \in DOMAIN Buf!Pushed(old, mask \ DOMAIN data, data, push)
           /\ Buf!Pushed(old, mask \ DOMAIN data, data, push)[c] = data[c]
    BY <2>2 DEF Buf!Pushed
  <2> QED BY <1>4, <2>1, <2>3
<1>6. t.reg.at = f /\ t.hist.shown = s.data /\ t.reg.alive = TRUE /\ t.erased = FALSE
  BY <1>1 DEF SampleShown
<1>7. Agrees(t.reg, s.data)
  BY <1>5 DEF Agrees
<1>8. f + 1 \in DOMAIN r /\ r[f + 1].present =>
        \A c \in DOMAIN r[f + 1].data \ r[f + 1].push :
          c \in DOMAIN t.reg.data /\ t.reg.data[c] = r[f + 1].data[c]
  <2> SUFFICES ASSUME f + 1 \in DOMAIN r, r[f + 1].present,
                      NEW c \in DOMAIN r[f + 1].data \ r[f + 1].push
               PROVE  c \in DOMAIN t.reg.data /\ t.reg.data[c] = r[f + 1].data[c]
    OBVIOUS
  <2>1. c \in DOMAIN s.data /\ s.data[c] = r[f + 1].data[c]
    BY <1>1 DEF PlayedRing
  <2> QED BY <1>5, <2>1
<1> QED BY <1>0, <1>1, <1>6, <1>7, <1>8 DEF RegistryFollows

-----------------------------------------------------------------------------
(* Frames that are applied                                                   *)

Playable(sh) ==
  IsShown(sh) /\ RegistryFollows(sh, bufRing, bufRec.frame) /\ HeardAsPlayed(sh)

\* What frames up to m leave of sh.
Replayed(sh, t, m) ==
  /\ t.hist.promised = sh.hist.promised
  /\ t.hist.missed = sh.hist.missed /\ t.hist.overrun = sh.hist.overrun
  /\ ~t.erased => /\ ~sh.erased
                  /\ sh.cue.played \subseteq t.cue.played
                  /\ sh.reg.alive => t.reg.alive
                  /\ \A g \in sh.cue.buffered : g > m => g \in t.cue.buffered
  /\ ~sh.reg.alive /\ (\A g \in DOMAIN bufRing : ~bufRing[g].present) => ~t.reg.alive
  /\ ~Buf!Buffered => t = sh

\* What the frame f leaves of sh.
FrameShown(sh, t, f) ==
  /\ Playable(t) /\ Replayed(sh, t, f)
  /\ ~t.erased /\ Buf!Buffered /\ f \in DOMAIN bufRing =>
       /\ bufRing[f].present /\ t.reg.alive
       /\ f \in sh.cue.buffered => f \in t.cue.played

\* The same entity shows the same.
LEMMA SameRegistryFollows ==
  ASSUME NEW r, NEW n, NEW sh, NEW t, RegistryFollows(sh, r, n),
         t.reg = sh.reg, t.erased = sh.erased, t.hist.shown = sh.hist.shown
  PROVE  RegistryFollows(t, r, n)
BY DEF RegistryFollows

LEMMA ErasedIsPlayable ==
  ASSUME NEW sh, HeardAsPlayed(sh), NEW t, EntityErased(sh, t), bufRec.frame \in Nat
  PROVE  Playable(t)
<1>1. RegistryFollows(t, bufRing, bufRec.frame)
  BY DEF EntityErased, RegistryFollows
<1>2. HeardAsPlayed(t)
  BY DEF EntityErased, HeardAsPlayed
<1> QED BY <1>1, <1>2 DEF Playable, EntityErased

LEMMA ApplyFrameShows ==
  ASSUME bufRec.frame \in Nat, PlayedRing(bufRing, bufRec.frame),
         NEW sh, Playable(sh), NEW f \in Nat
  PROVE  FrameShown(sh, Buf!ApplyFrame(sh, f), f)
<1>0. PICK t : t = Buf!ApplyFrame(sh, f)
  OBVIOUS
<1>a. IsShown(sh) /\ HeardAsPlayed(sh) /\ RegistryFollows(sh, bufRing, bufRec.frame)
  BY DEF Playable
<1>b. sh.erased \in BOOLEAN /\ sh.reg.alive \in BOOLEAN /\ (sh.erased => ~sh.reg.alive)
  BY <1>a DEF IsShown, RegistryFollows
<1>1. CASE ~Buf!Buffered \/ sh.erased
  <2>1. t = sh
    BY <1>0, <1>1 DEF Buf!ApplyFrame
  <2>2. FrameShown(sh, sh, f)
    BY <1>1 DEF FrameShown, Replayed
  <2> QED BY <1>0, <2>1, <2>2
<1>2. CASE Buf!Buffered /\ ~sh.erased /\ f \notin DOMAIN bufRing
  <2>1. t = Buf!DiscardCues(sh, f)
    BY <1>0, <1>2 DEF Buf!ApplyFrame
  <2>2. CuesDiscarded(sh, t, f)
    BY <1>a, <2>1, DiscardCuesFields
  <2>3. Playable(t)
    <3>1. RegistryFollows(t, bufRing, bufRec.frame)
      BY <1>a, <2>2, SameRegistryFollows DEF CuesDiscarded
    <3>2. HeardAsPlayed(t)
      BY <1>a, <2>2 DEF CuesDiscarded, HeardAsPlayed
    <3> QED BY <2>2, <3>1, <3>2 DEF Playable, CuesDiscarded
  <2>4. Replayed(sh, t, f)
    BY <1>2, <2>2 DEF Replayed, CuesDiscarded
  <2>5. FrameShown(sh, t, f)
    BY <1>2, <2>3, <2>4 DEF FrameShown
  <2> QED BY <1>0, <2>5
<1>3. CASE Buf!Buffered /\ ~sh.erased /\ f \in DOMAIN bufRing
  <2>0. bufRing[f].present \in BOOLEAN
    BY <1>3 DEF PlayedRing
  <2>1. PICK u : u = Buf!ApplySample(sh, f, bufRing[f])
    OBVIOUS
  <2>2. PICK s : s = bufRing[f]
    OBVIOUS
  <2>3. SampleShown(sh, u, f, bufRing[f])
    <3>1. SampleShown(sh, Buf!ApplySample(sh, f, s), f, s)
      BY <1>a, <2>0, <2>2, ApplySampleFields
    <3> QED BY <2>1, <2>2, <3>1
  <2>4. IsShown(u) /\ HeardAsPlayed(u)
    BY <1>a, <2>3 DEF SampleShown, HeardAsPlayed
  <2>5. CASE bufRing[f].present = FALSE
    <3>1. t = Buf!EraseEntity(u)
      BY <1>0, <1>3, <2>1, <2>5 DEF Buf!ApplyFrame
    <3>2. EntityErased(u, t)
      BY <2>4, <3>1, EraseEntityFields
    <3>3. Playable(t)
      BY <2>4, <3>2, ErasedIsPlayable
    <3>4. Replayed(sh, t, f)
      BY <1>3, <2>3, <3>2 DEF Replayed, EntityErased, SampleShown
    <3>5. FrameShown(sh, t, f)
      BY <3>2, <3>3, <3>4 DEF FrameShown, EntityErased
    <3> QED BY <1>0, <3>5
  <2>6. CASE bufRing[f].present = TRUE
    <3>0. u.erased = FALSE /\ u.reg.alive = TRUE
      BY <1>3, <1>b, <2>3, <2>6 DEF SampleShown
    <3>1. RegistryFollows(u, bufRing, bufRec.frame)
      BY <1>3, <1>a, <1>b, <2>3, <2>6, SampleFollows
    <3>2. PICK due : due = u.cue.buffered \cap {f}
      OBVIOUS
    <3>3. PICK v : v = Buf!PlayCues(u, due)
      OBVIOUS
    <3>4. CuesPlayed(u, v, due)
      BY <2>4, <3>0, <3>3, PlayCuesFields
    <3>5. t = Buf!DiscardCues(v, f)
      BY <1>0, <1>3, <2>1, <2>6, <3>2, <3>3 DEF Buf!ApplyFrame, Buf!ApplyCues
    <3>6. CuesDiscarded(v, t, f)
      <4>1. IsShown(v)
        BY <3>4 DEF CuesPlayed
      <4> QED BY <3>5, <4>1, DiscardCuesFields
    <3>7. Playable(t)
      <4>1. t.reg = u.reg /\ t.erased = u.erased /\ t.hist.shown = u.hist.shown
        BY <3>4, <3>6 DEF CuesPlayed, CuesDiscarded
      <4>2. RegistryFollows(t, bufRing, bufRec.frame)
        BY <3>1, <4>1, SameRegistryFollows
      <4>3. HeardAsPlayed(t)
        BY <3>4, <3>6 DEF CuesPlayed, CuesDiscarded, HeardAsPlayed
      <4> QED BY <3>6, <4>2, <4>3 DEF Playable, CuesDiscarded
    <3>8. /\ t.erased = FALSE /\ t.reg.alive = TRUE
          /\ t.cue.played = sh.cue.played \cup due
          /\ t.cue.buffered = {g \in sh.cue.buffered : g > f}
          /\ due = sh.cue.buffered \cap {f}
          /\ t.hist.promised = sh.hist.promised
          /\ t.hist.missed = sh.hist.missed /\ t.hist.overrun = sh.hist.overrun
      BY <2>3, <3>0, <3>2, <3>4, <3>6 DEF CuesPlayed, CuesDiscarded, SampleShown
    <3>9. Replayed(sh, t, f)
      <4>1. \E g \in DOMAIN bufRing : bufRing[g].present
        BY <1>3, <2>6
      <4> QED BY <1>3, <3>8, <4>1 DEF Replayed
    <3>10. FrameShown(sh, t, f)
      BY <2>6, <3>7, <3>8, <3>9 DEF FrameShown
    <3> QED BY <1>0, <3>10
  <2> QED BY <2>0, <2>5, <2>6
<1> QED BY <1>1, <1>2, <1>3

\* Frames one after the other.
FramesChain(a, sh, f, n) ==
  a = [i \in 0 .. n |-> IF i = 0 THEN sh ELSE Buf!ApplyFrame(a[i - 1], f + i - 1)]

LEMMA FramesChainExists ==
  ASSUME NEW sh, NEW f, NEW n \in Nat
  PROVE  \E a : FramesChain(a, sh, f, n)
<1> DEFINE P(k) == \E a : /\ a = [i \in 0 .. k |-> a[i]] /\ a[0] = sh
                          /\ \A i \in 1 .. k : a[i] = Buf!ApplyFrame(a[i - 1], f + i - 1)
           K == {k \in Nat : P(k)}
<1>1. P(0)
  <2> DEFINE z == [i \in 0 .. 0 |-> sh]
  <2>1. z = [i \in 0 .. 0 |-> z[i]] /\ z[0] = sh
    OBVIOUS
  <2> HIDE DEF z
  <2> QED BY <2>1
<1>2. ASSUME NEW k \in Nat, P(k) PROVE P(k + 1)
  <2>1. PICK a : /\ a = [i \in 0 .. k |-> a[i]] /\ a[0] = sh
                 /\ \A i \in 1 .. k : a[i] = Buf!ApplyFrame(a[i - 1], f + i - 1)
    BY <1>2
  <2>2. PICK v : v = Buf!ApplyFrame(a[k], f + (k + 1) - 1)
    OBVIOUS
  <2> DEFINE b == [i \in 0 .. (k + 1) |-> IF i = k + 1 THEN v ELSE a[i]]
  <2>3. b = [i \in 0 .. (k + 1) |-> b[i]] /\ b[0] = sh /\ b[k + 1] = v /\ b[k] = a[k]
    BY <2>1
  <2>4. \A i \in 1 .. k : b[i] = a[i] /\ b[i - 1] = a[i - 1]
    OBVIOUS
  <2> HIDE DEF b
  <2>5. \A i \in 1 .. (k + 1) : b[i] = Buf!ApplyFrame(b[i - 1], f + i - 1)
    <3> SUFFICES ASSUME NEW i \in 1 .. (k + 1) PROVE b[i] = Buf!ApplyFrame(b[i - 1], f + i - 1)
      OBVIOUS
    <3>1. CASE i = k + 1
      <4>1. i - 1 = k
        BY <3>1
      <4> QED BY <2>2, <2>3, <3>1, <4>1
    <3>2. CASE i \in 1 .. k
      BY <2>1, <2>4, <3>2
    <3> QED BY <3>1, <3>2
  <2> QED BY <2>3, <2>5
<1> HIDE DEF P
<1>3. K = Nat
  <2>1. 0 \in K /\ (\A k \in K : k + 1 \in K) /\ K \in SUBSET Nat
    BY <1>1, <1>2
  <2> HIDE DEF K
  <2> QED BY <2>1, Induct
<1>4. P(n)
  BY <1>3
<1>5. PICK a : /\ a = [i \in 0 .. n |-> a[i]] /\ a[0] = sh
               /\ \A i \in 1 .. n : a[i] = Buf!ApplyFrame(a[i - 1], f + i - 1)
  BY <1>4 DEF P
<1>6. FramesChain(a, sh, f, n)
  <2>1. \A i \in 0 .. n : a[i] = IF i = 0 THEN sh ELSE Buf!ApplyFrame(a[i - 1], f + i - 1)
    <3> SUFFICES ASSUME NEW i \in 0 .. n
                 PROVE  a[i] = IF i = 0 THEN sh ELSE Buf!ApplyFrame(a[i - 1], f + i - 1)
      OBVIOUS
    <3>1. CASE i = 0
      BY <1>5, <3>1
    <3>2. CASE i # 0
      <4>1. i \in 1 .. n
        BY <3>2
      <4> QED BY <1>5, <3>2, <4>1
    <3> QED BY <3>1, <3>2
  <2> QED BY <1>5, <2>1 DEF FramesChain
<1> QED BY <1>6

LEMMA ApplyFramesChain ==
  ASSUME NEW sh, NEW f, NEW n \in Nat
  PROVE  \E a : /\ Buf!ApplyFrames(sh, f, n) = a[n] /\ a[0] = sh
                /\ \A i \in 1 .. n : a[i] = Buf!ApplyFrame(a[i - 1], f + i - 1)
<1> DEFINE a == CHOOSE a : FramesChain(a, sh, f, n)
<1>1. FramesChain(a, sh, f, n)
  BY FramesChainExists
<1>2. Buf!ApplyFrames(sh, f, n) = a[n]
  BY Zenon DEF Buf!ApplyFrames, FramesChain
<1> HIDE DEF a
<1>3. a[0] = sh /\ \A i \in 1 .. n : a[i] = Buf!ApplyFrame(a[i - 1], f + i - 1)
  BY <1>1 DEF FramesChain
<1> QED BY <1>2, <1>3

\* What frames leave adds up.
LEMMA ReplayedOn ==
  ASSUME NEW sh, NEW u, NEW t, NEW m \in Nat, NEW f \in Nat, f <= m,
         IsShown(sh), IsShown(u), IsShown(t), Replayed(sh, u, m), Replayed(u, t, f),
         HeardAsPlayed(sh)
  PROVE  Replayed(sh, t, m)
<1>1. ~t.erased => \A g \in sh.cue.buffered : g > m => g \in t.cue.buffered
  <2> SUFFICES ASSUME ~t.erased, NEW g \in sh.cue.buffered, g > m
               PROVE  g \in t.cue.buffered
    OBVIOUS
  <2>1. ~u.erased /\ g \in Nat /\ g > f
    BY DEF Replayed, HeardAsPlayed
  <2> QED BY <2>1 DEF Replayed
<1> QED BY <1>1 DEF Replayed

\* Frames before the clock's.
LEMMA ApplyFramesShows ==
  ASSUME bufRec.frame \in Nat, PlayedRing(bufRing, bufRec.frame),
         NEW sh, Playable(sh),
         NEW f \in Nat, NEW m \in Nat, f <= m
  PROVE  Playable(Buf!ApplyFrames(sh, f, m - f)) /\ Replayed(sh, Buf!ApplyFrames(sh, f, m - f), m)
<1>0. PICK n \in Nat : n = m - f
  OBVIOUS
<1>1. PICK a : /\ Buf!ApplyFrames(sh, f, n) = a[n] /\ a[0] = sh
               /\ \A i \in 1 .. n : a[i] = Buf!ApplyFrame(a[i - 1], f + i - 1)
  BY <1>0, ApplyFramesChain
<1> DEFINE P(k) == Playable(a[k]) /\ Replayed(sh, a[k], m)
           K == {k \in Nat : k <= n => P(k)}
<1>2. P(0)
  BY <1>1 DEF Replayed
<1>3. ASSUME NEW k \in Nat, k + 1 <= n, P(k) PROVE P(k + 1)
  <2>1. PICK g \in Nat : g = f + k
    OBVIOUS
  <2>2. g <= m /\ k + 1 \in 1 .. n /\ (k + 1) - 1 = k /\ f + (k + 1) - 1 = g
    BY <1>0, <1>3, <2>1
  <2>3. a[k + 1] = Buf!ApplyFrame(a[k], g)
    BY <1>1, <2>2
  <2>4. PICK u : u = a[k]
    OBVIOUS
  <2>5. Playable(u) /\ Replayed(sh, u, m)
    BY <1>3, <2>4
  <2>6. FrameShown(u, Buf!ApplyFrame(u, g), g)
    BY <2>5, ApplyFrameShows
  <2>7. PICK t : t = a[k + 1]
    OBVIOUS
  <2>8. Playable(t) /\ Replayed(u, t, g)
    BY <2>3, <2>4, <2>6, <2>7 DEF FrameShown
  <2>9. Replayed(sh, t, m)
    BY <2>2, <2>5, <2>8, ReplayedOn DEF Playable
  <2> QED BY <2>7, <2>8, <2>9
<1> HIDE DEF P
<1>4. K = Nat
  <2>1. 0 \in K /\ (\A k \in K : k + 1 \in K) /\ K \in SUBSET Nat
    BY <1>2, <1>3
  <2> HIDE DEF K
  <2> QED BY <2>1, Induct
<1>5. P(n)
  BY <1>4
<1> QED BY <1>0, <1>1, <1>5 DEF P

-----------------------------------------------------------------------------
(* The ring as a record fills it                                             *)

FirstWritten(f) == IF Buf!Known THEN bufRec.frame + 1 ELSE f

Written(f, shows, data, g) ==
  IF g = f THEN [present |-> shows, data |-> data]
  ELSE [present |-> bufReg.alive \/ DOMAIN bufRec.data # {},
        data |-> IF bufReg.alive \/ DOMAIN bufRec.data # {}
                 THEN Buf!Between(bufRec.data, data, g, bufRec.frame, f) ELSE Buf!NoData]

WrittenBefore(f, shows, data, g) ==
  IF PlayedCapacity = 1 THEN Buf!NoSample
  ELSE IF g = FirstWritten(f) THEN Buf!SampleAt(bufRing, g - 1)
  ELSE Written(f, shows, data, g - 1)

LEMMA FilledShape ==
  ASSUME NEW f, NEW shows, NEW data
  PROVE  Buf!FilledRing(f, shows, data) =
           [g \in Buf!KeptFrames(FirstWritten(f), f)
                  \cup {h \in FirstWritten(f) .. f : h + PlayedCapacity > f} |->
              IF g \in FirstWritten(f) .. f
              THEN Buf!WriteFrame(WrittenBefore(f, shows, data, g),
                                  Written(f, shows, data, g).present,
                                  Written(f, shows, data, g).data)
              ELSE bufRing[g]]
BY Zenon DEF Buf!FilledRing, FirstWritten, Written, WrittenBefore

\* A frame as it is written.
LEMMA WriteFrameFields ==
  ASSUME NEW before, NEW shows, NEW data
  PROVE  LET w == Buf!WriteFrame(before, shows, data)
         IN  /\ w.present = shows /\ w.data = data
             /\ shows => \A c \in DOMAIN data \ w.push :
                  before.present /\ c \in DOMAIN before.data /\ before.data[c] = data[c]
BY DEF Buf!WriteFrame, Buf!ChangedComponents

\* The frames of a filled ring.
FilledFrames(r, f, shows, data) ==
  /\ f \in DOMAIN r /\ r[f].present = shows /\ r[f].data = data
  /\ DOMAIN r \subseteq 1 .. f
  /\ \A g \in DOMAIN r : g < FirstWritten(f) => g \in DOMAIN bufRing /\ r[g] = bufRing[g]
  /\ \A g \in DOMAIN r : g >= FirstWritten(f) =>
       /\ r[g].present \in BOOLEAN
       /\ r[g].present => \A c \in DOMAIN r[g].data \ r[g].push :
            \/ /\ g > FirstWritten(f)
               /\ g - 1 \in DOMAIN r => /\ r[g - 1].present /\ c \in DOMAIN r[g - 1].data
                                        /\ r[g - 1].data[c] = r[g].data[c]
            \/ /\ g = FirstWritten(f) /\ g - 1 \in DOMAIN bufRing
               /\ bufRing[g - 1].present /\ c \in DOMAIN bufRing[g - 1].data
               /\ bufRing[g - 1].data[c] = r[g].data[c]

LEMMA FilledFramesFacts ==
  ASSUME bufRec.frame \in Nat, PlayedRing(bufRing, bufRec.frame), bufReg.alive \in BOOLEAN,
         NEW f \in Nat, f > bufRec.frame, NEW shows \in BOOLEAN, NEW data
  PROVE  FilledFrames(Buf!FilledRing(f, shows, data), f, shows, data)
<1>0. PlayedCapacity \in Nat /\ PlayedCapacity > 0
  BY PlayedConstants
<1>1. PICK first \in Nat : first = FirstWritten(f) /\ first <= f /\ first > bufRec.frame
  BY DEF FirstWritten
<1>2. PICK r : r = Buf!FilledRing(f, shows, data)
  OBVIOUS
<1> DEFINE S(g) == Written(f, shows, data, g)
           B(g) == WrittenBefore(f, shows, data, g)
<1>3. /\ DOMAIN r = Buf!KeptFrames(first, f) \cup {h \in first .. f : h + PlayedCapacity > f}
      /\ \A g \in DOMAIN r : IF g \in first .. f THEN r[g] = Buf!WriteFrame(B(g), S(g).present, S(g).data)
                             ELSE r[g] = bufRing[g]
  BY <1>1, <1>2, FilledShape
<1>4. S(f).present = shows /\ S(f).data = data
  BY DEF Written
<1>5. \A g : S(g).present \in BOOLEAN
  BY DEF Written
<1>6. \A g \in first .. f : g \in DOMAIN r =>
        /\ r[g].present = S(g).present /\ r[g].data = S(g).data
        /\ S(g).present => \A c \in DOMAIN S(g).data \ r[g].push :
             B(g).present /\ c \in DOMAIN B(g).data /\ B(g).data[c] = S(g).data[c]
  BY <1>3, WriteFrameFields
<1>7. \A g : /\ B(g).present => PlayedCapacity # 1
             /\ B(g).present /\ g = first => g - 1 \in DOMAIN bufRing /\ B(g) = bufRing[g - 1]
             /\ B(g).present /\ g # first => B(g) = S(g - 1)
  BY <1>1 DEF WrittenBefore, Buf!NoSample, Buf!SampleAt
<1> HIDE DEF S, B
<1>8. f \in first .. f /\ f \in DOMAIN r
  BY <1>0, <1>1, <1>3
<1>9. r[f].present = shows /\ r[f].data = data
  BY <1>4, <1>6, <1>8
<1>10. \A g \in DOMAIN bufRing : g \in Nat /\ g >= 1 /\ g <= bufRec.frame
  BY DEF PlayedRing
<1>11. DOMAIN r \subseteq 1 .. f
  BY <1>1, <1>3, <1>10 DEF Buf!KeptFrames
<1>12. \A g \in DOMAIN r : g < first => g \in DOMAIN bufRing /\ r[g] = bufRing[g]
  BY <1>1, <1>3, <1>11 DEF Buf!KeptFrames
<1>13. ASSUME NEW g \in DOMAIN r, g >= first
       PROVE  /\ r[g].present \in BOOLEAN
              /\ r[g].present => \A c \in DOMAIN r[g].data \ r[g].push :
                   \/ /\ g > first
                      /\ g - 1 \in DOMAIN r => /\ r[g - 1].present /\ c \in DOMAIN r[g - 1].data
                                               /\ r[g - 1].data[c] = r[g].data[c]
                   \/ /\ g = first /\ g - 1 \in DOMAIN bufRing
                      /\ bufRing[g - 1].present /\ c \in DOMAIN bufRing[g - 1].data
                      /\ bufRing[g - 1].data[c] = r[g].data[c]
  <2>1. g \in first .. f /\ g \in Nat
    BY <1>1, <1>11, <1>13
  <2>2. r[g].present = S(g).present /\ r[g].data = S(g).data
    BY <1>6, <1>13, <2>1
  <2>3. r[g].present \in BOOLEAN
    BY <1>5, <2>2
  <2>4. ASSUME r[g].present, NEW c \in DOMAIN r[g].data \ r[g].push
        PROVE  \/ /\ g > first
                  /\ g - 1 \in DOMAIN r => /\ r[g - 1].present /\ c \in DOMAIN r[g - 1].data
                                           /\ r[g - 1].data[c] = r[g].data[c]
               \/ /\ g = first /\ g - 1 \in DOMAIN bufRing
                  /\ bufRing[g - 1].present /\ c \in DOMAIN bufRing[g - 1].data
                  /\ bufRing[g - 1].data[c] = r[g].data[c]
    <3>1. B(g).present /\ c \in DOMAIN B(g).data /\ B(g).data[c] = r[g].data[c]
      BY <1>6, <1>13, <2>1, <2>2, <2>4
    <3>2. CASE g = first
      BY <1>7, <3>1, <3>2
    <3>3. CASE g # first
      <4>1. B(g) = S(g - 1) /\ g > first /\ g - 1 \in first .. f
        BY <1>1, <1>7, <2>1, <3>1, <3>3
      <4>2. g - 1 \in DOMAIN r => r[g - 1].present = S(g - 1).present /\ r[g - 1].data = S(g - 1).data
        BY <1>6, <4>1
      <4> QED BY <3>1, <4>1, <4>2
    <3> QED BY <3>2, <3>3
  <2> QED BY <2>3, <2>4
<1>14. FilledFrames(r, f, shows, data)
  BY <1>1, <1>8, <1>9, <1>11, <1>12, <1>13 DEF FilledFrames
<1> QED BY <1>2, <1>14

LEMMA FilledIsPlayed ==
  ASSUME bufRec.frame \in Nat, PlayedRing(bufRing, bufRec.frame),
         NEW f \in Nat, f > bufRec.frame, NEW shows, NEW data, NEW r,
         FilledFrames(r, f, shows, data)
  PROVE  PlayedRing(r, f)
<1>1. PICK first \in Nat : first = FirstWritten(f)
  BY DEF FirstWritten
<1>2. \A g \in DOMAIN r : g \in Nat /\ r[g].present \in BOOLEAN
  BY <1>1 DEF FilledFrames, PlayedRing
<1>3. ASSUME NEW g \in DOMAIN r, g + 1 \in DOMAIN r, r[g + 1].present,
             NEW c \in DOMAIN r[g + 1].data \ r[g + 1].push
      PROVE  /\ r[g].present
             /\ c \in DOMAIN r[g].data
             /\ r[g].data[c] = r[g + 1].data[c]
  <2>0. g \in Nat /\ (g + 1) - 1 = g
    BY <1>2
  <2>1. CASE g + 1 < first
    <3>1. /\ g \in DOMAIN bufRing /\ r[g] = bufRing[g]
          /\ g + 1 \in DOMAIN bufRing /\ r[g + 1] = bufRing[g + 1]
      BY <1>1, <1>3, <2>0, <2>1 DEF FilledFrames
    <3> QED BY <1>3, <3>1 DEF PlayedRing
  <2>2. CASE g + 1 = first
    <3>1. /\ bufRing[g].present /\ c \in DOMAIN bufRing[g].data
          /\ bufRing[g].data[c] = r[g + 1].data[c]
      BY <1>1, <1>3, <2>0, <2>2 DEF FilledFrames
    <3>2. r[g] = bufRing[g]
      BY <1>1, <1>3, <2>0, <2>2 DEF FilledFrames
    <3> QED BY <3>1, <3>2
  <2>3. CASE g + 1 > first
    BY <1>1, <1>3, <2>0, <2>3 DEF FilledFrames
  <2> QED BY <1>1, <2>0, <2>1, <2>2, <2>3
<1>4. DOMAIN r \subseteq 1 .. f
  BY DEF FilledFrames
<1> QED BY <1>2, <1>3, <1>4 DEF PlayedRing

LEMMA FilledFollows ==
  ASSUME bufRec.frame \in Nat, PlayedRing(bufRing, bufRec.frame),
         NEW f \in Nat, f > bufRec.frame, NEW shows, NEW data, NEW r,
         FilledFrames(r, f, shows, data),
         NEW sh, RegistryFollows(sh, bufRing, bufRec.frame)
  PROVE  RegistryFollows(sh, r, f)
<1>1. PICK first \in Nat : /\ first = FirstWritten(f) /\ first > bufRec.frame
                           /\ first > bufRec.frame + 1 => bufRec.frame = 0
  BY DEF FirstWritten, Buf!Known, Buf!NoFrame
<1>2. PICK at : at = sh.reg.at
  OBVIOUS
<1>3. at \in 0 .. bufRec.frame /\ at \in Nat
  BY <1>2 DEF RegistryFollows
<1>4. at \in 0 .. f
  BY <1>3
<1>5. at \in DOMAIN r => at \in DOMAIN bufRing /\ r[at] = bufRing[at]
  BY <1>1, <1>3 DEF FilledFrames
<1>6. ~sh.erased /\ at + 1 \in DOMAIN r /\ r[at + 1].present =>
        \A c \in DOMAIN r[at + 1].data \ r[at + 1].push :
          c \in DOMAIN sh.reg.data /\ sh.reg.data[c] = r[at + 1].data[c]
  <2> SUFFICES ASSUME ~sh.erased, at + 1 \in DOMAIN r, r[at + 1].present,
                      NEW c \in DOMAIN r[at + 1].data \ r[at + 1].push
               PROVE  c \in DOMAIN sh.reg.data /\ sh.reg.data[c] = r[at + 1].data[c]
    OBVIOUS
  <2>1. CASE at + 1 < first
    <3>1. at + 1 \in DOMAIN bufRing /\ r[at + 1] = bufRing[at + 1]
      BY <1>1, <2>1 DEF FilledFrames
    <3> QED BY <1>2, <3>1 DEF RegistryFollows
  <2>2. CASE at + 1 >= first
    <3>0. (at + 1) - 1 = at /\ ~(at + 1 > first)
      BY <1>1, <1>3
    <3>1. /\ at \in DOMAIN bufRing /\ bufRing[at].present /\ c \in DOMAIN bufRing[at].data
          /\ bufRing[at].data[c] = r[at + 1].data[c]
      BY <1>1, <2>2, <3>0 DEF FilledFrames
    <3>2. Agrees(sh.reg, bufRing[at].data)
      BY <1>2, <3>1 DEF RegistryFollows
    <3> QED BY <3>1, <3>2 DEF Agrees
  <2> QED BY <1>1, <1>3, <2>1, <2>2
<1> QED BY <1>2, <1>4, <1>5, <1>6 DEF RegistryFollows

\* Frames that the ring holds besides f.
LEMMA FilledKeeps ==
  ASSUME bufRec.frame \in Nat, PlayedRing(bufRing, bufRec.frame),
         NEW f \in Nat, f > bufRec.frame, NEW shows, NEW data,
         NEW g \in Nat, g + PlayedCapacity > f,
         g \in DOMAIN bufRing \/ g \in FirstWritten(f) .. f
  PROVE  g \in DOMAIN Buf!FilledRing(f, shows, data)
<1>0. PlayedCapacity \in Nat /\ PlayedCapacity > 0
  BY PlayedConstants
<1>1. PICK first \in Nat : first = FirstWritten(f) /\ first > bufRec.frame
  BY DEF FirstWritten
<1>2. DOMAIN Buf!FilledRing(f, shows, data) =
        Buf!KeptFrames(first, f) \cup {h \in first .. f : h + PlayedCapacity > f}
  BY <1>1, FilledShape
<1>3. CASE g \in first .. f
  BY <1>2, <1>3
<1>4. CASE g \in DOMAIN bufRing
  <2>1. g <= bufRec.frame
    BY <1>4 DEF PlayedRing
  <2>2. \A h \in first .. f : g % PlayedCapacity # h % PlayedCapacity
    <3> SUFFICES ASSUME NEW h \in first .. f, g % PlayedCapacity = h % PlayedCapacity PROVE FALSE
      OBVIOUS
    <3>1. f - g + 1 <= PlayedCapacity /\ g \in g .. f /\ h \in g .. f /\ g # h /\ f \in Int
      BY <1>0, <1>1, <2>1
    <3> QED BY <1>0, <3>1, SameSlotWithin
  <2> QED BY <1>2, <1>4, <2>2 DEF Buf!KeptFrames
<1> QED BY <1>1, <1>3, <1>4

-----------------------------------------------------------------------------
(* The steps of the clock                                                    *)

LEMMA ShownAfter ==
  ASSUME NEW sh, IsShown(sh), Buf!Commit(sh),
         bufRec'.mask = sh.mask, bufRec'.erased = sh.erased
  PROVE  Buf!Shown' = sh
BY DEF Buf!Commit, Buf!Shown, IsShown

LEMMA ShownFields ==
  /\ Buf!Shown.reg = bufReg /\ Buf!Shown.mask = bufRec.mask /\ Buf!Shown.cue = bufCue
  /\ Buf!Shown.hist = bufHist /\ Buf!Shown.erased = bufRec.erased
BY DEF Buf!Shown

LEMMA InvIsPlayable ==
  ASSUME PlaybackInv
  PROVE  Playable(Buf!Shown)
BY DEF PlaybackInv, Playable

\* Frames were applied that leave sh, and the clock is not beyond m.
FramesApplied(sh, m) ==
  /\ Buf!Commit(sh)
  /\ bufRec' = [bufRec EXCEPT !.mask = sh.mask, !.erased = sh.erased]
  /\ bufRing' = IF bufRec'.erased THEN <<>> ELSE bufRing
  /\ bufMode' = bufMode
  /\ bufClock' \in Nat /\ bufApplied' \in Nat /\ bufClock' <= m

LEMMA FramesKeep ==
  ASSUME PlaybackInv, NEW m \in Nat, NEW sh, Playable(sh), Replayed(Buf!Shown, sh, m),
         FramesApplied(sh, m),
         Buf!Buffered /\ ~sh.erased =>
           /\ \A g \in DOMAIN bufRing \cap bufCue.buffered :
                g > bufClock => g > m \/ g \in sh.cue.played
           /\ bufClock < bufRec.frame => bufClock' < bufRec.frame \/ bufRec.present
           /\ bufRec.frame <= bufApplied' \/ bufRec.frame <= bufClock' =>
                bufRec.frame <= bufClock \/ sh.reg.alive
  PROVE  PlaybackInv'
<1>1. PICK n \in Nat : n = bufRec.frame
  BY DEF PlaybackInv
<1>2. /\ bufRec'.frame = n /\ bufRec'.data = bufRec.data /\ bufRec'.present = bufRec.present
      /\ bufRec'.mask = sh.mask /\ bufRec'.erased = sh.erased
      /\ bufRec' = [frame |-> bufRec'.frame, data |-> bufRec'.data, present |-> bufRec'.present,
                    mask |-> bufRec'.mask, erased |-> bufRec'.erased]
  BY <1>1 DEF FramesApplied, PlaybackInv
<1>3. IsShown(sh) /\ RegistryFollows(sh, bufRing, n) /\ HeardAsPlayed(sh)
  BY <1>1 DEF Playable
<1>4. Buf!Shown' = sh /\ bufReg' = sh.reg /\ bufCue' = sh.cue /\ bufHist' = sh.hist
  BY <1>2, <1>3, ShownAfter DEF FramesApplied, Buf!Commit
<1>5. /\ bufRing' = (IF sh.erased THEN <<>> ELSE bufRing)
      /\ bufMode' = bufMode /\ bufClock' \in Nat /\ bufApplied' \in Nat /\ bufClock' <= m
  BY <1>2 DEF FramesApplied
<1>6. sh.erased \in BOOLEAN /\ sh.reg.alive \in BOOLEAN /\ bufRec.erased \in BOOLEAN
      /\ (~sh.erased => ~bufRec.erased)
  BY <1>3, ShownFields DEF IsShown, Replayed, PlaybackInv
<1>7. sh.erased => DOMAIN bufRing' = {}
  BY <1>5
<1>8. PlayedRing(bufRing', n)
  BY <1>1, <1>5, <1>7 DEF PlayedRing, PlaybackInv
<1>9. RegistryFollows(sh, bufRing', n)
  BY <1>3, <1>5, <1>6 DEF RegistryFollows
<1>10. bufMode' = "Snap" \/ bufRec'.erased => DOMAIN bufRing' = {}
  BY <1>2, <1>5, <1>7 DEF PlaybackInv
<1>11. Buf!Buffered' => Buf!Buffered /\ sh.erased = FALSE /\ bufRing' = bufRing
  BY <1>1, <1>2, <1>5, <1>6 DEF Buf!Buffered, Buf!Known, Buf!Gone
<1>12. Buf!Buffered' => /\ bufRec'.frame \in DOMAIN bufRing'
                        /\ bufRing'[bufRec'.frame].present = bufRec'.present
  BY <1>1, <1>2, <1>11 DEF PlaybackInv
<1>13. SnapShown'
  <2> SUFFICES ASSUME bufMode' = "Snap", bufRec'.frame # 0, ~bufRec'.erased
               PROVE  IF bufRec'.present THEN bufReg'.alive /\ Agrees(bufReg', bufRec'.data)
                      ELSE ~bufReg'.alive
    BY DEF SnapShown, Buf!Known, Buf!NoFrame
  <2>1. ~Buf!Buffered /\ bufMode = "Snap"
    BY <1>5 DEF Buf!Buffered
  <2>2. sh = Buf!Shown
    BY <2>1 DEF Replayed
  <2>3. bufReg' = bufReg /\ bufRec.erased = bufRec'.erased
    BY <1>2, <1>4, <2>2, ShownFields
  <2> QED BY <1>1, <1>2, <2>1, <2>3 DEF PlaybackInv, SnapShown, Buf!Known, Buf!NoFrame
<1>14. /\ bufHist'.missed = bufHist.missed /\ bufHist'.overrun = bufHist.overrun
       /\ bufHist'.promised = bufHist.promised
       /\ ~sh.erased => /\ bufCue.played \subseteq bufCue'.played
                        /\ bufReg.alive => bufReg'.alive
                        /\ \A g \in bufCue.buffered : g > m => g \in bufCue'.buffered
       /\ ~bufReg.alive /\ (\A g \in DOMAIN bufRing : ~bufRing[g].present) => ~bufReg'.alive
  BY <1>4, ShownFields DEF Replayed
<1>15. DestroyAhead'
  <2> SUFFICES ASSUME Buf!Buffered', ~bufRec'.present, ~bufHist'.missed
               PROVE  \/ bufClock' < bufRec'.frame
                      \/ ~bufReg'.alive /\ \A f \in DOMAIN bufRing' : ~bufRing'[f].present
    BY DEF DestroyAhead
  <2>1. \/ bufClock < n
        \/ ~bufReg.alive /\ \A f \in DOMAIN bufRing : ~bufRing[f].present
    BY <1>1, <1>2, <1>11, <1>14 DEF PlaybackInv, DestroyAhead
  <2> QED BY <1>1, <1>2, <1>11, <1>14, <2>1
<1>16. RecordShown'
  <2> SUFFICES ASSUME Buf!Buffered', bufRec'.present, ~bufHist'.missed,
                      bufRec'.frame <= bufApplied' \/ bufRec'.frame <= bufClock'
               PROVE  bufReg'.alive
    BY DEF RecordShown
  <2>1. n <= bufClock \/ sh.reg.alive
    BY <1>1, <1>2, <1>11
  <2>2. n <= bufClock => bufReg.alive
    BY <1>1, <1>2, <1>11, <1>14 DEF PlaybackInv, RecordShown
  <2> QED BY <1>4, <1>11, <1>14, <2>1, <2>2
<1>17. CuesWait'
  <2> SUFFICES ASSUME ~bufRec'.erased, bufRec'.present, ~bufHist'.missed, ~bufHist'.overrun,
                      NEW g \in bufHist'.promised, g \notin bufCue'.played
               PROVE  /\ bufMode' = "BufferedInterpolation" /\ g \in bufCue'.buffered
                      /\ g > bufClock' /\ g \in DOMAIN bufRing'
    BY DEF CuesWait
  <2>1. ~bufRec.erased /\ bufRec.present /\ ~sh.erased /\ g \notin bufCue.played
    BY <1>2, <1>6, <1>14
  <2>2. /\ bufMode = "BufferedInterpolation" /\ g \in bufCue.buffered
        /\ g > bufClock /\ g \in DOMAIN bufRing
    BY <1>14, <2>1 DEF PlaybackInv, CuesWait
  <2>3. Buf!Buffered /\ g \in Nat
    <3>1. g \in 1 .. n
      BY <1>1, <2>2 DEF PlaybackInv, PlayedRing
    <3> QED BY <1>1, <2>1, <2>2, <3>1 DEF Buf!Buffered, Buf!Known, Buf!NoFrame, Buf!Gone
  <2>4. g > m
    BY <1>4, <2>1, <2>2, <2>3
  <2> QED BY <1>5, <1>14, <2>1, <2>2, <2>3, <2>4
<1> QED BY <1>2, <1>3, <1>4, <1>5, <1>8, <1>9, <1>10, <1>12, <1>13, <1>15, <1>16, <1>17
        DEF PlaybackInv

LEMMA AdvanceKeeps ==
  ASSUME PlaybackInv, Buf!AdvanceFrame
  PROVE  PlaybackInv'
<1>1. PICK m \in Nat : m = bufClock + 1
  BY DEF PlaybackInv
<1>2. PICK sh : /\ sh = Buf!ApplyFrame(Buf!Shown, m) /\ Buf!Commit(sh)
                /\ bufRec' = [bufRec EXCEPT !.mask = sh.mask, !.erased = sh.erased]
  BY <1>1 DEF Buf!AdvanceFrame
<1>3. bufClock' = m /\ bufApplied' = m /\ bufClock \in Nat /\ bufRec.frame \in Nat
  BY <1>1 DEF Buf!AdvanceFrame, PlaybackInv
<1>4. FrameShown(Buf!Shown, sh, m)
  <2>1. Playable(Buf!Shown) /\ PlayedRing(bufRing, bufRec.frame)
    BY InvIsPlayable DEF PlaybackInv
  <2> QED BY <1>1, <1>2, <1>3, <2>1, ApplyFrameShows
<1>5. FramesApplied(sh, m)
  BY <1>1, <1>2, <1>3 DEF FramesApplied, Buf!AdvanceFrame
<1>6. ASSUME Buf!Buffered, ~sh.erased
      PROVE  /\ \A g \in DOMAIN bufRing \cap bufCue.buffered :
                  g > bufClock => g > m \/ g \in sh.cue.played
             /\ bufClock < bufRec.frame => bufClock' < bufRec.frame \/ bufRec.present
             /\ bufRec.frame <= bufApplied' \/ bufRec.frame <= bufClock' =>
                  bufRec.frame <= bufClock \/ sh.reg.alive
  <2>1. bufRec.frame \in DOMAIN bufRing /\ bufRing[bufRec.frame].present = bufRec.present
    BY <1>6 DEF PlaybackInv
  <2>2. m \in DOMAIN bufRing => /\ bufRing[m].present /\ sh.reg.alive
                                /\ m \in bufCue.buffered => m \in sh.cue.played
    BY <1>4, <1>6, ShownFields DEF FrameShown
  <2>3. \A g \in DOMAIN bufRing : g \in Nat
    BY DEF PlaybackInv, PlayedRing
  <2> QED BY <1>1, <1>3, <2>1, <2>2, <2>3
<1> QED BY <1>4, <1>5, <1>6, FramesKeep DEF FrameShown

LEMMA ResimulateKeeps ==
  ASSUME PlaybackInv, NEW f \in 1 .. PlayedFrames, Buf!Resimulate(f)
  PROVE  PlaybackInv'
<1>1. PICK m \in Nat : m = bufClock /\ f < m /\ f \in Nat
  BY PlayedConstants DEF PlaybackInv, Buf!Resimulate
<1>2. PICK sh : /\ sh = Buf!ApplyFrames(Buf!Shown, f, m - f) /\ Buf!Commit(sh)
                /\ bufRec' = [bufRec EXCEPT !.mask = sh.mask, !.erased = sh.erased]
  BY <1>1 DEF Buf!Resimulate
<1>3. bufClock' = m /\ bufApplied' = m - 1 /\ bufRec.frame \in Nat /\ f <= m /\ m - 1 \in Nat
  BY <1>1 DEF Buf!Resimulate, PlaybackInv
<1>4. Playable(sh) /\ Replayed(Buf!Shown, sh, m)
  <2>1. Playable(Buf!Shown) /\ PlayedRing(bufRing, bufRec.frame)
    BY InvIsPlayable DEF PlaybackInv
  <2> QED BY <1>1, <1>2, <1>3, <2>1, ApplyFramesShows
<1>5. FramesApplied(sh, m)
  BY <1>1, <1>2, <1>3 DEF FramesApplied, Buf!Resimulate
<1>6. /\ \A g \in DOMAIN bufRing \cap bufCue.buffered :
           g > bufClock => g > m \/ g \in sh.cue.played
      /\ bufClock < bufRec.frame => bufClock' < bufRec.frame \/ bufRec.present
      /\ bufRec.frame <= bufApplied' \/ bufRec.frame <= bufClock' =>
           bufRec.frame <= bufClock \/ sh.reg.alive
  BY <1>1, <1>3
<1> QED BY <1>4, <1>5, <1>6, FramesKeep

LEMMA GrowLagKeeps ==
  ASSUME PlaybackInv, Buf!GrowLag
  PROVE  PlaybackInv'
<1>1. /\ bufClock' = bufClock - 1 /\ bufClock \in Nat /\ bufClock' \in Nat /\ bufRec.frame \in Nat
      /\ UNCHANGED <<bufApplied, bufMode, bufRec, bufRing, bufReg, bufCue, bufHist>>
  BY DEF Buf!GrowLag, PlaybackInv
<1>2. Buf!Shown' = Buf!Shown /\ Buf!Buffered' = Buf!Buffered /\ SnapShown'
  BY <1>1 DEF Buf!Shown, Buf!Buffered, Buf!Known, Buf!Gone, SnapShown, PlaybackInv
<1>3. DestroyAhead'
  BY <1>1, <1>2 DEF PlaybackInv, DestroyAhead
<1>4. RecordShown'
  BY <1>1, <1>2 DEF PlaybackInv, RecordShown
<1>5. CuesWait'
  <2>1. \A g \in DOMAIN bufRing : g \in Nat
    BY DEF PlaybackInv, PlayedRing
  <2> QED BY <1>1, <2>1 DEF PlaybackInv, CuesWait
<1> QED BY <1>1, <1>2, <1>3, <1>4, <1>5 DEF PlaybackInv

LEMMA ReconfigureKeeps ==
  ASSUME PlaybackInv, NEW f \in 1 .. PlayedFrames, Buf!Reconfigure(f)
  PROVE  PlaybackInv'
<1>1. /\ bufClock' \in Nat
      /\ bufHist' = [bufHist EXCEPT !.missed = TRUE]
      /\ UNCHANGED <<bufApplied, bufMode, bufRec, bufRing, bufReg, bufCue>>
  BY PlayedConstants DEF Buf!Reconfigure
<1>2. PICK h : h = bufHist
  OBVIOUS
<1>3. h = [shown |-> h.shown, sound |-> h.sound, promised |-> h.promised,
           missed |-> h.missed, overrun |-> h.overrun] /\ h.overrun \in BOOLEAN
  BY <1>2, ShownFields DEF PlaybackInv, IsShown
<1>4. PICK j : j = bufHist'
  OBVIOUS
<1>5. /\ j = [shown |-> j.shown, sound |-> j.sound, promised |-> j.promised,
              missed |-> j.missed, overrun |-> j.overrun]
      /\ j.missed = TRUE /\ j.shown = h.shown /\ j.sound = h.sound
      /\ j.promised = h.promised /\ j.overrun = h.overrun
  BY <1>1, <1>2, <1>3, <1>4
<1>6. PICK sh : sh = Buf!Shown
  OBVIOUS
<1>7. PICK t : t = Buf!Shown'
  OBVIOUS
<1>8. /\ t = [reg |-> t.reg, mask |-> t.mask, cue |-> t.cue, hist |-> t.hist,
              erased |-> t.erased]
      /\ t.reg = sh.reg /\ t.mask = sh.mask /\ t.cue = sh.cue /\ t.erased = sh.erased
      /\ t.hist = j /\ sh.hist = h
  BY <1>1, <1>2, <1>4, <1>6, <1>7 DEF Buf!Shown
<1>9. IsShown(sh) /\ RegistryFollows(sh, bufRing, bufRec.frame) /\ HeardAsPlayed(sh)
  BY <1>6 DEF PlaybackInv
<1>10. IsShown(t)
  BY <1>3, <1>5, <1>8, <1>9 DEF IsShown
<1>11. RegistryFollows(t, bufRing, bufRec.frame)
  BY <1>5, <1>8, <1>9, SameRegistryFollows
<1>12. HeardAsPlayed(t)
  BY <1>5, <1>8, <1>9 DEF HeardAsPlayed
<1>13. Buf!Buffered' = Buf!Buffered /\ SnapShown'
  BY <1>1 DEF Buf!Buffered, Buf!Known, Buf!Gone, SnapShown, PlaybackInv
<1>14. DestroyAhead' /\ RecordShown' /\ CuesWait'
  BY <1>4, <1>5 DEF DestroyAhead, RecordShown, CuesWait
<1> QED BY <1>1, <1>7, <1>10, <1>11, <1>12, <1>13, <1>14 DEF PlaybackInv

-----------------------------------------------------------------------------
(* Records                                                                   *)

\* What a record changes before it is applied.
RecordReceived(sh, t, f, cues, mask) ==
  /\ IsShown(t) /\ t.reg = sh.reg /\ t.cue = sh.cue /\ t.erased = sh.erased /\ t.mask = mask
  /\ t.hist.shown = sh.hist.shown /\ t.hist.sound = sh.hist.sound
  /\ t.hist.promised = sh.hist.promised \cup cues
  /\ ~t.hist.missed => ~sh.hist.missed /\ ~(bufApplied < bufClock)
  /\ ~t.hist.overrun => ~sh.hist.overrun /\ ~(f > bufClock + PlayedCapacity)

LEMMA ReceivedFields ==
  ASSUME NEW sh, IsShown(sh), NEW f, NEW cues
  PROVE  RecordReceived(sh, Buf!Received(sh, f, cues), f, cues, sh.mask)
<1>0. PICK t : t = Buf!Received(sh, f, cues)
  OBVIOUS
<1>1. PICK mi \in BOOLEAN : mi = (sh.hist.missed \/ bufApplied < bufClock)
  OBVIOUS
<1>2. PICK ov \in BOOLEAN : ov = (sh.hist.overrun \/ f > bufClock + PlayedCapacity)
  OBVIOUS
<1>3. t = [sh EXCEPT !.hist.missed = mi, !.hist.overrun = ov, !.hist.promised = @ \cup cues]
  BY <1>0, <1>1, <1>2 DEF Buf!Received
<1>4. /\ t.reg = sh.reg /\ t.cue = sh.cue /\ t.erased = sh.erased /\ t.mask = sh.mask
      /\ t.hist = [[[sh.hist EXCEPT !.missed = mi] EXCEPT !.overrun = ov]
                     EXCEPT !.promised = @ \cup cues]
      /\ t = [reg |-> t.reg, mask |-> t.mask, cue |-> t.cue, hist |-> t.hist,
              erased |-> t.erased]
  BY <1>3 DEF IsShown
<1>5. /\ t.hist = [shown |-> t.hist.shown, sound |-> t.hist.sound,
                   promised |-> t.hist.promised, missed |-> t.hist.missed,
                   overrun |-> t.hist.overrun]
      /\ t.hist.shown = sh.hist.shown /\ t.hist.sound = sh.hist.sound
      /\ t.hist.promised = sh.hist.promised \cup cues
      /\ t.hist.missed = mi /\ t.hist.overrun = ov
  BY <1>4 DEF IsShown
<1>6. IsShown(t)
  BY <1>1, <1>2, <1>4, <1>5 DEF IsShown
<1>7. RecordReceived(sh, t, f, cues, sh.mask)
  BY <1>1, <1>2, <1>4, <1>5, <1>6 DEF RecordReceived
<1> QED BY <1>0, <1>7

LEMMA RecordedFields ==
  ASSUME NEW sh, NEW u, NEW f, NEW cues, NEW mask, NEW other, RecordReceived(sh, u, f, cues, other)
  PROVE  RecordReceived(sh, [u EXCEPT !.mask = mask], f, cues, mask)
<1>1. PICK t : t = [u EXCEPT !.mask = mask]
  OBVIOUS
<1>2. /\ t.reg = u.reg /\ t.cue = u.cue /\ t.erased = u.erased /\ t.mask = mask /\ t.hist = u.hist
      /\ t = [reg |-> t.reg, mask |-> t.mask, cue |-> t.cue, hist |-> t.hist,
              erased |-> t.erased]
  BY <1>1 DEF RecordReceived, IsShown
<1>3. IsShown(t)
  BY <1>2 DEF RecordReceived, IsShown
<1>4. RecordReceived(sh, t, f, cues, mask)
  BY <1>2, <1>3 DEF RecordReceived
<1> QED BY <1>1, <1>4

\* What a record's cues change: they wait for their frame or are played.
CuesStored(sh, t, cues) ==
  /\ IsShown(t) /\ t.reg = sh.reg /\ t.mask = sh.mask /\ t.erased = sh.erased
  /\ t.hist.shown = sh.hist.shown /\ t.hist.promised = sh.hist.promised
  /\ t.hist.missed = sh.hist.missed /\ t.hist.overrun = sh.hist.overrun
  /\ sh.cue.played \subseteq t.cue.played /\ sh.cue.buffered \subseteq t.cue.buffered
  /\ \A g \in cues : IF Buf!AlreadyApplied(g) THEN sh.reg.alive => g \in t.cue.played
                     ELSE g \in t.cue.buffered
  /\ HeardAsPlayed(t)

LEMMA StoreCuesFields ==
  ASSUME NEW sh, IsShown(sh), HeardAsPlayed(sh), sh.erased => ~sh.reg.alive,
         NEW cues \in SUBSET Nat
  PROVE  CuesStored(sh, Buf!StoreCues(sh, cues), cues)
<1>1. PICK due : due = {f \in cues : Buf!AlreadyApplied(f)}
  OBVIOUS
<1>2. PICK u : u = [sh EXCEPT !.cue.buffered = @ \cup (cues \ due)]
  OBVIOUS
<1>3. PICK t : t = Buf!StoreCues(sh, cues)
  OBVIOUS
<1>4. t = Buf!PlayCues(u, due)
  BY <1>1, <1>2, <1>3 DEF Buf!StoreCues
<1>5. PICK wait : wait = sh.cue.buffered \cup (cues \ due)
  OBVIOUS
<1>6. u = [sh EXCEPT !.cue = [sh.cue EXCEPT !.buffered = wait]]
  BY <1>2, <1>5 DEF IsShown
<1>7. /\ u.reg = sh.reg /\ u.mask = sh.mask /\ u.erased = sh.erased /\ u.hist = sh.hist
      /\ u.cue = [sh.cue EXCEPT !.buffered = wait]
      /\ u = [reg |-> u.reg, mask |-> u.mask, cue |-> u.cue, hist |-> u.hist,
              erased |-> u.erased]
  BY <1>6 DEF IsShown
<1>8. /\ u.cue = [buffered |-> u.cue.buffered, played |-> u.cue.played]
      /\ u.cue.buffered = wait /\ u.cue.played = sh.cue.played
  BY <1>7 DEF IsShown
<1>9. IsShown(u)
  BY <1>7, <1>8 DEF IsShown
<1>10. HeardAsPlayed(u) /\ (u.erased => ~u.reg.alive)
  BY <1>5, <1>7, <1>8 DEF HeardAsPlayed
<1>11. CuesPlayed(u, t, due)
  BY <1>4, <1>9, <1>10, PlayCuesFields
<1>12. u.reg.alive \in BOOLEAN
  BY <1>9 DEF IsShown
<1>13. sh.cue.played \subseteq t.cue.played /\ (u.reg.alive => due \subseteq t.cue.played)
  BY <1>8, <1>11, <1>12 DEF CuesPlayed
<1>14. t.cue.buffered = wait
  BY <1>8, <1>11 DEF CuesPlayed
<1>15. CuesStored(sh, t, cues)
  BY <1>1, <1>5, <1>7, <1>11, <1>13, <1>14 DEF CuesStored, CuesPlayed
<1> QED BY <1>3, <1>15

LEMMA UpsertBufferedKeeps ==
  ASSUME PlaybackInv, NEW f \in 1 .. PlayedFrames, f > bufRec.frame, bufRec.present,
         ~bufRec.erased, bufMode = "BufferedInterpolation", NEW data,
         NEW cues \in SUBSET (1 .. PlayedFrames), NEW pro \in SUBSET cues,
         pro \subseteq FirstWritten(f) .. f,
         Buf!UpsertBuffered(f, data, cues, pro), UNCHANGED <<bufClock, bufApplied, bufMode>>
  PROVE  PlaybackInv'
<1>0. /\ f \in Nat /\ f > 0 /\ bufRec.frame \in Nat /\ PlayedRing(bufRing, bufRec.frame)
      /\ bufClock \in Nat /\ bufApplied \in Nat /\ bufReg.alive \in BOOLEAN
      /\ bufRec.erased = FALSE /\ bufRec.present = TRUE
      /\ PlayedCapacity \in Nat
  BY PlayedConstants, ShownFields DEF PlaybackInv, IsShown
<1>1. PICK r : r = Buf!FilledRing(f, TRUE, data)
  OBVIOUS
<1>2. FilledFrames(r, f, TRUE, data)
  BY <1>0, <1>1, FilledFramesFacts
<1>3. PlayedRing(r, f)
  BY <1>0, <1>2, FilledIsPlayed
<1>4. PICK old : old = Buf!Shown
  OBVIOUS
<1>5. IsShown(old) /\ HeardAsPlayed(old) /\ RegistryFollows(old, bufRing, bufRec.frame)
  BY <1>4 DEF PlaybackInv
<1>6. PICK u : u = [Buf!Received(Buf!Shown, f, pro) EXCEPT !.mask = DOMAIN data]
  OBVIOUS
<1>7. RecordReceived(old, u, f, pro, DOMAIN data)
  <2>1. RecordReceived(old, Buf!Received(old, f, pro), f, pro, old.mask)
    BY <1>5, ReceivedFields
  <2>2. PICK v, mask, o : v = Buf!Received(old, f, pro) /\ mask = DOMAIN data /\ o = old.mask
    OBVIOUS
  <2>3. RecordReceived(old, [v EXCEPT !.mask = mask], f, pro, mask)
    BY <2>1, <2>2, RecordedFields
  <2> QED BY <1>4, <1>6, <2>2, <2>3
<1>8. IsShown(u) /\ u.erased = FALSE /\ u.reg.alive \in BOOLEAN
  BY <1>0, <1>4, <1>7, ShownFields DEF RecordReceived, IsShown
<1>9. HeardAsPlayed(u)
  BY <1>5, <1>7 DEF RecordReceived, HeardAsPlayed
<1>10. RegistryFollows(u, r, f)
  <2>1. RegistryFollows(u, bufRing, bufRec.frame)
    BY <1>5, <1>7, SameRegistryFollows DEF RecordReceived
  <2> QED BY <1>0, <1>2, <2>1, FilledFollows
<1>11. PICK v : v = IF Buf!AlreadyApplied(f) THEN Buf!ApplySample(u, f, r[f]) ELSE u
  OBVIOUS
<1>12. /\ IsShown(v) /\ HeardAsPlayed(v) /\ RegistryFollows(v, r, f) /\ v.erased = FALSE
       /\ v.cue = u.cue /\ v.hist.promised = u.hist.promised
       /\ v.hist.missed = u.hist.missed /\ v.hist.overrun = u.hist.overrun
       /\ Buf!AlreadyApplied(f) => v.reg.alive = TRUE
       /\ ~Buf!AlreadyApplied(f) => v.reg.alive = bufReg.alive
  <2>1. CASE Buf!AlreadyApplied(f)
    <3>0. f \in DOMAIN r /\ r[f].present = TRUE
      BY <1>2 DEF FilledFrames
    <3>1. PICK s : s = r[f]
      OBVIOUS
    <3>2. s.present \in BOOLEAN
      BY <3>0, <3>1
    <3>3. SampleShown(u, Buf!ApplySample(u, f, s), f, s)
      BY <1>8, <3>2, ApplySampleFields
    <3>4. SampleShown(u, v, f, r[f])
      BY <1>11, <2>1, <3>1, <3>3
    <3>5. RegistryFollows(v, r, f)
      BY <1>0, <1>3, <1>8, <1>10, <3>0, <3>4, SampleFollows
    <3>6. HeardAsPlayed(v)
      BY <1>9, <3>4 DEF HeardAsPlayed, SampleShown
    <3> QED BY <1>8, <2>1, <3>0, <3>4, <3>5, <3>6 DEF SampleShown
  <2>2. CASE ~Buf!AlreadyApplied(f)
    <3>1. v = u
      BY <1>11, <2>2
    <3>2. u.reg = bufReg
      BY <1>4, <1>7, ShownFields DEF RecordReceived
    <3> QED BY <1>8, <1>9, <1>10, <2>2, <3>1, <3>2
  <2> QED BY <2>1, <2>2
<1>13. PICK sh : sh = Buf!StoreCues(v, cues)
  OBVIOUS
<1>14. CuesStored(v, sh, cues)
  <2>1. cues \in SUBSET Nat /\ (v.erased => ~v.reg.alive)
    BY <1>12, PlayedConstants
  <2> QED BY <1>12, <1>13, <2>1, StoreCuesFields
<1>15. /\ Buf!Commit(sh) /\ bufRing' = r
       /\ bufRec' = [bufRec EXCEPT !.frame = f, !.data = data, !.mask = sh.mask]
  BY <1>1, <1>6, <1>11, <1>13 DEF Buf!UpsertBuffered
<1>16. /\ bufRec'.frame = f /\ bufRec'.data = data /\ bufRec'.present = TRUE
       /\ bufRec'.mask = sh.mask /\ bufRec'.erased = FALSE
       /\ bufRec' = [frame |-> bufRec'.frame, data |-> bufRec'.data, present |-> bufRec'.present,
                     mask |-> bufRec'.mask, erased |-> bufRec'.erased]
  BY <1>0, <1>15 DEF PlaybackInv
<1>17. IsShown(sh) /\ HeardAsPlayed(sh) /\ RegistryFollows(sh, r, f) /\ sh.erased = FALSE
  <2>1. RegistryFollows(sh, r, f)
    BY <1>12, <1>14, SameRegistryFollows DEF CuesStored
  <2> QED BY <1>12, <1>14, <2>1 DEF CuesStored
<1>18. Buf!Shown' = sh /\ bufReg' = sh.reg /\ bufCue' = sh.cue /\ bufHist' = sh.hist
  BY <1>15, <1>16, <1>17, ShownAfter DEF Buf!Commit
<1>19. bufRec'.frame \in DOMAIN bufRing' /\ bufRing'[bufRec'.frame].present = bufRec'.present
  BY <1>2, <1>15, <1>16 DEF FilledFrames
<1>20. bufMode' = "BufferedInterpolation"
  OBVIOUS
<1>21. SnapShown' /\ DestroyAhead'
  BY <1>16, <1>20 DEF SnapShown, DestroyAhead
<1>22. /\ ~bufHist'.missed => ~bufHist.missed /\ ~(bufApplied < bufClock)
       /\ ~bufHist'.overrun => ~bufHist.overrun /\ ~(f > bufClock + PlayedCapacity)
       /\ bufHist'.promised = bufHist.promised \cup pro
       /\ bufCue.played \subseteq bufCue'.played /\ bufCue.buffered \subseteq bufCue'.buffered
       /\ bufReg'.alive = v.reg.alive
       /\ \A g \in cues : IF Buf!AlreadyApplied(g) THEN v.reg.alive => g \in bufCue'.played
                          ELSE g \in bufCue'.buffered
  <2>1. bufHist = old.hist /\ bufCue = old.cue
    BY <1>4, ShownFields
  <2>2. /\ ~u.hist.missed => ~old.hist.missed /\ ~(bufApplied < bufClock)
        /\ ~u.hist.overrun => ~old.hist.overrun /\ ~(f > bufClock + PlayedCapacity)
        /\ u.hist.promised = old.hist.promised \cup pro /\ u.cue = old.cue
    BY <1>7 DEF RecordReceived
  <2> QED BY <1>12, <1>14, <1>18, <2>1, <2>2 DEF CuesStored
<1>23. RecordShown'
  <2> SUFFICES ASSUME ~bufHist'.missed, f <= bufApplied \/ f <= bufClock
               PROVE  bufReg'.alive
    BY <1>16 DEF RecordShown
  <2>1. bufApplied >= bufClock
    BY <1>0, <1>22
  <2>2. Buf!AlreadyApplied(f)
    BY <1>0, <2>1 DEF Buf!AlreadyApplied, Buf!NoFrame
  <2> QED BY <1>12, <1>22, <2>2
<1>24. CuesWait'
  <2> SUFFICES ASSUME ~bufHist'.missed, ~bufHist'.overrun,
                      NEW g \in bufHist'.promised, g \notin bufCue'.played
               PROVE  g \in bufCue'.buffered /\ g > bufClock /\ g \in DOMAIN r
    BY <1>15, <1>20 DEF CuesWait
  <2>1. bufApplied >= bufClock /\ f <= bufClock + PlayedCapacity
    BY <1>0, <1>22
  <2>2. CASE g \in bufHist.promised
    <3>1. g \in bufCue.buffered /\ g > bufClock /\ g \in DOMAIN bufRing
      BY <1>0, <1>22, <2>2 DEF PlaybackInv, CuesWait
    <3>2. g \in Nat
      BY <1>0, <3>1 DEF PlayedRing
    <3>3. g + PlayedCapacity > f
      BY <1>0, <2>1, <3>1, <3>2
    <3>4. g \in DOMAIN r
      BY <1>0, <1>1, <3>1, <3>2, <3>3, FilledKeeps
    <3> QED BY <1>22, <3>1, <3>4
  <2>3. CASE g \in pro
    <3>0. g \in Nat /\ g > 0 /\ g \in FirstWritten(f) .. f /\ g \in cues
      BY <2>3, PlayedConstants
    <3>1. ~Buf!AlreadyApplied(g)
      <4> SUFFICES ASSUME Buf!AlreadyApplied(g) PROVE FALSE
        OBVIOUS
      <4>1. ~v.reg.alive /\ g <= bufApplied /\ bufApplied # 0
        BY <1>22, <3>0 DEF Buf!AlreadyApplied, Buf!NoFrame
      <4>2. ~Buf!AlreadyApplied(f) /\ bufReg.alive = FALSE
        BY <1>0, <1>12, <4>1
      <4>3. f > bufApplied
        BY <1>0, <4>1, <4>2 DEF Buf!AlreadyApplied, Buf!NoFrame
      <4>4. Buf!Known /\ bufRec.frame <= bufApplied
        BY <1>0, <3>0, <4>1, <4>3 DEF FirstWritten
      <4>5. Buf!Buffered /\ ~bufHist.missed
        BY <1>0, <1>22, <4>4 DEF Buf!Buffered, Buf!Gone
      <4>6. bufReg.alive
        BY <1>0, <4>4, <4>5 DEF PlaybackInv, RecordShown
      <4> QED BY <4>2, <4>6
    <3>2. g \in bufCue'.buffered
      BY <1>22, <3>0, <3>1
    <3>3. g > bufClock
      BY <1>0, <2>1, <3>0, <3>1 DEF Buf!AlreadyApplied, Buf!NoFrame
    <3>4. g + PlayedCapacity > f
      BY <1>0, <2>1, <3>0, <3>3
    <3>5. g \in DOMAIN r
      BY <1>0, <1>1, <3>0, <3>4, FilledKeeps
    <3> QED BY <3>2, <3>3, <3>5
  <2> QED BY <1>22, <2>2, <2>3
<1>25. ~(bufMode' = "Snap" \/ bufRec'.erased)
  BY <1>16, <1>20
<1> QED BY <1>0, <1>3, <1>15, <1>16, <1>17, <1>18, <1>19, <1>20, <1>21, <1>23, <1>24, <1>25
        DEF PlaybackInv

\* What a record in Snap mode changes.
SnapApplied(sh, t, data) ==
  /\ IsShown(t) /\ t.cue = sh.cue /\ t.erased = sh.erased
  /\ t.hist.sound = sh.hist.sound /\ t.hist.promised = sh.hist.promised
  /\ t.hist.missed = sh.hist.missed /\ t.hist.overrun = sh.hist.overrun
  /\ t.hist.shown = data /\ t.reg.alive = TRUE /\ t.reg.at = sh.reg.at
  /\ Agrees(t.reg, data)

LEMMA SnapSampleFields ==
  ASSUME NEW sh, IsShown(sh), NEW data, NEW push,
         \A c \in DOMAIN data \ push : c \in DOMAIN sh.reg.data /\ sh.reg.data[c] = data[c]
  PROVE  SnapApplied(sh, Buf!SnapSample(sh, data, push), data)
<1>0. PICK t : t = Buf!SnapSample(sh, data, push)
  OBVIOUS
<1>1. PICK d : d = Buf!Pushed(sh.reg.data, sh.mask \ DOMAIN data, data, push)
  OBVIOUS
<1>2. \A c \in DOMAIN data : c \in DOMAIN d /\ d[c] = data[c]
  BY <1>1 DEF Buf!Pushed
<1>3. t = [sh EXCEPT !.reg.alive = TRUE, !.reg.data = d, !.mask = DOMAIN data,
                     !.hist.shown = data]
  BY <1>0, <1>1 DEF Buf!SnapSample
<1>4. /\ t.reg = [[sh.reg EXCEPT !.alive = TRUE] EXCEPT !.data = d]
      /\ t.cue = sh.cue /\ t.erased = sh.erased
      /\ t.hist = [sh.hist EXCEPT !.shown = data]
      /\ t = [reg |-> t.reg, mask |-> t.mask, cue |-> t.cue, hist |-> t.hist,
              erased |-> t.erased]
  BY <1>3 DEF IsShown
<1>5. /\ t.reg = [alive |-> t.reg.alive, at |-> t.reg.at, data |-> t.reg.data]
      /\ t.reg.alive = TRUE /\ t.reg.at = sh.reg.at /\ t.reg.data = d
  BY <1>4 DEF IsShown
<1>6. /\ t.hist = [shown |-> t.hist.shown, sound |-> t.hist.sound,
                   promised |-> t.hist.promised, missed |-> t.hist.missed,
                   overrun |-> t.hist.overrun]
      /\ t.hist.shown = data /\ t.hist.sound = sh.hist.sound
      /\ t.hist.promised = sh.hist.promised
      /\ t.hist.missed = sh.hist.missed /\ t.hist.overrun = sh.hist.overrun
  BY <1>4 DEF IsShown
<1>7. IsShown(t)
  BY <1>4, <1>5, <1>6 DEF IsShown
<1>8. Agrees(t.reg, data)
  BY <1>2, <1>5 DEF Agrees
<1>9. SnapApplied(sh, t, data)
  BY <1>4, <1>5, <1>6, <1>7, <1>8 DEF SnapApplied
<1> QED BY <1>0, <1>9

\* An entity that shows its record, with a ring that is empty.
LEMMA EmptyRingFollows ==
  ASSUME NEW sh, NEW r, NEW n, DOMAIN r = {}, sh.reg.at \in 0 .. n, sh.erased = FALSE,
         sh.reg.alive => Agrees(sh.reg, sh.hist.shown)
  PROVE  RegistryFollows(sh, r, n)
BY DEF RegistryFollows

LEMMA UpsertSnapKeeps ==
  ASSUME PlaybackInv, NEW f \in 1 .. PlayedFrames, f > bufRec.frame, bufRec.present,
         ~bufRec.erased, bufMode = "Snap", NEW data, NEW cues \in SUBSET (1 .. PlayedFrames),
         Buf!UpsertSnap(f, data, cues), UNCHANGED <<bufClock, bufApplied, bufMode>>
  PROVE  PlaybackInv'
<1>0. /\ f \in Nat /\ f > 0 /\ bufRec.frame \in Nat /\ DOMAIN bufRing = {}
      /\ bufClock \in Nat /\ bufApplied \in Nat /\ bufReg.alive \in BOOLEAN
      /\ bufRec.erased = FALSE /\ bufRec.present = TRUE
  BY PlayedConstants, ShownFields DEF PlaybackInv, IsShown
<1>1. PICK old : old = Buf!Shown
  OBVIOUS
<1>2. IsShown(old) /\ HeardAsPlayed(old) /\ RegistryFollows(old, bufRing, bufRec.frame)
  BY <1>1 DEF PlaybackInv
<1>3. PICK u : u = Buf!Received(old, f, cues)
  OBVIOUS
<1>4. RecordReceived(old, u, f, cues, old.mask)
  BY <1>2, <1>3, ReceivedFields
<1>5. IsShown(u) /\ u.erased = FALSE /\ u.reg = bufReg /\ u.reg.at = old.reg.at
  BY <1>0, <1>1, <1>4, ShownFields DEF RecordReceived
<1>6. PICK push : push = Buf!SnapPush(data)
  OBVIOUS
<1>7. \A c \in DOMAIN data \ push : c \in DOMAIN u.reg.data /\ u.reg.data[c] = data[c]
  <2>1. CASE Buf!Known
    <3>1. Agrees(bufReg, bufRec.data)
      BY <1>0, <2>1 DEF PlaybackInv, SnapShown
    <3>2. \A c \in DOMAIN data \ push : c \in DOMAIN bufRec.data /\ data[c] = bufRec.data[c]
      BY <1>6, <2>1 DEF Buf!SnapPush, Buf!ChangedComponents
    <3> QED BY <1>5, <3>1, <3>2 DEF Agrees
  <2>2. CASE ~Buf!Known
    BY <1>6, <2>2 DEF Buf!SnapPush
  <2> QED BY <2>1, <2>2
<1>8. PICK v : v = Buf!SnapSample(u, data, push)
  OBVIOUS
<1>9. SnapApplied(u, v, data)
  BY <1>5, <1>7, <1>8, SnapSampleFields
<1>10. HeardAsPlayed(v)
  BY <1>2, <1>4, <1>9 DEF HeardAsPlayed, RecordReceived, SnapApplied
<1>11. IsShown(v) /\ v.erased = FALSE /\ v.reg.alive = TRUE
  BY <1>5, <1>9 DEF SnapApplied
<1>12. PICK sh : sh = Buf!PlayCues(v, cues)
  OBVIOUS
<1>13. CuesPlayed(v, sh, cues)
  BY <1>10, <1>11, <1>12, PlayCuesFields
<1>14. /\ Buf!Commit(sh) /\ bufRing' = bufRing
       /\ bufRec' = [bufRec EXCEPT !.frame = f, !.data = data, !.mask = sh.mask]
  BY <1>1, <1>3, <1>6, <1>8, <1>12 DEF Buf!UpsertSnap
<1>15. /\ bufRec'.frame = f /\ bufRec'.data = data /\ bufRec'.present = TRUE
       /\ bufRec'.mask = sh.mask /\ bufRec'.erased = FALSE
       /\ bufRec' = [frame |-> bufRec'.frame, data |-> bufRec'.data, present |-> bufRec'.present,
                     mask |-> bufRec'.mask, erased |-> bufRec'.erased]
  BY <1>0, <1>14 DEF PlaybackInv
<1>16. IsShown(sh) /\ HeardAsPlayed(sh) /\ sh.erased = FALSE
  BY <1>11, <1>13 DEF CuesPlayed
<1>17. Buf!Shown' = sh /\ bufReg' = sh.reg /\ bufCue' = sh.cue /\ bufHist' = sh.hist
  BY <1>14, <1>15, <1>16, ShownAfter DEF Buf!Commit
<1>18. sh.reg = v.reg /\ sh.hist.shown = data /\ sh.reg.alive = TRUE /\ Agrees(sh.reg, data)
  BY <1>9, <1>13 DEF CuesPlayed, SnapApplied
<1>19. RegistryFollows(sh, bufRing', f)
  <2>1. sh.reg.at = old.reg.at
    BY <1>5, <1>9, <1>18 DEF SnapApplied
  <2>2. sh.reg.at \in 0 .. f
    BY <1>0, <1>2, <2>1 DEF RegistryFollows
  <2> QED BY <1>0, <1>14, <1>16, <1>18, <2>2, EmptyRingFollows
<1>20. PlayedRing(bufRing', f)
  BY <1>0, <1>14 DEF PlayedRing
<1>21. SnapShown' /\ DestroyAhead' /\ RecordShown' /\ ~Buf!Buffered'
  BY <1>15, <1>17, <1>18 DEF SnapShown, DestroyAhead, RecordShown, Buf!Buffered
<1>22. CuesWait'
  <2> SUFFICES ASSUME ~bufHist'.missed, ~bufHist'.overrun, NEW g \in bufHist'.promised
               PROVE  g \in bufCue'.played
    BY DEF CuesWait
  <2>1. /\ ~bufHist.missed /\ ~bufHist.overrun /\ g \in bufHist.promised \cup cues
        /\ bufCue'.played = bufCue.played \cup cues
    BY <1>1, <1>4, <1>9, <1>11, <1>13, <1>17, ShownFields
       DEF RecordReceived, SnapApplied, CuesPlayed
  <2> QED BY <1>0, <2>1 DEF PlaybackInv, CuesWait
<1> QED BY <1>0, <1>14, <1>15, <1>16, <1>17, <1>19, <1>20, <1>21, <1>22 DEF PlaybackInv

\* A record.
LEMMA UpsertKeeps ==
  ASSUME PlaybackInv, NEW f \in 1 .. PlayedFrames, NEW data,
         NEW fresh \in SUBSET (bufRec.frame + 1 .. f), NEW resent \in {{}, bufHist.promised},
         Buf!Upsert(f, data, fresh, resent)
  PROVE  PlaybackInv'
<1>0. bufRec.frame \in Nat /\ bufHist.promised \subseteq 1 .. PlayedFrames /\ PlayedFrames \in Nat
  BY PlayedConstants, ShownFields DEF PlaybackInv, HeardAsPlayed
<1>1. PICK cues \in SUBSET (1 .. PlayedFrames) : cues = fresh \cup resent
  <2>1. \A g \in fresh : g \in 1 .. PlayedFrames
    BY <1>0
  <2>2. \A g \in resent : g \in 1 .. PlayedFrames
    BY <1>0
  <2> QED BY <2>1, <2>2
<1>2. /\ ~bufRec.erased /\ bufRec.present /\ f > bufRec.frame
      /\ UNCHANGED <<bufClock, bufApplied, bufMode>>
  BY DEF Buf!Upsert, Buf!Gone
<1>3. CASE bufMode = "Snap"
  <2>1. Buf!UpsertSnap(f, data, cues)
    BY <1>1, <1>3 DEF Buf!Upsert
  <2> QED BY <1>1, <1>2, <1>3, <2>1, UpsertSnapKeeps
<1>4. CASE bufMode # "Snap"
  <2>1. PICK pro : pro = IF Buf!Known THEN fresh ELSE fresh \cap {f}
    OBVIOUS
  <2>2. pro \in SUBSET cues
    BY <1>1, <2>1
  <2>3. pro \subseteq FirstWritten(f) .. f
    <3>1. CASE Buf!Known
      BY <2>1, <3>1 DEF FirstWritten
    <3>2. CASE ~Buf!Known
      <4>1. pro \subseteq {f} /\ FirstWritten(f) = f /\ f \in f .. f
        BY <1>0, <2>1, <3>2 DEF FirstWritten
      <4> QED BY <4>1
    <3> QED BY <3>1, <3>2
  <2>4. Buf!UpsertBuffered(f, data, cues, pro) /\ bufMode = "BufferedInterpolation"
    BY <1>1, <1>4, <2>1 DEF Buf!Upsert, PlaybackInv
  <2> QED BY <1>1, <1>2, <2>2, <2>3, <2>4, UpsertBufferedKeeps
<1> QED BY <1>3, <1>4

\* What a step commits is shown next, with any mask.
ShowsNext(sh, t) ==
  /\ IsShown(t) /\ t.reg = sh.reg /\ t.cue = sh.cue /\ t.hist = sh.hist /\ t.erased = sh.erased

LEMMA ShownCommitted ==
  ASSUME NEW sh, IsShown(sh), Buf!Commit(sh), bufRec'.erased = sh.erased
  PROVE  ShowsNext(sh, Buf!Shown')
<1>1. PICK t : t = Buf!Shown'
  OBVIOUS
<1>2. /\ t = [reg |-> t.reg, mask |-> t.mask, cue |-> t.cue, hist |-> t.hist,
              erased |-> t.erased]
      /\ t.reg = sh.reg /\ t.cue = sh.cue /\ t.hist = sh.hist /\ t.erased = sh.erased
  BY <1>1 DEF Buf!Commit, Buf!Shown
<1>3. IsShown(t)
  BY <1>2 DEF IsShown
<1>4. ShowsNext(sh, t)
  BY <1>2, <1>3 DEF ShowsNext
<1> QED BY <1>1, <1>4

LEMMA DestroyKeeps ==
  ASSUME PlaybackInv, NEW f \in 1 .. PlayedFrames, Buf!DestroyEntity(f)
  PROVE  PlaybackInv'
<1>0. /\ f \in Nat /\ f > 0 /\ bufRec.frame \in Nat /\ PlayedRing(bufRing, bufRec.frame)
      /\ bufClock \in Nat /\ bufApplied \in Nat /\ bufReg.alive \in BOOLEAN
      /\ bufRec.erased = FALSE /\ f > bufRec.frame
      /\ UNCHANGED <<bufClock, bufApplied, bufMode>>
  BY PlayedConstants, ShownFields DEF PlaybackInv, IsShown, Buf!DestroyEntity, Buf!Gone
<1>1. PICK old : old = Buf!Shown
  OBVIOUS
<1>2. IsShown(old) /\ HeardAsPlayed(old) /\ RegistryFollows(old, bufRing, bufRec.frame)
  BY <1>1 DEF PlaybackInv
<1>3. PICK none : none = {}
  OBVIOUS
<1>4. PICK u : u = Buf!Received(old, f, none)
  OBVIOUS
<1>5. RecordReceived(old, u, f, none, old.mask)
  BY <1>2, <1>4, ReceivedFields
<1>6. IsShown(u) /\ HeardAsPlayed(u) /\ u.erased = FALSE
  BY <1>0, <1>1, <1>2, <1>3, <1>5, ShownFields DEF RecordReceived, HeardAsPlayed
<1>7. CASE bufMode = "Snap" \/ Buf!AlreadyApplied(f)
  <2>1. PICK sh : sh = Buf!EraseEntity(u)
    OBVIOUS
  <2>2. /\ Buf!Commit(sh) /\ bufRing' = <<>>
        /\ bufRec' = [bufRec EXCEPT !.frame = f, !.data = Buf!NoData, !.present = FALSE,
                                    !.mask = {}, !.erased = TRUE]
    BY <1>1, <1>3, <1>4, <1>7, <2>1 DEF Buf!DestroyEntity
  <2>3. /\ bufRec'.frame = f /\ bufRec'.present = FALSE /\ bufRec'.erased = TRUE
        /\ bufRec' = [frame |-> bufRec'.frame, data |-> bufRec'.data, present |-> bufRec'.present,
                      mask |-> bufRec'.mask, erased |-> bufRec'.erased]
    BY <2>2 DEF PlaybackInv
  <2>4. EntityErased(u, sh)
    BY <1>6, <2>1, EraseEntityFields
  <2>5. ShowsNext(sh, Buf!Shown')
    BY <2>2, <2>3, <2>4, ShownCommitted DEF EntityErased
  <2>6. PICK t : t = Buf!Shown'
    OBVIOUS
  <2>7. EntityErased(u, t)
    BY <2>4, <2>5, <2>6 DEF EntityErased, ShowsNext
  <2>8. IsShown(t) /\ HeardAsPlayed(t) /\ RegistryFollows(t, bufRing', f)
    BY <1>0, <1>6, <2>7 DEF EntityErased, HeardAsPlayed, RegistryFollows
  <2>9. DOMAIN bufRing' = {}
    BY <2>2
  <2>10. PlayedRing(bufRing', f)
    BY <2>9 DEF PlayedRing
  <2>11. SnapShown' /\ DestroyAhead' /\ RecordShown' /\ CuesWait' /\ ~Buf!Buffered'
    BY <2>3 DEF SnapShown, DestroyAhead, RecordShown, CuesWait, Buf!Buffered, Buf!Gone
  <2> QED BY <1>0, <2>3, <2>6, <2>8, <2>9, <2>10, <2>11 DEF PlaybackInv
<1>8. CASE ~(bufMode = "Snap" \/ Buf!AlreadyApplied(f))
  <2>1. PICK r : r = Buf!FilledRing(f, FALSE, Buf!NoData)
    OBVIOUS
  <2>2. /\ Buf!Commit(u) /\ bufRing' = r
        /\ bufRec' = [bufRec EXCEPT !.frame = f, !.data = Buf!NoData, !.present = FALSE,
                                    !.mask = {}]
    BY <1>1, <1>3, <1>4, <1>8, <2>1 DEF Buf!DestroyEntity
  <2>3. /\ bufRec'.frame = f /\ bufRec'.present = FALSE /\ bufRec'.erased = FALSE
        /\ bufRec' = [frame |-> bufRec'.frame, data |-> bufRec'.data, present |-> bufRec'.present,
                      mask |-> bufRec'.mask, erased |-> bufRec'.erased]
    BY <1>0, <2>2 DEF PlaybackInv
  <2>4. PICK data : data = Buf!NoData
    OBVIOUS
  <2>5. FilledFrames(r, f, FALSE, data)
    BY <1>0, <2>1, <2>4, FilledFramesFacts
  <2>6. PlayedRing(r, f)
    BY <1>0, <2>5, FilledIsPlayed
  <2>7. ShowsNext(u, Buf!Shown')
    BY <1>6, <2>2, <2>3, ShownCommitted
  <2>8. PICK t : t = Buf!Shown'
    OBVIOUS
  <2>9. IsShown(t) /\ HeardAsPlayed(t)
    BY <1>6, <2>7, <2>8 DEF ShowsNext, HeardAsPlayed
  <2>10. RegistryFollows(t, r, f)
    <3>1. t.reg = old.reg /\ t.erased = old.erased /\ t.hist.shown = old.hist.shown
      BY <1>5, <2>7, <2>8 DEF ShowsNext, RecordReceived
    <3>2. RegistryFollows(t, bufRing, bufRec.frame)
      BY <1>2, <3>1, SameRegistryFollows
    <3> QED BY <1>0, <2>5, <3>2, FilledFollows
  <2>11. bufMode' = "BufferedInterpolation"
    BY <1>0, <1>8 DEF PlaybackInv
  <2>12. bufRec'.frame \in DOMAIN bufRing' /\ bufRing'[bufRec'.frame].present = bufRec'.present
    BY <2>2, <2>3, <2>5 DEF FilledFrames
  <2>13. DestroyAhead'
    <3> SUFFICES ASSUME ~bufHist'.missed PROVE bufClock' < bufRec'.frame
      BY DEF DestroyAhead
    <3>1. ~(bufApplied < bufClock)
      BY <1>5, <2>2 DEF RecordReceived, Buf!Commit
    <3>2. bufApplied = 0 \/ f > bufApplied
      BY <1>0, <1>8 DEF Buf!AlreadyApplied, Buf!NoFrame
    <3> QED BY <1>0, <2>3, <3>1, <3>2
  <2>14. SnapShown' /\ RecordShown' /\ CuesWait'
    BY <2>3, <2>11 DEF SnapShown, RecordShown, CuesWait
  <2>15. ~(bufMode' = "Snap" \/ bufRec'.erased)
    BY <2>3, <2>11
  <2> QED BY <1>0, <2>2, <2>3, <2>6, <2>8, <2>9, <2>10, <2>11, <2>12, <2>13, <2>14, <2>15
          DEF PlaybackInv
<1> QED BY <1>7, <1>8

-----------------------------------------------------------------------------
(* Changes of mode                                                           *)

LEMMA PlaybackToBufferedKeeps ==
  ASSUME PlaybackInv, Buf!TransitionToBuffered
  PROVE  PlaybackInv'
<1>0. /\ bufRec.frame \in Nat /\ bufRec.frame > 0 /\ DOMAIN bufRing = {} /\ bufMode = "Snap"
      /\ bufReg.alive \in BOOLEAN /\ bufRec.erased = FALSE /\ bufRec.present \in BOOLEAN
      /\ bufMode' = "BufferedInterpolation" /\ UNCHANGED <<bufClock, bufApplied, bufCue, bufHist>>
  BY ShownFields DEF PlaybackInv, IsShown, Buf!TransitionToBuffered, Buf!Known, Buf!NoFrame,
                     Buf!Gone
<1>1. PICK n \in Nat : n = bufRec.frame
  BY <1>0
<1>2. PICK before : before = IF PlayedCapacity = 1 THEN Buf!NoSample ELSE Buf!SampleAt(bufRing, n - 1)
  OBVIOUS
<1>3. before.present = FALSE
  BY <1>0, <1>2 DEF Buf!NoSample, Buf!SampleAt
<1>4. PICK w : w = Buf!WriteFrame(before, bufRec.present, bufRec.data)
  OBVIOUS
<1>5. w.present = bufRec.present /\ w.data = bufRec.data /\ (w.present => w.push = DOMAIN w.data)
  BY <1>3, <1>4 DEF Buf!WriteFrame
<1>6. bufRing' = [g \in {n} |-> w]
  <2>1. bufRing' = [g \in Buf!KeptFrames(n, n) \cup {n} |-> IF g = n THEN w ELSE bufRing[g]]
    BY <1>1, <1>2, <1>4 DEF Buf!TransitionToBuffered
  <2>2. Buf!KeptFrames(n, n) = {}
    BY <1>0 DEF Buf!KeptFrames
  <2>3. Buf!KeptFrames(n, n) \cup {n} = {n}
    BY <2>2
  <2> QED BY <2>1, <2>3
<1>7. DOMAIN bufRing' = {n} /\ bufRing'[n] = w
  BY <1>6
<1>8. PlayedRing(bufRing', n)
  BY <1>0, <1>1, <1>5, <1>7 DEF PlayedRing
<1>9. /\ bufRec'.frame = n /\ bufRec'.data = bufRec.data /\ bufRec'.present = bufRec.present
      /\ bufRec'.erased = FALSE
      /\ bufRec' = [frame |-> bufRec'.frame, data |-> bufRec'.data, present |-> bufRec'.present,
                    mask |-> bufRec'.mask, erased |-> bufRec'.erased]
  BY <1>0, <1>1 DEF PlaybackInv, Buf!TransitionToBuffered
<1>10. PICK old : old = Buf!Shown
  OBVIOUS
<1>11. IsShown(old) /\ HeardAsPlayed(old) /\ RegistryFollows(old, bufRing, n)
  BY <1>1, <1>10 DEF PlaybackInv
<1>12. PICK t : t = Buf!Shown'
  OBVIOUS
<1>13. /\ t = [reg |-> t.reg, mask |-> t.mask, cue |-> t.cue, hist |-> t.hist,
               erased |-> t.erased]
       /\ t.reg = [old.reg EXCEPT !.at = 0] /\ t.reg = bufReg'
       /\ t.cue = old.cue /\ t.hist = old.hist /\ t.erased = FALSE /\ old.erased = FALSE
       /\ old.reg = bufReg
  BY <1>0, <1>9, <1>10, <1>12 DEF Buf!Shown, Buf!TransitionToBuffered, Buf!NoFrame
<1>14. /\ t.reg = [alive |-> t.reg.alive, at |-> t.reg.at, data |-> t.reg.data]
       /\ t.reg.at = 0 /\ t.reg.alive = old.reg.alive /\ t.reg.data = old.reg.data
  BY <1>11, <1>13 DEF IsShown
<1>15. IsShown(t) /\ HeardAsPlayed(t)
  BY <1>11, <1>13, <1>14 DEF IsShown, HeardAsPlayed
<1>16. RegistryFollows(t, bufRing', n)
  <2>1. t.reg.alive => Agrees(t.reg, t.hist.shown)
    BY <1>11, <1>13, <1>14 DEF RegistryFollows, Agrees
  <2>2. 0 \notin DOMAIN bufRing' /\ 0 \in 0 .. n
    BY <1>0, <1>1, <1>7
  <2>3. \A g \in DOMAIN bufRing' : bufRing'[g].present => bufRing'[g].push = DOMAIN bufRing'[g].data
    BY <1>5, <1>7
  <2> QED BY <1>13, <1>14, <2>1, <2>2, <2>3 DEF RegistryFollows
<1>17. /\ bufReg'.alive = bufReg.alive
       /\ IF bufRec.present THEN bufReg.alive ELSE ~bufReg.alive
  BY <1>0, <1>13, <1>14 DEF PlaybackInv, SnapShown, Buf!Known, Buf!NoFrame
<1>18. SnapShown'
  BY <1>0 DEF SnapShown
<1>19. DestroyAhead'
  BY <1>5, <1>7, <1>9, <1>17 DEF DestroyAhead
<1>20. RecordShown'
  BY <1>9, <1>17 DEF RecordShown
<1>21. CuesWait'
  BY <1>0, <1>9 DEF PlaybackInv, CuesWait
<1>22. bufRec'.frame \in DOMAIN bufRing' /\ bufRing'[bufRec'.frame].present = bufRec'.present
  BY <1>5, <1>7, <1>9
<1>23. bufClock' \in Nat /\ bufApplied' \in Nat
  BY <1>0 DEF PlaybackInv
<1>24. ~(bufMode' = "Snap" \/ bufRec'.erased)
  BY <1>0, <1>9
<1> QED BY <1>0, <1>1, <1>8, <1>9, <1>12, <1>15, <1>16, <1>18, <1>19, <1>20, <1>21, <1>22, <1>23,
           <1>24 DEF PlaybackInv

\* An entity without its local one.
LEMMA NotShownFields ==
  ASSUME NEW sh, IsShown(sh), NEW t,
         t = [sh EXCEPT !.reg.alive = FALSE, !.reg.data = Buf!NoData, !.mask = {},
                        !.hist.shown = Buf!NoData]
  PROVE  /\ IsShown(t) /\ t.cue = sh.cue /\ t.erased = sh.erased
         /\ t.hist.sound = sh.hist.sound /\ t.hist.promised = sh.hist.promised
         /\ t.reg.alive = FALSE /\ t.reg.at = sh.reg.at
<1>1. /\ t.reg = [[sh.reg EXCEPT !.alive = FALSE] EXCEPT !.data = Buf!NoData]
      /\ t.cue = sh.cue /\ t.erased = sh.erased
      /\ t.hist = [sh.hist EXCEPT !.shown = Buf!NoData]
      /\ t = [reg |-> t.reg, mask |-> t.mask, cue |-> t.cue, hist |-> t.hist,
              erased |-> t.erased]
  BY DEF IsShown
<1>2. /\ t.reg = [alive |-> t.reg.alive, at |-> t.reg.at, data |-> t.reg.data]
      /\ t.reg.alive = FALSE /\ t.reg.at = sh.reg.at
  BY <1>1 DEF IsShown
<1>3. /\ t.hist = [shown |-> t.hist.shown, sound |-> t.hist.sound,
                   promised |-> t.hist.promised, missed |-> t.hist.missed,
                   overrun |-> t.hist.overrun]
      /\ t.hist.sound = sh.hist.sound /\ t.hist.promised = sh.hist.promised
      /\ t.hist.missed = sh.hist.missed /\ t.hist.overrun = sh.hist.overrun
  BY <1>1 DEF IsShown
<1>4. IsShown(t)
  BY <1>1, <1>2, <1>3 DEF IsShown
<1> QED BY <1>1, <1>2, <1>3, <1>4

LEMMA PlaybackToSnapKeeps ==
  ASSUME PlaybackInv, Buf!TransitionToSnap
  PROVE  PlaybackInv'
<1>0. /\ bufRec.frame \in Nat /\ bufMode' = "Snap" /\ UNCHANGED <<bufClock, bufApplied>>
      /\ bufReg.alive \in BOOLEAN /\ bufRec.erased = FALSE /\ bufRec.present \in BOOLEAN
      /\ bufRing' = <<>> /\ DOMAIN bufRing' = {}
  BY ShownFields DEF PlaybackInv, IsShown, Buf!TransitionToSnap, Buf!Gone
<1>1. PICK old : old = Buf!Shown
  OBVIOUS
<1>2. IsShown(old) /\ HeardAsPlayed(old) /\ RegistryFollows(old, bufRing, bufRec.frame)
      /\ old.erased = FALSE /\ old.cue = bufCue /\ old.hist = bufHist
  BY <1>0, <1>1, ShownFields DEF PlaybackInv
<1>3. PICK v : v = IF bufRec.present THEN Buf!SnapSample(old, bufRec.data, DOMAIN bufRec.data)
                   ELSE [old EXCEPT !.reg.alive = FALSE, !.reg.data = Buf!NoData, !.mask = {},
                                    !.hist.shown = Buf!NoData]
  OBVIOUS
<1>4. PICK sh : sh = Buf!PlayCues(v, v.cue.buffered)
  OBVIOUS
<1>5. PICK w : w = [sh EXCEPT !.cue.buffered = {}]
  OBVIOUS
<1>6. Buf!Commit(w) /\ bufRec' = [bufRec EXCEPT !.mask = sh.mask]
  BY <1>1, <1>3, <1>4, <1>5 DEF Buf!TransitionToSnap, Buf!TransitionCues
<1>7. /\ IsShown(v) /\ HeardAsPlayed(v) /\ v.erased = FALSE /\ v.cue = bufCue
      /\ v.reg.at = old.reg.at /\ (v.reg.alive => Agrees(v.reg, v.hist.shown))
      /\ v.hist.promised = bufHist.promised
      /\ bufRec.present => /\ v.reg.alive = TRUE /\ Agrees(v.reg, bufRec.data)
                           /\ v.hist.missed = bufHist.missed /\ v.hist.overrun = bufHist.overrun
      /\ ~bufRec.present => v.reg.alive = FALSE
  <2>1. CASE bufRec.present = TRUE
    <3>1. PICK data : data = bufRec.data
      OBVIOUS
    <3>2. PICK push : push = DOMAIN data
      OBVIOUS
    <3>3. SnapApplied(old, Buf!SnapSample(old, data, push), data)
      BY <1>2, <3>2, SnapSampleFields
    <3>4. SnapApplied(old, v, data)
      BY <1>3, <2>1, <3>1, <3>2, <3>3
    <3>5. HeardAsPlayed(v)
      BY <1>2, <3>4 DEF SnapApplied, HeardAsPlayed
    <3> QED BY <1>2, <2>1, <3>1, <3>4, <3>5 DEF SnapApplied
  <2>2. CASE bufRec.present = FALSE
    <3>1. v = [old EXCEPT !.reg.alive = FALSE, !.reg.data = Buf!NoData, !.mask = {},
                          !.hist.shown = Buf!NoData]
      BY <1>3, <2>2
    <3>2. /\ IsShown(v) /\ v.cue = old.cue /\ v.erased = old.erased
          /\ v.hist.sound = old.hist.sound /\ v.hist.promised = old.hist.promised
          /\ v.reg.alive = FALSE /\ v.reg.at = old.reg.at
      BY <1>2, <3>1, NotShownFields
    <3>3. HeardAsPlayed(v)
      BY <1>2, <3>2 DEF HeardAsPlayed
    <3> QED BY <1>2, <2>2, <3>2, <3>3
  <2> QED BY <1>0, <2>1, <2>2
<1>8. PICK due : due = v.cue.buffered
  OBVIOUS
<1>9. CuesPlayed(v, sh, due)
  BY <1>4, <1>7, <1>8, PlayCuesFields
<1>10. /\ w.reg = sh.reg /\ w.mask = sh.mask /\ w.hist = sh.hist /\ w.erased = sh.erased
       /\ w.cue = [sh.cue EXCEPT !.buffered = {}]
       /\ w = [reg |-> w.reg, mask |-> w.mask, cue |-> w.cue, hist |-> w.hist,
               erased |-> w.erased]
  BY <1>5, <1>9 DEF CuesPlayed, IsShown
<1>11. /\ w.cue = [buffered |-> w.cue.buffered, played |-> w.cue.played]
       /\ w.cue.buffered = {} /\ w.cue.played = sh.cue.played
  BY <1>9, <1>10 DEF CuesPlayed, IsShown
<1>12. IsShown(w) /\ HeardAsPlayed(w) /\ w.erased = FALSE
  BY <1>7, <1>9, <1>10, <1>11 DEF CuesPlayed, IsShown, HeardAsPlayed
<1>13. /\ bufRec'.frame = bufRec.frame /\ bufRec'.data = bufRec.data
       /\ bufRec'.present = bufRec.present /\ bufRec'.erased = FALSE /\ bufRec'.mask = w.mask
       /\ bufRec' = [frame |-> bufRec'.frame, data |-> bufRec'.data, present |-> bufRec'.present,
                     mask |-> bufRec'.mask, erased |-> bufRec'.erased]
  BY <1>0, <1>6, <1>10 DEF PlaybackInv
<1>14. Buf!Shown' = w /\ bufReg' = w.reg /\ bufCue' = w.cue /\ bufHist' = w.hist
  BY <1>6, <1>12, <1>13, ShownAfter DEF Buf!Commit
<1>15. w.reg = v.reg /\ w.hist.shown = v.hist.shown
  BY <1>9, <1>10 DEF CuesPlayed
<1>16. RegistryFollows(w, bufRing', bufRec.frame)
  <2>1. w.reg.at \in 0 .. bufRec.frame
    BY <1>2, <1>7, <1>15 DEF RegistryFollows
  <2> QED BY <1>0, <1>7, <1>12, <1>15, <2>1, EmptyRingFollows
<1>17. PlayedRing(bufRing', bufRec.frame)
  BY <1>0 DEF PlayedRing
<1>18. SnapShown'
  BY <1>0, <1>7, <1>13, <1>14, <1>15 DEF SnapShown
<1>19. DestroyAhead' /\ RecordShown' /\ ~Buf!Buffered'
  BY <1>0 DEF DestroyAhead, RecordShown, Buf!Buffered
<1>20. CuesWait'
  <2> SUFFICES ASSUME bufRec'.present, ~bufHist'.missed, ~bufHist'.overrun,
                      NEW g \in bufHist'.promised
               PROVE  g \in bufCue'.played
    BY DEF CuesWait
  <2>1. /\ bufRec.present /\ ~bufHist.missed /\ ~bufHist.overrun /\ g \in bufHist.promised
        /\ bufCue'.played = bufCue.played \cup bufCue.buffered
    BY <1>7, <1>8, <1>9, <1>10, <1>11, <1>13, <1>14 DEF CuesPlayed
  <2> QED BY <1>0, <2>1 DEF PlaybackInv, CuesWait
<1>21. bufClock' \in Nat /\ bufApplied' \in Nat
  BY <1>0 DEF PlaybackInv
<1> QED BY <1>0, <1>12, <1>13, <1>14, <1>16, <1>17, <1>18, <1>19, <1>20, <1>21 DEF PlaybackInv

-----------------------------------------------------------------------------
(* The playback as a whole                                                   *)

LEMMA PlaybackStarts ==
  ASSUME Buf!Init
  PROVE  PlaybackInv
<1>1. /\ bufClock = 0 /\ bufApplied = 0 /\ bufMode \in {"Snap", "BufferedInterpolation"}
      /\ bufRec = [frame |-> 0, data |-> Buf!NoData, present |-> TRUE, mask |-> {}, erased |-> FALSE]
      /\ bufRing = <<>> /\ bufReg = [alive |-> FALSE, at |-> 0, data |-> Buf!NoData]
      /\ bufCue = [buffered |-> {}, played |-> {}]
      /\ bufHist = [shown |-> Buf!NoData, sound |-> [f \in 1 .. PlayedFrames |-> 0],
                    promised |-> {}, missed |-> FALSE, overrun |-> FALSE]
  BY DEF Buf!Init, Buf!NoFrame, Buf!NoLocal, Buf!Frames
<1>2. DOMAIN bufRing = {}
  BY <1>1
<1>3. /\ bufRec.frame = 0 /\ bufRec.present = TRUE /\ bufRec.erased = FALSE
      /\ bufRec = [frame |-> bufRec.frame, data |-> bufRec.data, present |-> bufRec.present,
                   mask |-> bufRec.mask, erased |-> bufRec.erased]
  BY <1>1
<1>4. IsShown(Buf!Shown)
  <2>1. PICK sh : sh = Buf!Shown
    OBVIOUS
  <2>2. /\ sh = [reg |-> sh.reg, mask |-> sh.mask, cue |-> sh.cue, hist |-> sh.hist,
                 erased |-> sh.erased]
        /\ sh.reg = bufReg /\ sh.cue = bufCue /\ sh.hist = bufHist /\ sh.erased = FALSE
    BY <1>3, <2>1 DEF Buf!Shown
  <2>3. /\ bufReg = [alive |-> bufReg.alive, at |-> bufReg.at, data |-> bufReg.data]
        /\ bufReg.alive = FALSE
        /\ bufCue = [buffered |-> bufCue.buffered, played |-> bufCue.played]
    BY <1>1
  <2>4. PICK snd : snd = [f \in 1 .. PlayedFrames |-> 0]
    OBVIOUS
  <2>5. bufHist = [shown |-> Buf!NoData, sound |-> snd, promised |-> {}, missed |-> FALSE,
                   overrun |-> FALSE]
    BY <1>1, <2>4
  <2>6. /\ bufHist = [shown |-> bufHist.shown, sound |-> bufHist.sound,
                      promised |-> bufHist.promised, missed |-> bufHist.missed,
                      overrun |-> bufHist.overrun]
        /\ bufHist.missed = FALSE /\ bufHist.overrun = FALSE
    BY <2>5
  <2>7. IsShown(sh)
    BY <2>2, <2>3, <2>6 DEF IsShown
  <2> QED BY <2>1, <2>7
<1>5. PlayedRing(bufRing, 0)
  BY <1>2 DEF PlayedRing
<1>6. RegistryFollows(Buf!Shown, bufRing, 0)
  BY <1>1, <1>2, <1>3, ShownFields DEF RegistryFollows
<1>7. HeardAsPlayed(Buf!Shown)
  BY <1>1, ShownFields DEF HeardAsPlayed
<1>8. ~Buf!Known /\ ~Buf!Buffered
  BY <1>3 DEF Buf!Known, Buf!Buffered, Buf!NoFrame
<1>9. SnapShown /\ DestroyAhead /\ RecordShown
  BY <1>8 DEF SnapShown, DestroyAhead, RecordShown
<1>10. CuesWait
  BY <1>1 DEF CuesWait
<1> QED BY <1>1, <1>2, <1>3, <1>4, <1>5, <1>6, <1>7, <1>8, <1>9, <1>10 DEF PlaybackInv

LEMMA PlaybackKeeps ==
  ASSUME PlaybackInv, Buf!Next
  PROVE  PlaybackInv'
<1>1. CASE Buf!AdvanceFrame \/ Buf!GrowLag
  BY <1>1, AdvanceKeeps, GrowLagKeeps
<1>2. CASE \E f \in 1 .. PlayedFrames : Buf!Reconfigure(f)
  BY <1>2, ReconfigureKeeps
<1>3. CASE \E f \in 1 .. PlayedFrames : Buf!Resimulate(f)
  BY <1>3, ResimulateKeeps
<1>4. CASE \E f \in 1 .. PlayedFrames, data \in Buf!Data :
             \E fresh \in SUBSET (bufRec.frame + 1 .. f) :
               \E resent \in {{}, bufHist.promised} : Buf!Upsert(f, data, fresh, resent)
  <2>1. PICK f \in 1 .. PlayedFrames, data \in Buf!Data :
             \E fresh \in SUBSET (bufRec.frame + 1 .. f) :
               \E resent \in {{}, bufHist.promised} : Buf!Upsert(f, data, fresh, resent)
    BY <1>4
  <2>2. PICK fresh \in SUBSET (bufRec.frame + 1 .. f), resent \in {{}, bufHist.promised} :
             Buf!Upsert(f, data, fresh, resent)
    BY <2>1
  <2> QED BY <2>1, <2>2, UpsertKeeps, Zenon
<1>5. CASE \E f \in 1 .. PlayedFrames : Buf!DestroyEntity(f)
  BY <1>5, DestroyKeeps
<1>6. CASE Buf!TransitionToBuffered \/ Buf!TransitionToSnap
  BY <1>6, PlaybackToBufferedKeeps, PlaybackToSnapKeeps
<1> QED BY <1>1, <1>2, <1>3, <1>4, <1>5, <1>6, Zenon DEF Buf!Next, Buf!Frames

LEMMA PlaybackStutters ==
  ASSUME PlaybackInv, UNCHANGED playedVars
  PROVE  PlaybackInv'
<1>1. UNCHANGED <<bufClock, bufApplied, bufMode, bufRec, bufRing, bufReg, bufCue, bufHist>>
  BY DEF playedVars
<1>2. /\ Buf!Shown' = Buf!Shown /\ Buf!Buffered' = Buf!Buffered
      /\ SnapShown' /\ DestroyAhead' /\ RecordShown' /\ CuesWait'
  BY <1>1 DEF Buf!Shown, Buf!Buffered, Buf!Known, Buf!Gone, SnapShown, DestroyAhead, RecordShown,
              CuesWait, PlaybackInv
<1> QED BY <1>1, <1>2 DEF PlaybackInv

LEMMA PlaybackInvariant == MCSpec => []PlaybackInv
<1>1. MCInit => PlaybackInv
  BY PlaybackStarts DEF MCInit
<1>2. PlaybackInv /\ [MCNext]_<<part, vars, drawnVars, dspServer, playedVars>> => PlaybackInv'
  <2> SUFFICES ASSUME PlaybackInv, [MCNext]_<<part, vars, drawnVars, dspServer, playedVars>>
               PROVE  PlaybackInv'
    OBVIOUS
  <2>1. Buf!Next \/ UNCHANGED playedVars
    BY DEF MCNext
  <2> QED BY <2>1, PlaybackKeeps, PlaybackStutters
<1> QED BY <1>1, <1>2, PTL DEF MCSpec

\* What is pushed to the registry incrementally adds up, and nothing outlives its
\* destroy: for every archetype, ring size and number of frames, over frames that are
\* skipped, repeated or late, rollbacks and changes of mode.
THEOREM RegistryAlwaysShowsFrame == MCSpec => []RegistryShowsFrame
<1>1. PlaybackInv => RegistryShowsFrame
  <2> SUFFICES ASSUME PlaybackInv PROVE RegistryShowsFrame
    OBVIOUS
  <2>1. /\ bufClock \in Nat /\ bufRec.frame \in Nat
        /\ bufReg.alive => Agrees(bufReg, bufHist.shown)
        /\ bufRec.erased => ~bufReg.alive
    BY ShownFields DEF PlaybackInv, RegistryFollows
  <2>2. ASSUME Buf!Known, ~bufRec.present, ~bufHist.missed, bufRec.frame <= bufClock
        PROVE  ~bufReg.alive
    <3>1. CASE bufRec.erased
      BY <2>1, <3>1
    <3>2. CASE bufMode = "Snap" /\ ~bufRec.erased
      BY <2>2, <3>2 DEF PlaybackInv, SnapShown
    <3>3. CASE bufMode = "BufferedInterpolation" /\ ~bufRec.erased
      <4>1. Buf!Buffered
        BY <2>2, <3>3 DEF Buf!Buffered, Buf!Gone
      <4> QED BY <2>1, <2>2, <4>1 DEF PlaybackInv, DestroyAhead
    <3> QED BY <3>1, <3>2, <3>3 DEF PlaybackInv
  <2> QED BY <2>1, <2>2 DEF RegistryShowsFrame, Buf!RegistryShowsFrame, Agrees
<1> QED BY <1>1, PlaybackInvariant, PTL

\* A cue is heard at most once, and in its frame unless that was skipped or fell out
\* of the ring.
THEOREM CuesAlwaysHeardOnce == MCSpec => []CuesHeardOnce
<1>1. PlaybackInv => CuesHeardOnce
  <2> SUFFICES ASSUME PlaybackInv PROVE CuesHeardOnce
    OBVIOUS
  <2>1. /\ bufHist.sound \in [1 .. PlayedFrames -> {0, 1}]
        /\ ~bufRec.erased => \A f \in 1 .. PlayedFrames : bufHist.sound[f] = 1 <=> f \in bufCue.played
        /\ bufHist.promised \subseteq 1 .. PlayedFrames
        /\ bufClock \in Nat
    BY ShownFields DEF PlaybackInv, HeardAsPlayed
  <2>2. ASSUME NEW f \in 1 .. PlayedFrames PROVE bufHist.sound[f] <= 1
    <3>1. bufHist.sound[f] = 0 \/ bufHist.sound[f] = 1
      BY <2>1
    <3> QED BY <3>1
  <2>3. ASSUME ~bufRec.erased, bufRec.present, ~bufHist.missed, ~bufHist.overrun,
               NEW f \in bufHist.promised, bufMode = "Snap" \/ f <= bufClock
        PROVE  bufHist.sound[f] = 1
    <3>0. f \in 1 .. PlayedFrames /\ f \in Nat
      BY <2>1, PlayedConstants
    <3>1. f \in bufCue.played
      BY <2>1, <2>3, <3>0 DEF PlaybackInv, CuesWait
    <3> QED BY <2>1, <2>3, <3>0, <3>1
  <2> QED BY <2>2, <2>3 DEF CuesHeardOnce, Buf!CuesHeardOnce, Buf!Gone, Buf!Frames
<1> QED BY <1>1, PlaybackInvariant, PTL

================================================================================
