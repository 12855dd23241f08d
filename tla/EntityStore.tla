----------------------------- MODULE EntityStore -----------------------------
(* What the client knows of replicated entities (client/store/entity_store.cpp,*)
(* client/entity.cpp): slots that are reused, three maps into them, the lists  *)
(* of slots each runtime walks (with the slot's place in every list, for       *)
(* removal in constant time), the versions of wire ids and the tombstones that *)
(* keep late records of a destroyed entity out. Records of the server arrive   *)
(* in any order. Component values are abstract here: whether a correction is   *)
(* being blended out and whether a prediction was wrong are free choices.      *)
(* Slots and positions count from 1; 0 is the code's "invalid" index.          *)
EXTENDS Integers, Sequences, FiniteSets, SequencesExt, Selection

CONSTANTS
  Wires,          \* wire network ids
  NoWire,         \* not a wire id
  MaxSlots,       \* bound: slots the vector may grow to
  MaxLocals,      \* bound: entities the client's registry creates
  MaxFrame,       \* bound: server frames
  Modes,          \* modes of an entity, a subset of Snap, Buffered and Predict
  MaxDestroys,    \* bound: destroy records that leave a tombstone
  MaxTombstones,  \* max_destroy_tombstones (65536)
  CompactAt       \* consumed ages before they are dropped (4096)

VARIABLES
  store,   \* ClientEntityStore: slots, free slots, lists and maps
  tombs,   \* ClientEntityStore: tombstones and their ages
  locals,  \* the registry: entities created and those alive
  applied, \* the last buffered frame that was applied
  order    \* history: wire ids with a tombstone, the oldest record first

vars == <<store, tombs, locals, applied, order>>

Lists == {"active", "buffered", "snapError", "predicted", "rollback"}

NoEntity ==
  [id |-> <<NoWire, 0>>, local |-> 0, present |-> TRUE, frame |-> 0, mode |-> "Snap",
   selected |-> FALSE, since |-> 0, error |-> FALSE, pending |-> FALSE,
   pos |-> [l \in Lists |-> 0]]

\* A map without or with one more entry.
Without(f, k) == [x \in DOMAIN f \ {k} |-> f[x]]
With(f, k, v) == [x \in DOMAIN f \cup {k} |-> IF x = k THEN v ELSE f[x]]

Set(s, i, e) == [s EXCEPT !.ent[i] = e]

------------------------------------------------------------------------------
(* Lists with constant-time removal                                            *)

\* Seeded fault: the slot that fills the gap is not told its new place.
SetMembershipForgets(s, i, l, member) ==
  LET at == s.ent[i].pos[l]
      members == s.lists[l]
  IN  IF member
      THEN IF at # 0 THEN s
           ELSE [s EXCEPT !.lists[l] = Append(members, i), !.ent[i].pos[l] = Len(members) + 1]
      ELSE IF at = 0 \/ at > Len(members) THEN [s EXCEPT !.ent[i].pos[l] = 0]
      ELSE [s EXCEPT !.lists[l] = Front([members EXCEPT ![at] = Last(members)]),
                     !.ent[i].pos[l] = 0]

SetMembership(s, i, l, member) ==
  LET at == s.ent[i].pos[l]
      members == s.lists[l]
  IN  IF member
      THEN IF at # 0 THEN s
           ELSE [s EXCEPT !.lists[l] = Append(members, i), !.ent[i].pos[l] = Len(members) + 1]
      ELSE IF at = 0 \/ at > Len(members) THEN [s EXCEPT !.ent[i].pos[l] = 0]
      ELSE [s EXCEPT !.lists[l] = Front([members EXCEPT ![at] = Last(members)]),
                     !.ent[Last(members)].pos[l] = at,
                     !.ent[i].pos[l] = 0]

SyncModeMemberships(s, i) ==
  LET e == s.ent[i]
      buffered == SetMembership(s, i, "buffered", e.mode = "Buffered")
      predicted == SetMembership(buffered, i, "predicted", e.mode = "Predict")
  IN  IF e.id \in DOMAIN s.byClient /\ s.byClient[e.id] = i
      THEN SetMembership(predicted, i, "snapError", e.mode \in {"Snap", "Predict"} /\ e.error)
      ELSE s

------------------------------------------------------------------------------
(* Slots and maps                                                              *)

IdOf(s, w) == <<w, IF s.wires[w].version = 0 THEN 1 ELSE s.wires[w].version>>

EnsureWireVersion(s, w) == [s EXCEPT !.wires[w].version = IdOf(s, w)[2]]

FindByClient(s, id) == IF id \in DOMAIN s.byClient THEN s.byClient[id] ELSE 0

FindByWire(s, w) ==
  LET i == s.wires[w].slot IN IF i # 0 /\ s.ent[i].id[1] = w THEN i ELSE 0

\* The slot of an entity, a free one or a new one.
EnsureEntityState(s, id) ==
  LET grown == IF s.free # <<>> THEN [s EXCEPT !.free = Front(@)]
               ELSE [s EXCEPT !.ent = Append(@, NoEntity)]
      i == IF s.free # <<>> THEN Last(s.free) ELSE Len(s.ent) + 1
      fresh == SetMembership(Set(grown, i, [NoEntity EXCEPT !.id = id]), i, "active", TRUE)
  IN  IF FindByClient(s, id) # 0 THEN s
      ELSE [fresh EXCEPT !.byClient = With(@, id, i), !.wires[id[1]].slot = i]

UnmapEntityState(s, i) ==
  LET id == s.ent[i].id
      client == IF FindByClient(s, id) = i THEN [s EXCEPT !.byClient = Without(@, id)] ELSE s
  IN  IF s.wires[id[1]].slot = i THEN [client EXCEPT !.wires[id[1]].slot = 0] ELSE client

UnregisterLocal(s, i) ==
  LET local == s.ent[i].local
  IN  IF local \in DOMAIN s.byLocal /\ s.byLocal[local] = i
      THEN [s EXCEPT !.byLocal = Without(@, local)] ELSE s

ReleaseEntityState(s, i) ==
  LET out == FoldLeft(LAMBDA t, l : SetMembership(t, i, l, FALSE), s,
                      <<"buffered", "snapError", "predicted", "rollback", "active">>)
  IN  [Set(out, i, NoEntity) EXCEPT !.free = Append(@, i)]

EraseEntityState(s, i) == ReleaseEntityState(UnregisterLocal(UnmapEntityState(s, i), i), i)

AdvanceWireVersion(s, w) ==
  [s EXCEPT !.wires[w].version = IF @ = 0 THEN 1 ELSE @ + 1, !.wires[w].slot = 0]

\* The entity has one in the registry: it is made anew when the application
\* destroyed it.
NeedsLocal(e) == e.local = 0 \/ e.local \notin locals.alive

EnsureLocal(s, i) ==
  LET new == locals.made + 1
      unregistered == UnregisterLocal(s, i)
  IN  IF NeedsLocal(s.ent[i])
      THEN [unregistered EXCEPT !.ent[i].local = new, !.byLocal = With(@, new, i)]
      ELSE [s EXCEPT !.byLocal = With(@, s.ent[i].local, i)]

CreatesLocal(e) ==
  IF NeedsLocal(e)
  THEN /\ locals.made < MaxLocals
       /\ locals' = [made |-> locals.made + 1, alive |-> locals.alive \cup {locals.made + 1}]
  ELSE UNCHANGED locals

DropsLocal(e) == locals' = [locals EXCEPT !.alive = @ \ {e.local}]

\* apply_buffered_sample and apply_latest_snap of an absent entity.
HideLocal(s, i) == [UnregisterLocal(s, i) EXCEPT !.ent[i].local = 0, !.ent[i].error = FALSE]

------------------------------------------------------------------------------
(* Tombstones                                                                  *)

Blocks(w, f) == w \in DOMAIN tombs.of /\ f <= tombs.of[w].frame

\* The wire ids with a tombstone, sorted by age.
OldestFirst(of) ==
  CHOOSE q \in [1..Cardinality(DOMAIN of) -> DOMAIN of] :
    /\ {q[i] : i \in DOMAIN q} = DOMAIN of
    /\ \A i, j \in DOMAIN q : i < j => of[q[i]].age < of[q[j]].age

RebuiltAges(of) ==
  LET q == OldestFirst(of)
  IN  [i \in DOMAIN q |-> [wire |-> q[i], gen |-> of[q[i]].gen, age |-> of[q[i]].age]]

\* Seeded fault: the consumed ages are dropped but still counted.
DropConsumedKeepsBegin(t) ==
  IF t.begin = Len(t.ages) THEN [t EXCEPT !.ages = <<>>, !.begin = 0]
  ELSE IF t.begin >= CompactAt /\ t.begin * 2 >= Len(t.ages)
  THEN [t EXCEPT !.ages = SubSeq(@, t.begin + 1, Len(@))]
  ELSE t

DropConsumed(t) ==
  IF t.begin = Len(t.ages) THEN [t EXCEPT !.ages = <<>>, !.begin = 0]
  ELSE IF t.begin >= CompactAt /\ t.begin * 2 >= Len(t.ages)
  THEN [t EXCEPT !.ages = SubSeq(@, t.begin + 1, Len(@)), !.begin = 0]
  ELSE t

\* The queued ages without the consumed ones, or rebuilt from the tombstones
\* when there are too many.
CompactAges(t) ==
  LET dropped == DropConsumed(t)
  IN  IF Len(dropped.ages) <= MaxTombstones * 2 THEN dropped
      ELSE [dropped EXCEPT !.ages = RebuiltAges(t.of), !.begin = 0]

IsCurrent(of, a) ==
  a.wire \in DOMAIN of /\ of[a.wire].gen = a.gen /\ of[a.wire].age = a.age

\* The ages up to the n-th that still stand for a tombstone.
Live(t, n) == {k \in (t.begin + 1)..n : IsCurrent(t.of, t.ages[k])}

\* Ages are consumed until no more than the limit is left.
Evict(t) ==
  LET over == Cardinality(DOMAIN t.of) - MaxTombstones
      ends == {n \in (t.begin + 1)..Len(t.ages) : Cardinality(Live(t, n)) = over} \cup {Len(t.ages)}
      end  == CHOOSE n \in ends : \A m \in ends : n <= m
  IN  IF over <= 0 THEN t
      ELSE CompactAges([t EXCEPT !.begin = end,
                          !.of = [w \in DOMAIN t.of \ {t.ages[k].wire : k \in Live(t, end)} |-> t.of[w]]])

\* The tombstones with one more, or a later one of the same wire id.
Recorded(t, w, f) ==
  LET gen == IF w \in DOMAIN t.of THEN t.of[w].gen + 1 ELSE 0
  IN  [of    |-> With(t.of, w, [frame |-> f, gen |-> gen, age |-> t.next]),
       ages  |-> Append(t.ages, [wire |-> w, gen |-> gen, age |-> t.next]),
       begin |-> t.begin, next |-> t.next + 1]

\* The history without w.
Others(o, w) == Chosen(o, {k \in DOMAIN o : o[k] # w})

RecordTombstone(w, f) ==
  IF Blocks(w, f) THEN UNCHANGED <<tombs, order>>
  ELSE /\ tombs' = Evict(CompactAges(Recorded(tombs, w, f)))
       /\ order' = LET o == Append(Others(order, w), w)
                   IN  IF Len(o) > MaxTombstones THEN Tail(o) ELSE o

EraseTombstone(w) ==
  /\ tombs' = [tombs EXCEPT !.of = Without(@, w)]
  /\ order' = Others(order, w)

------------------------------------------------------------------------------
(* Records of the server                                                       *)

Shown(e, f) == e.mode = "Buffered" /\ applied # 0 /\ f <= applied

\* Record f makes the entity in slot i present; "wrong": its prediction of f
\* was wrong, "error": a correction is left to blend out.
Present(s, i, f, error, wrong) ==
  LET e == s.ent[i]
      needs == e.mode = "Snap" \/ Shown(e, f)
                 \/ (e.mode = "Predict" /\ (e.frame = 0 \/ NeedsLocal(e)))
      queued == IF e.mode = "Predict" /\ wrong
                THEN [SetMembership(s, i, "rollback", TRUE) EXCEPT !.ent[i].pending = TRUE]
                ELSE s
      set == [queued EXCEPT !.ent[i].frame = f, !.ent[i].present = TRUE,
                            !.ent[i].error = CASE e.mode = "Snap" -> error
                                               [] e.mode = "Buffered" -> FALSE
                                               [] OTHER -> @,
                            !.ent[i].since = IF @ = 0 THEN f ELSE @]
      known == SyncModeMemberships(set, i)
  IN  IF needs THEN /\ store' = EnsureLocal(known, i)
                    /\ CreatesLocal(e)
      ELSE store' = known /\ UNCHANGED locals

\* An entity that is known but neither present nor shown: the next full record
\* starts it anew.
IsAbsent(s, i) == i # 0 /\ ~s.ent[i].present /\ s.ent[i].local = 0

Stale(s, i, f) == i # 0 /\ ~IsAbsent(s, i) /\ f <= s.ent[i].frame

\* A full record that is blocked or too old only gives its wire id a version.
RejectFullUpsert(w, f) ==
  LET s == EnsureWireVersion(store, w)
  IN  /\ Blocks(w, f) \/ Stale(s, FindByClient(s, IdOf(store, w)), f)
      /\ store' = s
      /\ UNCHANGED <<tombs, order, locals, applied>>

\* A full record: apply_upsert with a new, a known or an absent entity.
FullUpsert(w, f, mode, error, wrong) ==
  LET s == EnsureWireVersion(store, w)
      id == IdOf(store, w)
      found == FindByClient(s, id)
      reset == IF IsAbsent(s, found)
               THEN SyncModeMemberships([s EXCEPT !.ent[found].mode = "Snap",
                                                  !.ent[found].selected = FALSE], found)
               ELSE s
      made == EnsureEntityState(reset, id)
      i == FindByClient(made, id)
  IN  /\ ~Blocks(w, f) /\ ~Stale(s, found, f)
      /\ found # 0 \/ s.free # <<>> \/ Len(s.ent) < MaxSlots
      /\ Present(IF made.ent[i].selected THEN made
                 ELSE [made EXCEPT !.ent[i].mode = mode, !.ent[i].selected = TRUE],
                 i, f, error, wrong)
      /\ EraseTombstone(w)
      /\ UNCHANGED applied

\* A record against a baseline: the entity must be known by its wire id.
DeltaUpsert(w, f, error, wrong) ==
  LET i == FindByWire(store, w)
  IN  /\ i # 0
      /\ store.ent[i].present \/ store.ent[i].local # 0
      /\ f > store.ent[i].frame
      /\ Present(store, i, f, error, wrong)
      /\ UNCHANGED <<tombs, order, applied>>

\* A buffered entity stays until its last frame has been applied, under the old
\* version of its wire id.
Destroy(w, f) ==
  LET i == FindByWire(store, w)
      e == store.ent[i]
      absent == SyncModeMemberships(
                  [store EXCEPT !.ent[i].present = FALSE, !.ent[i].frame = f,
                                !.ent[i].error = FALSE,
                                !.ent[i].since = IF @ = 0 THEN f ELSE @], i)
      gone == IF e.mode # "Buffered" THEN EraseEntityState(store, i)
              ELSE IF Shown(e, f) THEN EraseEntityState(HideLocal(absent, i), i)
              ELSE absent
  IN  /\ tombs.next < MaxDestroys
      /\ IF i = 0
         THEN store' = IF w \in DOMAIN tombs.of THEN store ELSE AdvanceWireVersion(store, w)
         ELSE f > e.frame /\ store' = AdvanceWireVersion(gone, w)
      /\ RecordTombstone(w, f)
      /\ IF i # 0 /\ (e.mode # "Buffered" \/ Shown(e, f)) THEN DropsLocal(e) ELSE UNCHANGED locals
      /\ UNCHANGED applied

------------------------------------------------------------------------------
(* The runtimes                                                                *)

\* The next buffered frame is applied to every buffered entity that has it;
\* the entities that end with it are erased in the order of the list.
ApplyBufferedFrame ==
  LET f == applied + 1
      has == SelectSeq(store.lists["buffered"],
               LAMBDA i : store.ent[i].since # 0 /\ store.ent[i].since <= f /\ f <= store.ent[i].frame)
      ends(i) == ~store.ent[i].present /\ store.ent[i].frame = f
      shown == SelectSeq(has, LAMBDA i : ~ends(i) /\ NeedsLocal(store.ent[i]))
      gone == SelectSeq(has, ends)
      show(s, k) == LET i == shown[k]
                        new == locals.made + k
                    IN  [UnregisterLocal(s, i) EXCEPT !.ent[i].local = new,
                                                      !.byLocal = With(@, new, i)]
      drawn == FoldLeft(show, store, [k \in 1..Len(shown) |-> k])
  IN  /\ f <= MaxFrame
      /\ locals.made + Len(shown) <= MaxLocals
      /\ applied' = f
      /\ store' = FoldLeft(LAMBDA s, i : EraseEntityState(HideLocal(s, i), i), drawn, gone)
      /\ locals' = [made |-> locals.made + Len(shown),
                    alive |-> (locals.alive \ {store.ent[i].local : i \in Range(gone)})
                                \cup ((locals.made + 1)..(locals.made + Len(shown)))]
      /\ UNCHANGED <<tombs, order>>

\* The application chooses another mode for an entity it knows.
SetEntityMode(i, mode) ==
  LET e == store.ent[i]
      set == [store EXCEPT !.ent[i].mode = mode, !.ent[i].selected = TRUE,
                           !.ent[i].error = IF mode = "Snap" THEN @ ELSE FALSE,
                           !.ent[i].since = IF mode = "Buffered" THEN e.frame ELSE 0]
      shows == mode # "Buffered" /\ e.present
      hides == mode # "Buffered" /\ ~e.present
      moved == CASE shows -> EnsureLocal(set, i)
                 [] hides -> HideLocal(set, i)
                 [] OTHER -> set
  IN  /\ FindByClient(store, e.id) = i
      /\ e.present \/ e.local # 0
      /\ e.mode # mode
      /\ store' = SyncModeMemberships(moved, i)
      /\ CASE shows -> CreatesLocal(e)
           [] hides -> DropsLocal(e)
           [] OTHER -> UNCHANGED locals
      /\ UNCHANGED <<tombs, order, applied>>

\* The queued rollback is simulated again; entities of "errors" are left with
\* a correction, the other predicted ones with none.
ApplyRollback(errors) ==
  LET corrected == FoldLeft(LAMBDA s, i : SyncModeMemberships([s EXCEPT !.ent[i].error = i \in errors], i),
                            store, store.lists["predicted"])
  IN  /\ store.lists["rollback"] # <<>>
      /\ errors \subseteq Range(store.lists["predicted"])
      /\ store' = [corrected EXCEPT
           !.lists["rollback"] = <<>>,
           !.ent = [i \in 1..Len(@) |->
                      IF i \in Range(store.lists["rollback"])
                      THEN [@[i] EXCEPT !.pending = FALSE, !.pos["rollback"] = 0] ELSE @[i]]]
      /\ UNCHANGED <<tombs, order, locals, applied>>

\* The corrections of the entities in "done" have faded: blend_snap_errors
\* walks the list while it removes from it.
BlendSnapErrors(done) ==
  LET faded == [store EXCEPT !.ent = [i \in 1..Len(@) |->
                  IF i \in done THEN [@[i] EXCEPT !.error = FALSE] ELSE @[i]]]
      out == SelectSeq(store.lists["snapError"], LAMBDA i :
               ~faded.ent[i].error \/ faded.ent[i].mode \notin {"Snap", "Predict"})
  IN  /\ done \subseteq Range(store.lists["snapError"])
      /\ store.lists["snapError"] # <<>>
      /\ store' = FoldLeft(LAMBDA s, i : SetMembership(s, i, "snapError", FALSE), faded, out)
      /\ UNCHANGED <<tombs, order, locals, applied>>

\* The application destroys the client's copy.
ApplicationDestroys(local) ==
  /\ local \in locals.alive
  /\ locals' = [locals EXCEPT !.alive = @ \ {local}]
  /\ UNCHANGED <<store, tombs, order, applied>>

Init ==
  /\ store = [ent |-> <<>>, free |-> <<>>, lists |-> [l \in Lists |-> <<>>],
              byClient |-> <<>>, byLocal |-> <<>>,
              wires |-> [w \in Wires |-> [version |-> 0, slot |-> 0]]]
  /\ tombs = [of |-> <<>>, ages |-> <<>>, begin |-> 0, next |-> 0]
  /\ locals = [made |-> 0, alive |-> {}]
  /\ applied = 0
  /\ order = <<>>

Next ==
  \/ \E w \in Wires, f \in 1..MaxFrame : RejectFullUpsert(w, f)
  \/ \E w \in Wires, f \in 1..MaxFrame, m \in Modes, b \in BOOLEAN : FullUpsert(w, f, m, b, b)
  \/ \E w \in Wires, f \in 1..MaxFrame, b \in BOOLEAN : DeltaUpsert(w, f, b, b)
  \/ \E w \in Wires, f \in 1..MaxFrame : Destroy(w, f)
  \/ ApplyBufferedFrame
  \/ \E i \in 1..Len(store.ent), m \in Modes : SetEntityMode(i, m)
  \/ \E errors \in SUBSET Range(store.lists["predicted"]) : ApplyRollback(errors)
  \/ \E done \in SUBSET Range(store.lists["snapError"]) : BlendSnapErrors(done)
  \/ \E local \in locals.alive : ApplicationDestroys(local)

------------------------------------------------------------------------------
(* Properties                                                                  *)

Known(i) == store.ent[i].id # <<NoWire, 0>>

\* A slot is free or holds an entity the maps lead to; it knows its place in
\* every list; the runtimes walk exactly the entities of their mode, and every
\* correction is in the list that fades it (set_indexed_membership,
\* sync_mode_memberships, erase_entity_state).
StoreConsistent ==
  LET slots == 1..Len(store.ent)
      In(l) == Range(store.lists[l])
  IN  /\ Range(store.free) = {i \in slots : ~Known(i)} /\ IsInjective(store.free)
      /\ \A l \in Lists : \A i \in slots :
           LET at == store.ent[i].pos[l]
           IN  IF at = 0 THEN i \notin In(l)
               ELSE at <= Len(store.lists[l]) /\ store.lists[l][at] = i
      /\ \A l \in Lists : IsInjective(store.lists[l])
      /\ In("active") = {i \in slots : Known(i)}
      /\ In("buffered") = {i \in slots : Known(i) /\ store.ent[i].mode = "Buffered"}
      /\ In("predicted") = {i \in slots : Known(i) /\ store.ent[i].mode = "Predict"}
      /\ In("rollback") = {i \in slots : store.ent[i].pending}
      /\ \A i \in slots : store.ent[i].error /\ store.ent[i].mode # "Buffered" => i \in In("snapError")
      /\ store.byClient = [id \in {store.ent[i].id : i \in In("active")} |->
                             CHOOSE i \in slots : store.ent[i].id = id]
      /\ Cardinality(DOMAIN store.byClient) = Len(store.lists["active"])
      /\ \A i \in In("active") : store.ent[i].local \in locals.alive =>
           store.ent[i].local \in DOMAIN store.byLocal /\ store.byLocal[store.ent[i].local] = i
      /\ \A local \in DOMAIN store.byLocal : store.ent[store.byLocal[local]].local = local
      /\ \A w \in Wires : LET i == store.wires[w].slot
                          IN  i # 0 => store.ent[i].id = <<w, store.wires[w].version>>

\* The tombstones are those recorded last, and the record of each is blocked
\* up to its frame until it is evicted or erased: record_destroy_tombstone
\* finds the oldest one whatever stale ages are queued before it.
OldestTombstoneEvicted ==
  /\ DOMAIN tombs.of = Range(order)
  /\ \A k \in 1..(Len(order) - 1) : tombs.of[order[k]].age < tombs.of[order[k + 1]].age
  /\ Len(tombs.ages) <= 2 * MaxTombstones

==============================================================================
