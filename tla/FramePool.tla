------------------------------ MODULE FramePool ------------------------------
(* The server's pool of quantized frames (quantized_frame.cpp, server.cpp). A   *)
(* frame holds what one client may see of one entity at one server frame; it is *)
(* shared by all the clients that see the same, counted by references, and its  *)
(* index is reused once nobody holds it. References are held by the baseline    *)
(* and by the pending entries of every client, and by the guard of a send.      *)
(*                                                                              *)
(* The model has the clients' entity states for the slots of replicated_, every *)
(* operation that takes or drops a reference, and the pool. What a frame holds  *)
(* is abstracted to the entity, the server frame and the client's view of it.   *)
EXTENDS Integers, Sequences, FiniteSets

CONSTANTS
  Clients,     \* replicated clients
  View,        \* View[c]: what c may see of a slot with audience limits
  Slots,       \* replicated slots
  MaxPending,  \* max_pending_quantized_frames_per_entity
  MaxEntity,   \* bound: entities that ever occupy a slot
  MaxFrame,    \* bound: server frames
  MaxPool      \* bound: frames the pool grows to

ASSUME PoolAssumption ==
  /\ MaxPending \in Nat \ {0} /\ MaxFrame \in Nat \ {0}
  /\ {MaxEntity, MaxPool} \subseteq Nat
  /\ DOMAIN View = Clients
  /\ IsFiniteSet(Clients) /\ IsFiniteSet(Slots)

None == 0     \* invalid_quantized_frame_id
Everyone == "everyone" \* the view of a slot without audience limits

VARIABLES
  frame,   \* the server's frame
  slot,    \* replicated_: who is in the slot, its frames, its same-frame cache
  pool,    \* quantized_frames_
  free,    \* free_quantized_frames_
  state,   \* ClientEntityState of every client and slot
  present, \* the clients that are connected
  born     \* entities that were ever replicated

vars == <<frame, slot, pool, free, state, present, born>>

NoState == [baseline |-> None, pending |-> <<>>]
EmptySlot == [entity |-> 0, cacheable |-> FALSE, frames |-> {}, cache |-> None, at |-> 0]

\* A frame that is not in use: nothing of it is read before it is made anew.
FreeFrame == [active |-> FALSE, refs |-> 0]

\* What the code knows of a client's entities and of the pool, while one
\* operation changes both.
Shared == [pool |-> pool, free |-> free, slot |-> slot]

-------------------------------------------------------------------------------
(* Reference counting                                                           *)

IsActive(sh, q) == q # None /\ sh.pool[q].active

Retain(sh, q) ==
  IF IsActive(sh, q) THEN [sh EXCEPT !.pool[q].refs = @ + 1] ELSE sh

\* Seeded fault: the frame is given up while another client still holds it.
ReleaseLastTwo(sh, q) ==
  IF ~IsActive(sh, q) THEN sh
  ELSE IF sh.pool[q].refs > 2 THEN [sh EXCEPT !.pool[q].refs = @ - 1]
  ELSE [sh EXCEPT !.pool[q] = FreeFrame,
                  !.slot[sh.pool[q].slot].frames = @ \ {q},
                  !.free = Append(@, q)]

Release(sh, q) ==
  IF ~IsActive(sh, q) THEN sh
  ELSE IF sh.pool[q].refs > 1 THEN [sh EXCEPT !.pool[q].refs = @ - 1]
  ELSE [sh EXCEPT !.pool[q] = FreeFrame,
                  !.slot[sh.pool[q].slot].frames = @ \ {q},
                  !.free = Append(@, q)]

\* The frames of a sequence are released one after the other.
ReleaseAll(sh, qs) ==
  LET after[i \in 0..Len(qs)] == IF i = 0 THEN sh ELSE Release(after[i - 1], qs[i])
  IN  after[Len(qs)]

\* The entries at the positions in S, in their order.
Picked(pending, S) ==
  LET pick[i \in 0..Len(pending)] ==
        IF i = 0 THEN <<>>
        ELSE IF i \in S THEN Append(pick[i - 1], pending[i]) ELSE pick[i - 1]
  IN  pick[Len(pending)]

FrameIds(pending) == [i \in 1..Len(pending) |-> pending[i].id]

\* clear_client_entity_state: the baseline, then every pending entry.
ClearState(sh, st) == ReleaseAll(Release(sh, st.baseline), FrameIds(st.pending))

ClearStates(sh, sts) ==
  LET after[i \in 0..Len(sts)] == IF i = 0 THEN sh ELSE ClearState(after[i - 1], sts[i])
  IN  after[Len(sts)]

-------------------------------------------------------------------------------
(* find_or_create_quantized_frame                                               *)

ViewOf(c, s) == IF slot[s].cacheable THEN Everyone ELSE View[c]

\* The frame captured for everybody at this server frame, if there still is one.
Cached(s) ==
  LET q == slot[s].cache
  IN  /\ slot[s].cacheable /\ slot[s].at = frame
      /\ q # None /\ IsActive(Shared, q)
      /\ pool[q].slot = s /\ pool[q].frame = frame

\* A frame of the slot that holds the same.
Same(s, c) ==
  {q \in slot[s].frames : /\ pool[q].active /\ pool[q].slot = s /\ pool[q].frame = frame
                          /\ pool[q].entity = slot[s].entity /\ pool[q].view = ViewOf(c, s)}

NewFrame(c, s) ==
  [active |-> TRUE, slot |-> s, entity |-> slot[s].entity, frame |-> frame,
   view |-> ViewOf(c, s), refs |-> 0]

\* The index of the frame, and what is shared after it was found or made.
FindOrCreate(c, s) ==
  IF Cached(s) THEN [id |-> slot[s].cache, sh |-> Shared]
  ELSE IF Same(s, c) # {}
  THEN [id |-> CHOOSE q \in Same(s, c) : TRUE, sh |-> Shared]
  ELSE LET q == IF free # <<>> THEN free[Len(free)] ELSE Len(pool) + 1
           base == slot[s]
       IN  [id |-> q,
            sh |-> [pool |-> IF free # <<>> THEN [pool EXCEPT ![q] = NewFrame(c, s)]
                             ELSE Append(pool, NewFrame(c, s)),
                    free |-> IF free # <<>> THEN SubSeq(free, 1, Len(free) - 1) ELSE free,
                    slot |-> [slot EXCEPT ![s] =
                               [base EXCEPT !.frames = @ \cup {q},
                                            !.cache = IF base.cacheable THEN q ELSE @,
                                            !.at = IF base.cacheable THEN frame ELSE @]]]]

Update(sh) ==
  Len(sh.pool) <= MaxPool /\ pool' = sh.pool /\ free' = sh.free /\ slot' = sh.slot

-------------------------------------------------------------------------------
(* Operations                                                                   *)

\* invalidate_entity_baseline. The epoch it counts is only ever compared with that
\* of a pending entry, so an entry just says whether it is of the current epoch.
Invalidated(st) ==
  [baseline |-> None,
   pending  |-> [i \in 1..Len(st.pending) |-> [st.pending[i] EXCEPT !.current = FALSE]]]

\* A reopened component makes the baseline of the client useless.
Reopen(c, s) ==
  /\ c \in present /\ slot[s].entity # 0
  /\ Update(Release(Shared, state[c][s].baseline))
  /\ state' = [state EXCEPT ![c][s] = Invalidated(@)]
  /\ UNCHANGED <<frame, present, born>>

\* The record of one entity, serialized and then refused for lack of space.
Refuse(c, s) ==
  /\ c \in present /\ slot[s].entity # 0
  /\ LET found == FindOrCreate(c, s)
     IN  Update(Release(Retain(found.sh, found.id), found.id))
  /\ UNCHANGED <<frame, state, present, born>>

\* The guard's reference becomes that of the pending entry.
Guard(sh, q) == Retain(sh, q)

\* The oldest pending entries, which are given up.
Trimmed(pending) == {i \in 1..Len(pending) : i <= Len(pending) - MaxPending}

\* The record of one entity, sent: a full one replaces the baseline.
Send(c, s, full) ==
  /\ c \in present /\ slot[s].entity # 0
  /\ full \/ state[c][s].baseline # None
  /\ LET found == FindOrCreate(c, s)
         st    == state[c][s]
         reset == full /\ st.baseline # None
         held  == Guard(found.sh, found.id)
         sh    == IF reset THEN Release(held, st.baseline) ELSE held
         base  == IF reset THEN Invalidated(st) ELSE st
         more  == Append(base.pending, [id |-> found.id, frame |-> frame, current |-> TRUE])
         drop  == Trimmed(more)
     IN  /\ Update(ReleaseAll(sh, FrameIds(Picked(more, drop))))
         /\ state' = [state EXCEPT ![c][s] =
                        [base EXCEPT !.pending = Picked(more, (1..Len(more)) \ drop)]]
  /\ UNCHANGED <<frame, present, born>>

\* Seeded fault: the acknowledged frame is made the baseline without a reference.
AdoptBaselineUncounted(sh, st, q) ==
  IF st.baseline = q THEN sh ELSE Release(sh, st.baseline)

\* The frame the client has becomes its baseline.
AdoptBaseline(sh, st, q) ==
  IF st.baseline = q THEN sh ELSE Retain(Release(sh, st.baseline), q)

\* The pending entries of a frame, the first of them, and those up to a frame.
SentAt(pending, f) == {i \in 1..Len(pending) : pending[i].frame = f}
FirstAt(pending, f) == pending[CHOOSE i \in SentAt(pending, f) : \A j \in SentAt(pending, f) : i <= j]
UpTo(pending, f) == {i \in 1..Len(pending) : pending[i].frame <= f}

\* The state of an entity once p is acknowledged and the older entries are given
\* up: p becomes the baseline if the baseline was not invalidated since.
Acknowledged(st, p, older) ==
  [baseline |-> IF p.current THEN p.id ELSE st.baseline,
   pending  |-> Picked(st.pending, (1..Len(st.pending)) \ older)]

\* acknowledge_entity, by the first pending entry of that frame.
Acknowledge(c, s, f) ==
  LET st      == state[c][s]
      p       == FirstAt(st.pending, f)
      adopted == IF p.current THEN AdoptBaseline(Shared, st, p.id) ELSE Shared
      older   == UpTo(st.pending, f)
  IN  /\ c \in present /\ SentAt(st.pending, f) # {}
      /\ IsActive(Shared, p.id)
      /\ Update(ReleaseAll(adopted, FrameIds(Picked(st.pending, older))))
      /\ state' = [state EXCEPT ![c][s] = Acknowledged(st, p, older)]
      /\ UNCHANGED <<frame, present, born>>

\* upsert_replicated, in a slot nobody is in.
Spawn(s, cacheable) ==
  /\ slot[s].entity = 0 /\ born < MaxEntity
  /\ born' = born + 1
  /\ slot' = [slot EXCEPT ![s] = [EmptySlot EXCEPT !.entity = born', !.cacheable = cacheable]]
  /\ UNCHANGED <<frame, pool, free, state, present>>

\* deactivate_replicated: the slot is emptied, then every client's state of it.
Deactivate(s) ==
  /\ slot[s].entity # 0
  /\ \E order \in [1..Cardinality(Clients) -> Clients] :
       /\ \A c \in Clients : \E i \in DOMAIN order : order[i] = c
       /\ Update(ClearStates([Shared EXCEPT !.slot[s] = EmptySlot],
                             [i \in DOMAIN order |-> state[order[i]][s]]))
  /\ state' = [c \in Clients |-> [state[c] EXCEPT ![s] = NoState]]
  /\ UNCHANGED <<frame, present, born>>

\* remove_client: all the client's entity states are cleared (the slots in any
\* order: the order only decides the order of the free list).
RemoveClient(c) ==
  /\ c \in present
  /\ \E order \in [1..Cardinality(Slots) -> Slots] :
       /\ \A s \in Slots : \E i \in DOMAIN order : order[i] = s
       /\ Update(ClearStates(Shared, [i \in DOMAIN order |-> state[c][order[i]]]))
  /\ state' = [state EXCEPT ![c] = [s \in Slots |-> NoState]]
  /\ present' = present \ {c}
  /\ UNCHANGED <<frame, born>>

AddClient(c) ==
  /\ c \notin present
  /\ present' = present \cup {c}
  /\ UNCHANGED <<frame, slot, pool, free, state, born>>

Tick ==
  /\ frame < MaxFrame
  /\ frame' = frame + 1
  /\ UNCHANGED <<slot, pool, free, state, present, born>>

Init ==
  /\ frame = 1
  /\ slot = [s \in Slots |-> EmptySlot]
  /\ pool = <<>> /\ free = <<>>
  /\ state = [c \in Clients |-> [s \in Slots |-> NoState]]
  /\ present = Clients
  /\ born = 0

Next ==
  \/ Tick
  \/ \E c \in Clients : AddClient(c) \/ RemoveClient(c)
  \/ \E s \in Slots : Deactivate(s) \/ \E cacheable \in BOOLEAN : Spawn(s, cacheable)
  \/ \E c \in Clients, s \in Slots :
       \/ Reopen(c, s)
       \/ Refuse(c, s)
       \/ \E full \in BOOLEAN : Send(c, s, full)
       \/ \E f \in 1..MaxFrame : Acknowledge(c, s, f)

Spec == Init /\ [][Next]_vars

-------------------------------------------------------------------------------
(* Properties                                                                   *)

Ids == 1..Len(pool)

\* The places that hold a reference to frame q: baselines (0) and pending entries.
Holders(q) ==
  {h \in Clients \X Slots \X (0..MaxPending) :
     LET st == state[h[1]][h[2]]
     IN  IF h[3] = 0 THEN st.baseline = q
         ELSE h[3] <= Len(st.pending) /\ st.pending[h[3]].id = q}

Views == {View[c] : c \in Clients} \cup {Everyone}
QuantizedFrame ==
  [active : {TRUE}, slot : Slots, entity : 1..MaxEntity, frame : 1..MaxFrame, view : Views,
   refs : Nat]
ReplicatedSlot ==
  [entity : 0..MaxEntity, cacheable : BOOLEAN, frames : SUBSET Nat, cache : Nat, at : 0..MaxFrame]
PendingFrame == [id : Nat, frame : 1..MaxFrame, current : BOOLEAN]
ClientEntityState == [baseline : Nat, pending : Seq(PendingFrame)]

\* Every variable has the shape the code gives it.
TypeOK ==
  /\ frame \in 1..MaxFrame /\ born \in 0..MaxEntity /\ present \subseteq Clients
  /\ pool \in Seq(QuantizedFrame \cup {FreeFrame})
  /\ free \in Seq(Ids)
  /\ slot \in [Slots -> ReplicatedSlot]
  /\ state \in [Clients -> [Slots -> ClientEntityState]]
  /\ \A c \in Clients, s \in Slots : Len(state[c][s].pending) <= MaxPending

\* Between two operations the count of a frame is the number of baselines and
\* pending entries that hold it, and a frame nobody holds is not kept
\* (retain_quantized_frame, release_quantized_frame and all their callers).
CountsAreExact ==
  \A q \in Ids : /\ pool[q].refs = Cardinality(Holders(q))
                 /\ pool[q].active <=> pool[q].refs > 0

\* What a client holds as a baseline or as a pending entry is what was captured
\* for it: the entity now in the slot, the frame it was sent at and the client's
\* own view, however often the index was reused since (find_or_create_quantized_frame,
\* the cache of the same frame included).
FramesAreOwn ==
  \A c \in Clients, s \in Slots :
    LET Own(q) == /\ q \in Ids /\ pool[q].active /\ pool[q].slot = s
                  /\ pool[q].entity = slot[s].entity /\ pool[q].view = ViewOf(c, s)
    IN  /\ state[c][s].baseline # None => Own(state[c][s].baseline)
        /\ \A i \in 1..Len(state[c][s].pending) :
             /\ Own(state[c][s].pending[i].id)
             /\ pool[state[c][s].pending[i].id].frame = state[c][s].pending[i].frame

\* Every index is either in use or once on the free list, and a slot lists the
\* frames of its entity that are in use (release_quantized_frame, a frame
\* released twice included).
IndicesPartitioned ==
  /\ \A q \in Ids : pool[q].active <=> ~\E i \in 1..Len(free) : free[i] = q
  /\ \A i, j \in 1..Len(free) : free[i] = free[j] => i = j
  /\ \A s \in Slots : slot[s].frames = {q \in Ids : pool[q].active /\ pool[q].slot = s}
===============================================================================
