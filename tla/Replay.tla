------------------------------- MODULE Replay --------------------------------
(* Recording what a server replicates and playing it back (replay_writer.cpp,   *)
(* replay_streamer.cpp). The writer listens to the dirty frames of the server   *)
(* and turns them into full and delta frames, the streamer keeps the newest of  *)
(* them in a ring, and a session applies them to a registry of its own, frame   *)
(* by frame, while the recording goes on.                                       *)
(*                                                                              *)
(* An entity is its archetype and, for every component of it, a value or Absent *)
(* (tags are such components too); an archetype has tags, so an entity without  *)
(* components is still written. A replay id is the number of the slot.          *)
EXTENDS Integers, FiniteSets, Selection

CONSTANTS
  MaxEntity,     \* bound: entities that ever live in the recorded registry
  Archetypes,    \* archetypes
  Components,    \* Components[a]: the components of archetype a
  Values,        \* values of a component
  WriteInterval, \* write_interval_frames
  FullInterval,  \* full_frame_interval_frames, 0 for never
  RingSize,      \* max_frames
  PrerollFrames, \* preroll_frames
  TailFrames,    \* tail_frames
  MaxFrame,      \* bound: frames of the recorded server
  MaxEffects,    \* bound: changes to the recorded registry per frame
  MaxCues        \* bound: cues emitted

ASSUME ReplayAssumption ==
  /\ {MaxEntity, WriteInterval, FullInterval, PrerollFrames, TailFrames,
      MaxFrame, MaxEffects, MaxCues} \subseteq Nat
  /\ RingSize \in Nat \ {0}
  /\ DOMAIN Components = Archetypes

Absent == "absent"
Nobody == 0
None == "none"

VARIABLES
  frame,    \* the recorded server's frame
  reg,      \* the recorded registry: entity -> archetype and component values
  slots,    \* replicated_: the entity of every slot, or Nobody
  free,     \* free_replicated_indices_
  writer,   \* ReplicationReplayWriter
  ring,     \* ReplicationReplayStreamer: the frames it still has
  session,  \* ReplicationReplayStreamSession
  local,    \* the replay registry: replay id -> entity
  heard,    \* cues given to the replay registry in this session
  born,     \* how many entities ever lived in the recorded registry
  cued,     \* how many cues were emitted
  lost      \* history: a change since the last full frame escaped the writer

source == <<frame, reg, slots, free, born, cued>>
player == <<session, local, heard>>
vars == <<source, writer, ring, player, lost>>

AllComponents == UNION {Components[a] : a \in Archetypes}

\* What an entity of archetype a may hold.
States(a) == [arch : {a}, val : [Components[a] -> Values \cup {Absent}]]

Slots == 1..Len(slots)

-------------------------------------------------------------------------------
(* The jobs of a frame                                                          *)

\* What the jobs of one frame may do: entities emit cues, one is written, some
\* are destroyed and one is made. What the registry then reports as dirty is
\* added, removed and touched.
Writes ==
  {w \in [of : DOMAIN reg, comp : AllComponents, val : Values \cup {Absent}] :
     w.comp \in Components[reg[w.of].arch] /\ reg[w.of].val[w.comp] # w.val}

Jobs ==
  [emit : SUBSET DOMAIN reg, write : SUBSET Writes, kill : SUBSET DOMAIN reg,
   make : SUBSET UNION {States(a) : a \in Archetypes}]

Modest(job) ==
  /\ Cardinality(job.emit) <= IF cued < MaxCues THEN 1 ELSE 0
  /\ Cardinality(job.make) <= IF born < MaxEntity THEN 1 ELSE 0
  /\ Cardinality(job.emit) + Cardinality(job.write) + Cardinality(job.kill)
       + Cardinality(job.make) <= MaxEffects

Added(job) == IF job.make = {} THEN {} ELSE {born + 1}

Written(job) == {w.of : w \in job.write}

\* The registry after the jobs.
RegAfter(job) ==
  [e \in (DOMAIN reg \ job.kill) \cup Added(job) |->
     IF e \in Added(job) THEN CHOOSE st \in job.make : TRUE
     ELSE [reg[e] EXCEPT !.val = [c \in DOMAIN @ |->
             IF \E w \in job.write : w.of = e /\ w.comp = c
             THEN (CHOOSE w \in job.write : w.of = e /\ w.comp = c).val ELSE @[c]]]]

-------------------------------------------------------------------------------
(* Discovery: rediscover_replicated_entities                                    *)

\* deactivate_replicated for the slot of an entity, if it has one.
Deactivated(t, e) ==
  LET s == {i \in 1..Len(t.slots) : t.slots[i] = e}
  IN  IF s = {} THEN t
      ELSE [t EXCEPT !.slots = [i \in 1..Len(t.slots) |-> IF i \in s THEN Nobody ELSE @[i]],
                     !.free = Append(@, CHOOSE i \in s : TRUE),
                     !.gone = @ \cup s]

\* upsert_replicated, allocate_replicated_slot: the slot freed last is taken first.
Allocated(t, e) ==
  IF t.free = <<>> THEN [t EXCEPT !.slots = Append(@, e)]
  ELSE [t EXCEPT !.slots[t.free[Len(t.free)]] = e,
                 !.free = SubSeq(@, 1, Len(@) - 1)]

\* The removed entities lose their slots, then the added ones are given slots.
Discovered(gone, new) ==
  LET n == Len(gone)
      after[i \in 0..n + Len(new)] ==
        IF i = 0 THEN [slots |-> slots, free |-> free, gone |-> {}]
        ELSE IF i <= n THEN Deactivated(after[i - 1], gone[i])
        ELSE Allocated(after[i - 1], new[i - n])
  IN  after[n + Len(new)]

\* All orders in which the registry may report a set.
Orders(S) ==
  {o \in [1..Cardinality(S) -> S] : \A e \in S : \E i \in 1..Cardinality(S) : o[i] = e}

\* The application destroys an entity between two frames and a client's update
\* is sent: the scheduler finds the entity of the slot gone and deactivates the
\* slot. The list of destroyed slots this leaves is emptied before the next
\* dirty frame.
FlushClient(s) ==
  /\ slots[s] # Nobody
  /\ reg' = [e \in DOMAIN reg \ {slots[s]} |-> reg[e]]
  /\ slots' = [slots EXCEPT ![s] = Nobody]
  /\ free' = Append(free, s)
  /\ lost' = TRUE
  /\ UNCHANGED <<frame, born, cued, writer, ring, player>>

-------------------------------------------------------------------------------
(* The writer                                                                   *)

\* What is replicated: the state of the entity of every slot in use.
World(sl, rg) ==
  [s \in {i \in 1..Len(sl) : sl[i] \in DOMAIN rg} |-> [of |-> sl[s], st |-> rg[sl[s]]]]

\* append_cue_entries: the owner is named by its slot, 0 when it has none.
CueEntry(e, sl) ==
  LET at == {s \in 1..Len(sl) : sl[s] = e}
  IN  [cue |-> [by |-> e, at |-> frame + 1],
       owner |-> IF at = {} THEN 0 ELSE CHOOSE s \in at : TRUE]

\* Seeded fault: only the slots that changed in this very frame are pending.
ObservedNow(t, job) ==
  [writer EXCEPT
     !.cues = IF job.emit = {} THEN @
              ELSE Append(@, CueEntry(CHOOSE e \in job.emit : TRUE, t.slots)),
     !.gone = @ \cup t.gone,
     !.dirty = {s \in 1..Len(t.slots) : t.slots[s] \in Added(job) \cup Written(job)}]

\* What the writer knows once it has seen the dirty frame.
Observed(t, job) ==
  [writer EXCEPT
     !.cues = IF job.emit = {} THEN @
              ELSE Append(@, CueEntry(CHOOSE e \in job.emit : TRUE, t.slots)),
     !.gone = @ \cup t.gone,
     !.dirty = @ \cup {s \in 1..Len(t.slots) : t.slots[s] \in Added(job) \cup Written(job)}]

WriteDue(f) == ~writer.written \/ WriteInterval <= 1 \/ f % WriteInterval = 0

FullDue(f) == ~writer.written \/ (FullInterval # 0 /\ f - writer.lastFull >= FullInterval)

\* Destroy records come first in a delta frame: the slots destroyed since the
\* last one, and those that changed and are no longer in use.
Destroys(w, world) == w.gone \cup (w.dirty \ DOMAIN world)

\* Then the entities: all of a full frame, the changed ones of a delta frame.
Updates(w, world, full) == IF full THEN DOMAIN world ELSE w.dirty \cap DOMAIN world

\* The replay frame for server frame f; the last three fields are history.
ReplayFrame(f, w, world, full) ==
  [frame |-> f, full |-> full, cues |-> w.cues,
   destroys |-> IF full THEN {} ELSE Destroys(w, world),
   updates |-> Updates(w, world, full),
   world |-> world, sound |-> full \/ ~lost, n |-> writer.n + 1]

Emptied(w, f, full) ==
  [w EXCEPT !.dirty = {}, !.gone = {}, !.cues = <<>>, !.written = TRUE, !.n = @ + 1,
            !.lastFull = IF full THEN f ELSE @]

\* push_frame: the oldest frame makes room.
Pushed(fr) ==
  IF Len(ring) < RingSize THEN Append(ring, fr) ELSE Append(SubSeq(ring, 2, RingSize), fr)

\* A fixed step of the recorded server: the jobs, discovery, and the dirty frame
\* is given to the writer if it is attached. Attaching and detaching it changes
\* nothing else: what is pending stays.
SourceTick(job, attached) ==
  \E gone \in Orders(job.kill), new \in Orders(Added(job)) :
    LET f     == frame + 1
        t     == Discovered(gone, new)
        w     == Observed(t, job)
        world == World(t.slots, RegAfter(job))
        full  == FullDue(f)
    IN  /\ frame < MaxFrame
        /\ frame' = f /\ slots' = t.slots /\ free' = t.free
        /\ reg' = RegAfter(job)
        /\ born' = born + Cardinality(Added(job))
        /\ cued' = cued + Cardinality(job.emit)
        /\ IF ~attached
           THEN UNCHANGED <<writer, ring>> /\ lost' = TRUE
           ELSE IF ~WriteDue(f)
           THEN writer' = w /\ UNCHANGED <<ring, lost>>
           ELSE /\ writer' = Emptied(w, f, full)
                /\ ring' = Pushed(ReplayFrame(f, w, world, full))
                /\ lost' = (lost /\ ~full)
        /\ UNCHANGED player

-------------------------------------------------------------------------------
(* The streamer                                                                 *)

\* entity_for_replay_id: an entity of the session, or a new one.
EntityFor(l, s) ==
  IF s \in DOMAIN l THEN l[s]
  ELSE [known |-> None, arch |-> None, mixed |-> FALSE,
        val |-> [c \in AllComponents |-> Absent]]

\* apply_tags, apply_components: what belongs to the archetype is set or removed,
\* whatever else the entity has stays.
ComponentsApplied(val, st) ==
  [c \in AllComponents |-> IF c \in Components[st.arch] THEN st.val[c] ELSE val[c]]

\* The record of one entity; the archetype is overwritten. History: of, and whether
\* the entity had another archetype before (mixed).
Upserted(l, fr, s) ==
  LET st  == fr.world[s].st
      old == EntityFor(l, s)
  IN  [of |-> fr.world[s].of, known |-> old.known, arch |-> st.arch,
       mixed |-> s \in DOMAIN l /\ (old.mixed \/ old.arch # st.arch),
       val |-> ComponentsApplied(old.val, st)]

\* destroy_replay_entity
Without(l, ids) == [s \in DOMAIN l \ ids |-> l[s]]

\* apply_frame: destroys, updates, and after a full frame whatever it left out is
\* destroyed too.
Applied(l, fr) ==
  LET base  == Without(l, fr.destroys)
      after == [s \in DOMAIN base \cup fr.updates |->
                  IF s \in fr.updates THEN Upserted(base, fr, s) ELSE base[s]]
  IN  IF fr.full THEN Without(after, DOMAIN after \ fr.updates) ELSE after

\* apply_cues: a cue whose owner is unknown here is skipped.
CuesApplied(h, l, fr) ==
  LET here == Chosen(fr.cues, {q \in 1..Len(fr.cues) : fr.cues[q].owner \in DOMAIN l})
  IN  h \o [i \in 1..Len(here) |-> [cue |-> here[i].cue, to |-> l[here[i].owner].of, n |-> fr.n]]

\* The replay server discovers what the registry now holds.
Rediscovered(l) == [s \in DOMAIN l |-> [l[s] EXCEPT !.known = l[s].arch]]

\* upsert_replicated throws when an entity it knows has another archetype.
Throws(l) == \E s \in DOMAIN l : l[s].known \notin {None, l[s].arch}

\* find_start_frame: the last full frame that is no later than the target.
StartFrames(focus) ==
  LET target == IF focus > PrerollFrames THEN focus - PrerollFrames ELSE 1
  IN  {i \in 1..Len(ring) : ring[i].full /\ ring[i].frame <= target}

\* Seeded fault: the first frame's cues are given out when the session begins.
FirstCuesTwice(l, fr) == CuesApplied(<<>>, l, fr)

\* begin_session applies the first frame without its cues.
FirstCues(l, fr) == <<>>

\* begin_session, with a new registry and a new server; sessions share nothing,
\* so there is one.
BeginSession(focus) ==
  /\ session.frames = <<>>
  /\ StartFrames(focus) # {}
  /\ LET start  == CHOOSE i \in StartFrames(focus) : \A j \in StartFrames(focus) : j <= i
         end    == focus + TailFrames
         frames == Chosen(ring, {i \in start..Len(ring) : ring[i].frame <= end})
         first  == Applied([s \in {} |-> None], frames[1])
     IN  /\ session' = [active |-> TRUE, threw |-> FALSE, frames |-> frames, next |-> 1,
                        playback |-> frames[1].frame, end |-> end]
         /\ local' = Rediscovered(first)
         /\ heard' = FirstCues(first, frames[1])
  /\ UNCHANGED <<source, writer, ring, lost>>

\* append_available_frames: what the ring has that is newer than what we have.
Available ==
  LET last == session.frames[Len(session.frames)].frame
      new  == {i \in 1..Len(ring) : ring[i].frame > last /\ ring[i].frame <= session.end}
  IN  session.frames \o Chosen(ring, new)

\* How many frames are due: those up to the playback frame.
DueCount(frames) ==
  Cardinality({i \in session.next..Len(frames) :
                 \A j \in session.next..i : frames[j].frame <= session.playback})

\* A frame and its cues.
FramePlayed(was, fr) ==
  LET l == Applied(was.l, fr)
  IN  [l |-> l, h |-> CuesApplied(was.h, l, fr)]

\* n frames from the next one on, one after the other.
Played(frames, n) ==
  LET after[k \in 0..n] ==
        IF k = 0 THEN [l |-> local, h |-> heard]
        ELSE FramePlayed(after[k - 1], frames[session.next + k - 1])
  IN  after[n]

\* tick_session applies what is due and advances the replay server.
TickSession ==
  /\ session.active
  /\ LET frames == Available
         n      == DueCount(frames)
         last   == Played(frames, n)
     IN  IF session.playback > session.end
         THEN /\ session' = [session EXCEPT !.active = FALSE, !.frames = frames]
              /\ UNCHANGED <<local, heard>>
         ELSE /\ session' = [session EXCEPT !.frames = frames, !.next = @ + n,
                               !.playback = @ + (IF Throws(last.l) THEN 0 ELSE 1),
                               !.active = ~Throws(last.l), !.threw = Throws(last.l)]
              /\ local' = Rediscovered(last.l)
              /\ heard' = last.h
  /\ UNCHANGED <<source, writer, ring, lost>>

-------------------------------------------------------------------------------
Init ==
  /\ frame = 0 /\ reg = [e \in {} |-> None] /\ slots = <<>> /\ free = <<>>
  /\ born = 0 /\ cued = 0
  /\ writer = [written |-> FALSE, lastFull |-> 0, n |-> 0,
               dirty |-> {}, gone |-> {}, cues |-> <<>>]
  /\ ring = <<>>
  /\ session = [active |-> FALSE, threw |-> FALSE, frames |-> <<>>, next |-> 1,
                playback |-> 0, end |-> 0]
  /\ local = [s \in {} |-> None] /\ heard = <<>>
  /\ lost = FALSE

Next ==
  \/ \E job \in {j \in Jobs : Modest(j)}, attached \in BOOLEAN : SourceTick(job, attached)
  \/ \E s \in Slots : FlushClient(s)
  \/ \E focus \in 1..MaxFrame : BeginSession(focus)
  \/ TickSession

Spec == Init /\ [][Next]_vars

-------------------------------------------------------------------------------
(* Properties                                                                   *)

\* Every variable has the shape the code gives it.
TypeOK ==
  /\ frame \in 0..MaxFrame /\ born \in 0..MaxEntity /\ DOMAIN reg \subseteq 1..born
  /\ \A s \in Slots : slots[s] \in 0..born
  /\ Len(ring) <= RingSize /\ lost \in BOOLEAN
  /\ session.next \in 1..Len(session.frames) + 1
  /\ \A s \in DOMAIN local : local[s].arch \in Archetypes

\* The frames the session has applied, the first one included.
LastApplied == IF session.next = 1 THEN 1 ELSE session.next - 1

\* The session's frames up to index k have a full one, and since the last such
\* nothing is missing between them.
Unbroken(k) ==
  \E i \in 1..k :
    /\ session.frames[i].full
    /\ \A j \in i + 1..k : /\ session.frames[j].n = session.frames[j - 1].n + 1
                           /\ session.frames[j].sound

\* Played back, every replicated entity has exactly the archetype and the
\* components it had when the frame was recorded, whatever was destroyed, reused
\* or changed between two frames, as long as the frames since a full one are all
\* there and none missed a change (on_server_registry_dirty_frame, apply_frame).
\* Only an entity whose slot a full frame gave to another archetype may have more.
ReplayIsRecorded ==
  (session.frames # <<>> /\ Unbroken(LastApplied)) =>
    LET world == session.frames[LastApplied].world
    IN  /\ DOMAIN local = DOMAIN world
        /\ \A s \in DOMAIN local :
             /\ local[s].arch = world[s].st.arch
             /\ \A c \in AllComponents :
                  IF c \in Components[world[s].st.arch]
                  THEN local[s].val[c] = world[s].st.val[c]
                  ELSE local[s].val[c] = Absent \/ local[s].mixed

\* A cue is played back at the entity that emitted it if that entity is still in
\* the frame that carries the cue: a slot that was reused while the cue waited to
\* be written does not turn it over to somebody else (append_cue_entries,
\* apply_cues). Each cue of the frames played so far is given out exactly once,
\* those of the first frame, which is applied twice, included (begin_session,
\* tick_session).
CuesReplayedOnce ==
  /\ \A i \in 1..Len(heard) : \A j \in 1..Len(session.frames) :
       (heard[i].n = session.frames[j].n /\ Unbroken(j)
          /\ \E s \in DOMAIN session.frames[j].world : session.frames[j].world[s].of = heard[i].cue.by)
       => heard[i].to = heard[i].cue.by
  /\ \A i, j \in 1..Len(heard) : (heard[i].cue = heard[j].cue /\ heard[i].n = heard[j].n) => i = j
  /\ \A k \in 1..session.next - 1 : \A q \in 1..Len(session.frames[k].cues) :
       LET entry == session.frames[k].cues[q]
       IN  (Unbroken(k) /\ \E s \in DOMAIN session.frames[k].world :
                              session.frames[k].world[s].of = entry.cue.by)
           => \E i \in 1..Len(heard) : heard[i].cue = entry.cue
===============================================================================
