--------------------------- MODULE BufferedPlayback ---------------------------
(* Buffered interpolation of one replicated entity at the client, with its cues *)
(* and its mode transitions (buffered_runtime.cpp, update_runtime.cpp,          *)
(* cue_runtime.cpp, client.cpp). A record of frame f fills the ring with every  *)
(* frame since the previous record; the clock applies the ring's frames to the  *)
(* registry some frames later, one after the other. Frames are pushed to the    *)
(* registry incrementally. The clock's buffered frame goes back when the lag    *)
(* grows, jumps when time synchronisation reconfigures it, and a rollback of    *)
(* predicted entities applies buffered frames of the past again.                *)
EXTENDS Integers, FiniteSets

CONSTANTS
  Components,   \* components of the archetype
  Interpolated, \* those with ComponentInterpolation::Interpolate
  Shapes,       \* the sets of components the server's entity may have
  Values,       \* their values
  Capacity,     \* buffered_frame_capacity
  MaxFrame      \* bound: frames

\* What the application configures.
BufferedAssumption ==
  /\ Interpolated \subseteq Components
  /\ Shapes \subseteq SUBSET Components
  /\ Values \subseteq Nat
  /\ Capacity \in Nat \ {0}
  /\ MaxFrame \in Nat

NoFrame == 0
Frames == 1 .. MaxFrame

VARIABLES
  clock,   \* the clock's buffered_frame
  applied, \* last_applied_buffered_frame_ of the runtime, NoFrame without one
  mode,    \* mode.current: "Snap" or "BufferedInterpolation"
  rec,     \* replication: frame, baseline, entity_present, applied_present_mask
  ring,    \* buffered_frames_ of the entity
  reg,     \* the registry: the local entity and its components
  cue,     \* the cue store: buffered and played
  hist     \* history of what was shown, heard and promised, and of what went wrong

vars == <<clock, applied, mode, rec, ring, reg, cue, hist>>

Data == UNION {[D -> Values] : D \in Shapes}
NoData == [c \in {} |-> 0]
NoLocal == [alive |-> FALSE, at |-> NoFrame, data |-> NoData]

Known == rec.frame # NoFrame
Gone == rec.erased
Buffered == Known /\ ~Gone /\ mode = "BufferedInterpolation"

\* f <= last_applied_buffered_frame
AlreadyApplied(f) == applied # NoFrame /\ f <= applied

--------------------------------------------------------------------------------
(* The ring: fill_buffered_frames and write_buffered_frame                      *)

Interpolate(x, y, n, d) == x + ((y - x) * n) \div d

\* A frame between two records: interpolated components of both move, the
\* others keep the earlier value.
Between(from, to, f, fromFrame, toFrame) ==
  [c \in DOMAIN from |->
      IF c \in Interpolated /\ c \in DOMAIN to
      THEN Interpolate(from[c], to[c], f - fromFrame, toFrame - fromFrame)
      ELSE from[c]]

\* changed_present_component_mask
ChangedComponents(prev, data) ==
  {c \in DOMAIN data : c \notin DOMAIN prev \/ data[c] # prev[c]}

NoSample == [present |-> FALSE, data |-> NoData]
SampleAt(r, f) == IF f \in DOMAIN r THEN r[f] ELSE NoSample

\* What the ring has left when frames from first to f were written to it.
KeptFrames(first, f) ==
  {h \in DOMAIN ring : \A g \in first .. f : h % Capacity # g % Capacity}

\* A frame as it is written, with the components to push if the frame before it
\* was applied.
WriteFrame(before, present, data) ==
  [present |-> present, data |-> data,
   push |-> IF ~present THEN {}
            ELSE IF before.present THEN ChangedComponents(before.data, data)
            ELSE DOMAIN data]

\* The ring after the frames rec.frame + 1 .. f were written, f itself as received.
\* A frame replaces the one in its slot; in a ring of one that is the frame before.
FilledRing(f, present, data) ==
  LET was == reg.alive \/ DOMAIN rec.data # {}
      first == IF Known THEN rec.frame + 1 ELSE f
      Sample(g) ==
        IF g = f THEN [present |-> present, data |-> data]
        ELSE [present |-> was,
              data |-> IF was THEN Between(rec.data, data, g, rec.frame, f) ELSE NoData]
      Before(g) == IF Capacity = 1 THEN NoSample
                   ELSE IF g = first THEN SampleAt(ring, g - 1) ELSE Sample(g - 1)
  IN  [g \in KeptFrames(first, f) \cup {h \in first .. f : h + Capacity > f} |->
         IF g \in first .. f THEN WriteFrame(Before(g), Sample(g).present, Sample(g).data)
         ELSE ring[g]]

--------------------------------------------------------------------------------
(* The registry: apply_buffered_sample and apply_registry_frame                 *)

\* What one application reads and changes.
Shown == [reg |-> reg, mask |-> rec.mask, cue |-> cue, hist |-> hist, erased |-> rec.erased]

Pushed(old, removed, data, push) ==
  [c \in (DOMAIN old \ removed) \cup (DOMAIN data \cap push) |->
      IF c \in DOMAIN data \cap push THEN data[c] ELSE old[c]]

\* Seeded fault: the frame's changes are pushed whatever was applied before it.
PushSetAlways(at, f, sample) == sample.push

\* Only the frame after the one applied last is pushed incrementally.
PushSet(at, f, sample) == IF at + 1 = f THEN sample.push ELSE DOMAIN sample.data

ApplySample(sh, f, sample) ==
  IF ~sample.present
  THEN [sh EXCEPT !.reg = [NoLocal EXCEPT !.at = f], !.mask = {},
                  !.hist.shown = NoData]
  ELSE [sh EXCEPT
          !.reg = [alive |-> TRUE, at |-> f,
                   data |-> Pushed(@.data, sh.mask \ DOMAIN sample.data, sample.data,
                                   PushSet(@.at, f, sample))],
          !.mask = DOMAIN sample.data,
          !.hist.shown = sample.data]

--------------------------------------------------------------------------------
(* Cues                                                                         *)

\* Seeded fault: a played cue is not looked for.
UnplayedAll(sh, cues) == cues

\* find_played
Unplayed(sh, cues) == cues \ sh.cue.played

\* play does nothing without a local entity.
PlayCues(sh, cues) ==
  IF ~sh.reg.alive THEN sh
  ELSE [sh EXCEPT
          !.cue.played = @ \cup cues,
          !.hist.sound = [f \in Frames |-> @[f] + (IF f \in Unplayed(sh, cues) THEN 1 ELSE 0)]]

\* store_authoritative_buffered: cues of frames already applied are played at
\* once, the others wait for their frame.
StoreCues(sh, cues) ==
  LET due == {f \in cues : AlreadyApplied(f)}
  IN  PlayCues([sh EXCEPT !.cue.buffered = @ \cup (cues \ due)], due)

--------------------------------------------------------------------------------
(* ClientBufferedRuntime::apply_frame                                           *)

EraseEntity(sh) ==
  [sh EXCEPT !.reg = NoLocal, !.cue = [buffered |-> {}, played |-> {}], !.erased = TRUE]

DiscardCues(sh, f) == [sh EXCEPT !.cue.buffered = {g \in @ : g > f}]

\* play_buffered_for_frame, then discard_applied_buffered
ApplyCues(sh, f) == DiscardCues(PlayCues(sh, sh.cue.buffered \cap {f}), f)

\* A frame the ring does not hold leaves the entity as it is.
ApplyFrame(sh, f) ==
  IF ~Buffered \/ sh.erased THEN sh
  ELSE IF f \notin DOMAIN ring THEN DiscardCues(sh, f)
  ELSE LET shown == ApplySample(sh, f, ring[f])
       IN  IF ring[f].present THEN ApplyCues(shown, f) ELSE EraseEntity(shown)

Commit(sh) ==
  /\ reg' = sh.reg
  /\ cue' = sh.cue
  /\ hist' = sh.hist

\* apply_frames: n frames from f on, one after the other.
ApplyFrames(sh, f, n) ==
  LET after[i \in 0 .. n] == IF i = 0 THEN sh ELSE ApplyFrame(after[i - 1], f + i - 1)
  IN  after[n]

\* advance_client_frame_numbers and apply_frames, one frame at a time.
AdvanceFrame ==
  /\ clock < MaxFrame
  /\ clock' = clock + 1
  /\ applied' = clock + 1
  /\ \E sh \in {ApplyFrame(Shown, clock + 1)} :
       Commit(sh) /\ rec' = [rec EXCEPT !.mask = sh.mask, !.erased = sh.erased]
  /\ ring' = IF rec'.erased THEN <<>> ELSE ring
  /\ UNCHANGED mode

\* The buffered lag grows: frames are going to be applied again.
GrowLag ==
  /\ clock > 0
  /\ clock' = clock - 1
  /\ UNCHANGED <<applied, mode, rec, ring, reg, cue, hist>>

\* reconfigure_frames_from_estimated_server_time skips frames.
Reconfigure(f) ==
  /\ f > clock
  /\ clock' = f
  /\ hist' = [hist EXCEPT !.missed = TRUE]
  /\ UNCHANGED <<applied, mode, rec, ring, reg, cue>>

\* run_resimulation_frame of a rollback under ReplicationRollbackPolicy::All: the
\* frames from f up to the one before the buffered frame are applied again.
Resimulate(f) ==
  /\ f < clock
  /\ applied' = clock - 1
  /\ \E sh \in {ApplyFrames(Shown, f, clock - f)} :
       Commit(sh) /\ rec' = [rec EXCEPT !.mask = sh.mask, !.erased = sh.erased]
  /\ ring' = IF rec'.erased THEN <<>> ELSE ring
  /\ UNCHANGED <<clock, mode>>

--------------------------------------------------------------------------------
(* Records: apply_upsert_for_mode and apply_destroy_for_mode                    *)

\* A record that arrives while the applied frame is behind the clock may be
\* passed over; one of a frame the ring cannot hold besides those that are still to
\* come overruns it. A cue that waits for a frame before the entity's first record
\* is not promised either.
Received(sh, f, cues) ==
  [sh EXCEPT !.hist.missed = @ \/ applied < clock,
             !.hist.overrun = @ \/ f > clock + Capacity,
             !.hist.promised = @ \cup cues]

\* apply_buffered_upsert: record_authoritative_present sets the applied mask
\* before the frame is applied.
UpsertBuffered(f, data, cues, promised) ==
  LET filled == FilledRing(f, TRUE, data)
      recorded == [Received(Shown, f, promised) EXCEPT !.mask = DOMAIN data]
      shown == IF AlreadyApplied(f) THEN ApplySample(recorded, f, filled[f]) ELSE recorded
      sh == StoreCues(shown, cues)
  IN  /\ Commit(sh)
      /\ ring' = filled
      /\ rec' = [rec EXCEPT !.frame = f, !.data = data, !.mask = sh.mask]

\* apply_upsert_record: only what differs from the state applied last is pushed.
SnapPush(data) == IF Known THEN ChangedComponents(rec.data, data) ELSE DOMAIN data

\* apply_snap_sample; play_snap plays every cue at once.
SnapSample(sh, data, push) ==
  [sh EXCEPT !.reg.alive = TRUE,
             !.reg.data = Pushed(@, sh.mask \ DOMAIN data, data, push),
             !.mask = DOMAIN data,
             !.hist.shown = data]

UpsertSnap(f, data, cues) ==
  LET sh == PlayCues(SnapSample(Received(Shown, f, cues), data, SnapPush(data)), cues)
  IN  /\ Commit(sh)
      /\ rec' = [rec EXCEPT !.frame = f, !.data = data, !.mask = sh.mask]
      /\ UNCHANGED ring

\* The record of frame f with the cues of the frames since the last record; after
\* a lost ACK the older ones come again.
Upsert(f, data, fresh, resent) ==
  /\ ~Gone
  /\ rec.present
  /\ f > rec.frame
  /\ IF mode = "Snap"
     THEN UpsertSnap(f, data, fresh \cup resent)
     ELSE UpsertBuffered(f, data, fresh \cup resent,
                         IF Known THEN fresh ELSE fresh \cap {f})
  /\ UNCHANGED <<clock, applied, mode>>

\* apply_buffered_destroy waits for its frame, apply_snap_destroy does not.
DestroyEntity(f) ==
  /\ Known
  /\ ~Gone
  /\ rec.present
  /\ f > rec.frame
  /\ IF mode = "Snap" \/ AlreadyApplied(f)
     THEN /\ Commit(EraseEntity(Received(Shown, f, {})))
          /\ rec' = [rec EXCEPT !.frame = f, !.data = NoData, !.present = FALSE, !.mask = {},
                                !.erased = TRUE]
          /\ ring' = <<>>
     ELSE /\ Commit(Received(Shown, f, {}))
          /\ rec' = [rec EXCEPT !.frame = f, !.data = NoData, !.present = FALSE, !.mask = {}]
          /\ ring' = FilledRing(f, FALSE, NoData)
  /\ UNCHANGED <<clock, applied, mode>>

--------------------------------------------------------------------------------
(* Mode transitions: switch_entity_mode                                         *)

TransitionToBuffered ==
  /\ Known
  /\ ~Gone
  /\ mode = "Snap"
  /\ mode' = "BufferedInterpolation"
  /\ reg' = [reg EXCEPT !.at = NoFrame]
  /\ ring' = LET f == rec.frame
                 before == IF Capacity = 1 THEN NoSample ELSE SampleAt(ring, f - 1)
             IN  [g \in KeptFrames(f, f) \cup {f} |->
                    IF g = f THEN WriteFrame(before, rec.present, rec.data) ELSE ring[g]]
  /\ rec' = [rec EXCEPT !.mask = DOMAIN rec.data]
  /\ UNCHANGED <<clock, applied, cue, hist>>

\* play_buffered_on_mode_transition
TransitionCues(sh) == PlayCues(sh, sh.cue.buffered)

\* apply_latest_snap, then finish_immediate_mode_transition
TransitionToSnap ==
  /\ Known
  /\ ~Gone
  /\ mode = "BufferedInterpolation"
  /\ mode' = "Snap"
  /\ LET latest == IF rec.present THEN SnapSample(Shown, rec.data, DOMAIN rec.data)
                   ELSE [Shown EXCEPT !.reg.alive = FALSE, !.reg.data = NoData, !.mask = {},
                                      !.hist.shown = NoData]
         sh == TransitionCues(latest)
     IN  /\ Commit([sh EXCEPT !.cue.buffered = {}])
         /\ rec' = [rec EXCEPT !.mask = sh.mask]
  /\ ring' = <<>>
  /\ UNCHANGED <<clock, applied>>

Init ==
  /\ clock = 0
  /\ applied = NoFrame
  /\ mode \in {"Snap", "BufferedInterpolation"}
  /\ rec = [frame |-> NoFrame, data |-> NoData, present |-> TRUE, mask |-> {}, erased |-> FALSE]
  /\ ring = <<>>
  /\ reg = NoLocal
  /\ cue = [buffered |-> {}, played |-> {}]
  /\ hist = [shown |-> NoData, sound |-> [f \in Frames |-> 0], promised |-> {}, missed |-> FALSE,
             overrun |-> FALSE]

Next ==
  \/ AdvanceFrame
  \/ GrowLag
  \/ \E f \in Frames : Reconfigure(f)
  \/ \E f \in Frames : Resimulate(f)
  \/ \E f \in Frames, data \in Data : \E fresh \in SUBSET (rec.frame + 1 .. f) :
       \E resent \in {{}, hist.promised} : Upsert(f, data, fresh, resent)
  \/ \E f \in Frames : DestroyEntity(f)
  \/ TransitionToBuffered
  \/ TransitionToSnap

Spec == Init /\ [][Next]_vars

--------------------------------------------------------------------------------
(* Properties                                                                   *)

\* The types of the variables.
TypeOK ==
  /\ clock \in 0 .. MaxFrame
  /\ applied \in 0 .. MaxFrame
  /\ mode \in {"Snap", "BufferedInterpolation"}
  /\ rec.frame \in 0 .. MaxFrame
  /\ rec.mask \subseteq Components
  /\ DOMAIN ring \subseteq Frames
  /\ \A f \in DOMAIN ring : ring[f].push \subseteq DOMAIN ring[f].data
  /\ cue.buffered \cup cue.played \subseteq Frames

\* What is pushed incrementally adds up: every component of the frame or record
\* that was applied last has in the registry exactly the value it has there,
\* over skipped, repeated and late frames and over changes of mode. And nothing
\* outlives its destroy: once the clock has passed the frame of the server's
\* destroy there is no local entity, unless frames were skipped or the record
\* arrived while a resimulation had set the applied frame back.
RegistryShowsFrame ==
  /\ reg.alive =>
       /\ DOMAIN hist.shown \subseteq DOMAIN reg.data
       /\ \A c \in DOMAIN hist.shown : reg.data[c] = hist.shown[c]
  /\ Known /\ ~rec.present /\ ~hist.missed /\ rec.frame <= clock => ~reg.alive

\* Every cue is heard once: not again when it is resent, its frame is applied
\* again or the mode changes, and not never, once its frame is due, unless records
\* came so far ahead that its frame fell out of the ring.
CuesHeardOnce ==
  /\ \A f \in Frames : hist.sound[f] <= 1
  /\ ~Gone /\ rec.present /\ ~hist.missed /\ ~hist.overrun =>
       \A f \in hist.promised : mode = "Snap" \/ f <= clock => hist.sound[f] = 1

================================================================================
