------------------------------- MODULE Display -------------------------------
(* What is drawn between ticks (FractionalTickSampler).                          *)
(*                                                                              *)
(* On a client: one entity with one sampled component. A predicted entity is    *)
(* drawn between the last two predicted frames as they were presented           *)
(* (presentation_frames_, written once per frame), so that a rollback does not  *)
(* move it at once; an entity in Snap mode is drawn where the registry has it,  *)
(* plus the error that is being blended out (snap_errors).                      *)
(* On a server: the entities between the last two captured frames.              *)
(*                                                                              *)
(* A component is a number; the application's compute_error, apply_error and    *)
(* blend_out_error subtract, add, and move one towards zero. A sample is the    *)
(* pair of values at its two ends (floor, next): alpha only selects a point     *)
(* between them.                                                                *)
EXTENDS Integers, FiniteSets

CONSTANTS
  Values,     \* values of the component
  Capacity,   \* frames the prediction and presentation rings hold
  Entities,   \* entities of the server's registry
  MaxFrame,   \* bound: frames
  MaxWrites   \* bound: frames written to the prediction ring

DisplayAssumption ==
  /\ Values \subseteq Int
  /\ Capacity \in Nat \ {0}
  /\ MaxFrame \in Nat /\ MaxWrites \in Nat

VARIABLES
  mode,     \* mode.current: "Snap" or "Predict"
  live,     \* the component in the registry
  clock,    \* the clock's predicted_frame
  received, \* replication.frame: the frame received last
  last,     \* last_predicted_frame_, 0 without one
  pred,     \* predicted_frames_: frame -> value and write_generation
  pres,     \* presentation_frames_: frame -> value, origin, boundary_corrected
  writes,   \* write_generation_counter_ of the prediction ring
  error,    \* snap_errors of the component, 0 without one
  regular,  \* history: every predicted frame so far was drawn
  drawn,    \* history: the last predicted frame was drawn
  server    \* the server: frame, entities, previous_ and current_ snapshot

entityVars == <<mode, live, clock, received, last, pred, pres, writes, error, regular, drawn>>
vars == <<entityVars, server>>

None == -1   \* not yet spawned
Gone == -2   \* destroyed

Abs(x) == IF x < 0 THEN -x ELSE x
BlendOut(e) == IF e > 0 THEN e - 1 ELSE IF e < 0 THEN e + 1 ELSE 0

\* FramePayloadRing: a frame replaces the one in its slot.
Put(ring, f, x) ==
  [g \in {h \in DOMAIN ring : h % Capacity # f % Capacity} \cup {f} |->
     IF g = f THEN x ELSE ring[g]]

-------------------------------------------------------------------------------
(* A predicted entity: append_predicted_sample                                  *)

Origin(f) == [val |-> pred[f].val, gen |-> pred[f].gen]

\* Seeded fault: a cached frame counts as what was predicted.
NeverStale(f) == FALSE

\* is_stale_presentation_cache: the frame was predicted again since it was drawn.
Stale(f) == f \in DOMAIN pres /\ (f \notin DOMAIN pred \/ pres[f].origin # Origin(f))

\* Seeded fault: the whole error is carried into the next frame.
BoundaryErrorKept(f, boundary) == boundary - pred[f].val

\* apply_predicted_presentation_boundary_error: how far the look of frame f is
\* from its prediction, one frame later.
BoundaryError(f, boundary) == BlendOut(boundary - pred[f].val)

\* ensure_predicted_presentation_frame without a boundary.
Ensured(f) ==
  IF f \in DOMAIN pres THEN pres[f]
  ELSE [val |-> pred[f].val, origin |-> Origin(f), corrected |-> FALSE]

\* The frame before the last one, if it can be shown.
HasPrevious == last > 0 /\ last - 1 \in DOMAIN pres \cup DOMAIN pred

Previous == Ensured(last - 1)

\* previous_can_anchor_visual_continuity
Anchors == HasPrevious /\ (Previous.corrected \/ Stale(last - 1))

\* The last frame as it is presented: once drawn it stays; otherwise it follows
\* from the frame before if that one anchors.
Current ==
  IF last \in DOMAIN pres THEN pres[last]
  ELSE IF Anchors /\ last - 1 \in DOMAIN pred
       THEN [val |-> pred[last].val + BoundaryError(last - 1, Previous.val),
             origin |-> Origin(last), corrected |-> TRUE]
       ELSE Ensured(last)

HasCurrent == last \in DOMAIN pres \cup DOMAIN pred

\* append_frame_sample: an error counts only where no boundary was corrected.
VisibleError == IF Current.corrected \/ Stale(last) THEN 0 ELSE error

PredictedLook ==
  [floor |-> (IF HasPrevious THEN Previous.val ELSE Current.val) + VisibleError,
   next  |-> Current.val + VisibleError]

\* append_live_sample
LiveLook == [floor |-> live + error, next |-> live + error]

IsPredicted == mode = "Predict" /\ last # 0 /\ pred # <<>> /\ HasCurrent

\* sample_fractional_tick_frame, for this entity.
Look == IF IsPredicted THEN PredictedLook ELSE LiveLook

\* fractional_tick_frame: blend_snap_errors if time passed, then sample; what was
\* presented for the first time stays.
Sample(passed) ==
  /\ pres' = IF ~IsPredicted THEN pres
             ELSE LET before == IF HasPrevious THEN Put(pres, last - 1, Previous) ELSE pres
                  IN  Put(before, last, Current)
  /\ error' = IF passed THEN BlendOut(error) ELSE error
  /\ drawn' = TRUE
  /\ UNCHANGED <<mode, live, clock, received, last, pred, writes, regular, server>>

\* compute_error of blend_resim_errors and apply_snap_sample: what has to be added
\* to the new value to show the old one.
ErrorOf(shown, x) == shown - x

\* apply_pending_rollback: the frames from first to the last one are predicted
\* again as y.
Resimulated(first, y) ==
  [f \in {g \in DOMAIN pred : \A h \in first..last : g % Capacity # h % Capacity}
           \cup first..last |->
     IF f \in first..last THEN [val |-> y, gen |-> writes + 1 + (f - first)] ELSE pred[f]]

\* run_frame: a pending rollback (first <= last) is applied, then the next frame
\* is predicted as x.
RunFrame(first, y, x) ==
  LET n == last - first + 1
  IN  /\ mode = "Predict" /\ clock < MaxFrame /\ writes + n < MaxWrites
      /\ first \in 1..last + 1 /\ n <= Capacity
      /\ clock' = clock + 1 /\ last' = clock + 1
      /\ pred' = Put(Resimulated(first, y), clock + 1, [val |-> x, gen |-> writes + n + 1])
      /\ writes' = writes + n + 1
      /\ error' = IF n > 0 /\ last \in DOMAIN pred THEN ErrorOf(pred[last].val, y) ELSE error
      /\ live' = x
      /\ regular' = (regular /\ drawn /\ clock = last)
      /\ drawn' = FALSE
      /\ UNCHANGED <<mode, received, pres, server>>

-------------------------------------------------------------------------------
(* An entity in Snap mode and mode switches                                     *)

\* apply_snap_sample: the error is what the record moved the component by.
SnapRecord(f, x) ==
  /\ mode = "Snap" /\ f > received
  /\ received' = f
  /\ live' = x
  /\ error' = ErrorOf(live, x)
  /\ UNCHANGED <<mode, clock, last, pred, pres, writes, regular, drawn, server>>

\* transition_to_predict: the rings are not cleared; prediction starts from the
\* frame received last.
TransitionToPredict ==
  /\ mode = "Snap" /\ received > 0 /\ writes < MaxWrites
  /\ mode' = "Predict" /\ error' = 0
  /\ pred' = Put(pred, received, [val |-> live, gen |-> writes + 1])
  /\ writes' = writes + 1
  /\ last' = received
  /\ clock' = IF clock < received THEN received ELSE clock
  /\ regular' = (pres = <<>>)
  /\ drawn' = FALSE
  /\ UNCHANGED <<live, received, pres, server>>

\* transition_to_snap applies the record received last (x in frame f).
TransitionToSnap(f, x) ==
  /\ mode = "Predict" /\ f >= received
  /\ mode' = "Snap" /\ live' = x /\ error' = 0
  /\ received' = f
  /\ regular' = FALSE
  /\ UNCHANGED <<clock, last, pred, pres, writes, drawn, server>>

-------------------------------------------------------------------------------
(* The server's own display                                                     *)

\* capture_server_frame, called for every frame and by the application; a frame is
\* captured once.
Captured(s, world) ==
  IF s.current.frame = s.frame THEN s
  ELSE [s EXCEPT !.previous = s.current, !.current = [frame |-> s.frame, world |-> world]]

\* A fixed step of the server, observed by the sampler.
ServerStep(world) ==
  /\ server.frame < MaxFrame
  /\ \A e \in Entities : server.world[e] = Gone => world[e] = Gone
  /\ server' = Captured([server EXCEPT !.frame = @ + 1, !.world = world], world)
  /\ UNCHANGED entityVars

CaptureAgain ==
  /\ server.frame > 0
  /\ server' = Captured(server, server.world)
  /\ UNCHANGED entityVars

\* rebuild_from_server
ServerLook(e) ==
  LET now    == server.current.world[e]
      before == server.previous.world[e]
  IN  [floor |-> IF before \in {None, Gone} THEN now ELSE before, next |-> now]

Init ==
  /\ mode = "Snap" /\ live \in Values /\ clock = 0 /\ received = 0 /\ last = 0
  /\ pred = <<>> /\ pres = <<>> /\ writes = 0 /\ error = 0
  /\ regular = TRUE /\ drawn = TRUE
  /\ server = LET start == [e \in Entities |-> None]
              IN  [frame |-> 0, world |-> start, previous |-> [frame |-> 0, world |-> start],
                   current |-> [frame |-> 0, world |-> start]]

Next ==
  \/ \E passed \in BOOLEAN : Sample(passed)
  \/ \E first \in 1..MaxFrame : \E y \in Values : \E x \in Values : RunFrame(first, y, x)
  \/ \E f \in 1..MaxFrame : \E x \in Values : SnapRecord(f, x) \/ TransitionToSnap(f, x)
  \/ TransitionToPredict
  \/ \E world \in [Entities -> Values \cup {None, Gone}] : ServerStep(world)
  \/ CaptureAgain

Spec == Init /\ [][Next]_vars

-------------------------------------------------------------------------------
(* Properties                                                                   *)

\* What a step does to what is drawn.
MovesOn ==
  /\ (IsPredicted /\ last' = last + 1 /\ regular' /\ VisibleError = 0)
       => Look'.floor = Look.next
  /\ (mode = "Snap" /\ mode' = "Snap" /\ error = 0) => Look' = Look
  /\ \A e \in Entities :
       /\ server'.frame = server.frame => ServerLook(e)' = ServerLook(e)
       /\ (server'.frame = server.frame + 1
            /\ {server.current.world[e], server'.world[e]} \cap {None, Gone} = {})
            => ServerLook(e)'.floor = ServerLook(e).next

\* What is drawn moves without a jump. A predicted entity that is drawn in every
\* frame begins a new frame where the one before ended, whatever was rolled back
\* meanwhile, unless an error that no presented frame carries is still being
\* blended out (append_predicted_sample, ensure_predicted_presentation_frame); in
\* Snap mode a record moves nothing if no error is left (apply_snap_sample). On
\* the server what is drawn stays as it is within a frame, however often it is
\* captured, and a frame begins where the one before ended (capture_server_frame,
\* rebuild_from_server).
LookIsContinuous == [][MovesOn]_vars

\* What is left of a correction shrinks with every presented frame until the look
\* is the prediction again (apply_predicted_presentation_boundary_error).
CorrectionFades ==
  \A f \in DOMAIN pres \cap DOMAIN pred :
    (f + 1 \in DOMAIN pres \cap DOMAIN pred /\ ~Stale(f + 1) /\ pred[f].gen < pred[f + 1].gen) =>
    LET left == Abs(pres[f].val - pred[f].val)
    IN  Abs(pres[f + 1].val - pred[f + 1].val) <= IF left > 0 THEN left - 1 ELSE 0
===============================================================================
