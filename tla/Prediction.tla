------------------------------ MODULE Prediction ------------------------------
(* Client-side prediction and predicted cues (prediction_runtime.cpp,           *)
(* cue_runtime.cpp, update_runtime.cpp). The client simulates its predicted     *)
(* entities ahead of the server. An authoritative record that contradicts the   *)
(* prediction of its frame queues a rollback; the next predicted frame first    *)
(* goes back to the earliest queued frame and simulates up to the present       *)
(* again. The simulation emits cues: a cue is played as soon as it is predicted *)
(* and confirmed, or taken back, when the server's record of its frame arrives. *)
(*                                                                              *)
(* An entity's simulated state is one number that a frame of simulation adds 1  *)
(* to, so that a frame simulated twice or left out shows. The server's state at *)
(* a frame may differ from it by an offset the client cannot predict.           *)
EXTENDS Integers, FiniteSets, FiniteSetsExt, Functions

CONSTANTS
  Entities,  \* entities in Predict mode
  Policies,  \* ReplicationRollbackPolicy: "All", "OnlyAffected"
  Offsets,   \* how far the server's state may be from undisturbed simulation
  Capacity,  \* frames the prediction and baseline rings hold
  MayDestroy, \* the server may destroy entities
  MaxFrame   \* bound: frames

PredictionAssumption ==
  /\ Policies \subseteq {"All", "OnlyAffected"}
  /\ Offsets \subseteq Nat
  /\ Capacity \in Nat \ {0}
  /\ MayDestroy \in BOOLEAN
  /\ MaxFrame \in Nat

NoFrame == 0
Frames == 1 .. MaxFrame

VARIABLES
  policy,   \* options.prediction.rollback_policy
  clock,    \* the clock's predicted_frame
  started,  \* has_predicted_frame_
  last,     \* last_predicted_frame_
  rollback, \* pending_prediction_rollback_frame_, NoFrame without one
  ent       \* EntityState, prediction ring and played cues of every entity

vars == <<policy, clock, started, last, rollback, ent>>

\* auth: replication.frame; base: the baseline ring; reg: the registry; pred: the
\* prediction ring; pend: prediction.rollback_frame; played, confirmed: the cue
\* store. History: sound counts the plays of a frame's cue less the times it was
\* taken back, served are the cues the server has sent, and settled says that
\* the record of frame auth was compared with a simulated prediction and that no
\* rollback has gone back behind that frame since; joined is the last frame that
\* was predicted before the entity was known.
UnknownEntity ==
  [life |-> "unknown", auth |-> NoFrame, base |-> <<>>, reg |-> 0, pred |-> <<>>,
   pend |-> NoFrame, played |-> {}, confirmed |-> {},
   sound |-> [f \in Frames |-> 0], served |-> {}, settled |-> FALSE, joined |-> NoFrame]

Alive(s) == s.life = "alive"

--------------------------------------------------------------------------------
(* The simulation job of the application and the rings it is recorded in        *)

Simulated(x, frames) == x + frames

\* The simulation emits a cue in some states and not in others.
EmitsCue(x) == x % 2 = 0

\* ClientFrameRingStore::begin_write and remember_baseline: the frame takes the
\* slot of the frame Capacity before it.
Store(ring, f, x) ==
  [g \in {h \in DOMAIN ring : h % Capacity # f % Capacity} \cup {f} |->
      IF g = f THEN x ELSE ring[g]]

StoreAll(ring, run) ==
  [g \in {h \in DOMAIN ring : \A f \in DOMAIN run : h % Capacity # f % Capacity} \cup
         {f \in DOMAIN run : f + Capacity \notin DOMAIN run} |->
      IF g \in DOMAIN run THEN run[g] ELSE ring[g]]

--------------------------------------------------------------------------------
(* Cues                                                                         *)

\* Plays and rollbacks of cues as they are heard.
Heard(s, plays, takenBack) ==
  [f \in Frames |-> s.sound[f] + (IF f \in plays THEN 1 ELSE 0)
                               - (IF f \in takenBack THEN 1 ELSE 0)]

\* find_played: a cue that was played already is not played again.
NewCues(s, cues) == cues \ s.played

\* Only the cues of the record's own frame are known to be wrong.
Mispredicted(s, cues, f) == {g \in s.played \ s.confirmed : g = f /\ g \notin cues}

\* reconcile_authoritative_predicted
ReconcileCues(s, cues, f) ==
  LET wrong == Mispredicted(s, cues, f)
  IN  [s EXCEPT !.played = (@ \cup cues) \ wrong,
                !.confirmed = @ \cup cues,
                !.sound = Heard(s, NewCues(s, cues), wrong)]

\* drain_emitted_prediction
DrainCues(s, emitted) ==
  [s EXCEPT !.played = @ \cup emitted,
            !.sound = Heard(s, NewCues(s, emitted), {})]

\* Seeded fault: only the last frame's cues count as touched.
TouchedCuesLast(s, begin, current) == s.played \cap {current}

\* cue_was_touched_in_resimulation
TouchedCues(s, begin, current) == {f \in s.played : begin < f /\ f <= current}

\* finish_resimulation: an unconfirmed cue that was not emitted again in this
\* resimulation generation is taken back.
FinishCues(s, emitted, begin, current) ==
  LET dropped == (TouchedCues(s, begin, current) \ s.confirmed) \ emitted
  IN  [s EXCEPT !.played = @ \ dropped, !.sound = Heard(s, {}, dropped)]

--------------------------------------------------------------------------------
(* Authoritative records: apply_predicted_upsert, apply_predicted_destroy       *)

\* compare_predicted_frame
Conflict(s, f, x) == f \in DOMAIN s.pred /\ s.pred[f] # x

\* queue_prediction_rollback keeps an entity's latest frame.
QueuedFrame(pend, f) == IF pend = NoFrame THEN f ELSE Max({pend, f})

\* refresh_pending_rollback_frame: the earliest frame of all entities.
EarliestQueued(es) == Min({es[e].pend : e \in Entities} \ {NoFrame})

RecordState(s, f, x, cues) ==
  LET seen == [s EXCEPT
        !.life = "alive",
        !.pend = IF Conflict(s, f, x) THEN QueuedFrame(@, f) ELSE @,
        !.base = Store(@, f, x),
        !.auth = f,
        !.reg = IF s.life = "unknown" THEN x ELSE @,
        !.settled = f \in DOMAIN s.pred /\ f > s.joined,
        !.joined = IF s.life = "unknown" THEN last ELSE @,
        !.served = @ \cup cues]
  IN  ReconcileCues(seen, cues, f)

\* The record of frame f: the server's state, its cue of the frame, the cues of
\* the frames since the last record and, unless their ACK has arrived, older ones.
Receive(e, f, offset, skipped, resent) ==
  LET s == ent[e]
      x == Simulated(f, offset)
      cues == skipped \cup resent \cup (IF EmitsCue(x) THEN {f} ELSE {})
  IN  /\ s.life # "gone"
      /\ f > s.auth
      /\ ent' = [ent EXCEPT ![e] = RecordState(s, f, x, cues)]
      /\ rollback' = IF Conflict(s, f, x) THEN EarliestQueued(ent') ELSE rollback
      \* seed_first_authoritative_frame
      /\ started' = TRUE
      /\ last' = IF started THEN last ELSE f - 1
      /\ clock' = IF started THEN clock ELSE f
      /\ UNCHANGED policy

\* erase_entity_state forgets the entity and its queued rollback; the pending
\* rollback frame itself stays.
Destroy(e) ==
  /\ MayDestroy
  /\ Alive(ent[e])
  /\ \E f \in Frames : f > ent[e].auth
  /\ ent' = [ent EXCEPT ![e] = [UnknownEntity EXCEPT !.life = "gone"]]
  /\ UNCHANGED <<policy, clock, started, last, rollback>>

--------------------------------------------------------------------------------
(* Rollback: apply_pending_rollback, resimulate                                 *)

\* collect_resimulated_entities
Resimulated(s) == Alive(s) /\ (policy = "All" \/ s.pend # NoFrame)

\* Seeded fault: the prediction is never reset to what the server said.
ResetStateToPrediction(s, begin) == IF begin \in DOMAIN s.pred THEN s.pred[begin] ELSE s.reg

\* prepare_resimulation: the entity's own frame if only affected entities are
\* simulated again, the common frame otherwise.
ResetState(s, begin) ==
  LET own == IF policy = "All" THEN begin ELSE s.pend
  IN  IF own \in DOMAIN s.base THEN s.base[own]
      ELSE IF begin \in DOMAIN s.base THEN s.base[begin]
      ELSE IF policy = "All" /\ begin \in DOMAIN s.pred THEN s.pred[begin]
      ELSE s.reg

\* run_resimulation_frame for every frame after begin, then finish_resimulation.
\* Without a frame to simulate only the reset state is recorded.
Resimulate(s, begin, current) ==
  LET reset == ResetState(s, begin)
      run == IF current <= begin
             THEN [f \in {current} |-> reset]
             ELSE [f \in begin + 1 .. current |-> Simulated(reset, f - begin)]
      emitted == IF current <= begin THEN {} ELSE {f \in DOMAIN run : EmitsCue(run[f])}
      simulated == [s EXCEPT !.reg = run[current],
                             !.pred = StoreAll(@, run),
                             !.pend = NoFrame,
                             !.settled = @ /\ begin >= s.auth]
  IN  FinishCues(DrainCues(simulated, emitted), emitted, begin, current)

AppliedRollback ==
  IF rollback = NoFrame THEN ent
  ELSE [e \in Entities |->
          IF Resimulated(ent[e]) THEN Resimulate(ent[e], rollback, last) ELSE ent[e]]

--------------------------------------------------------------------------------
(* The client's tick: run_predicted_frames and run_frame                        *)

PredictFrame(s, f) ==
  LET x == Simulated(s.reg, 1)
      stepped == [s EXCEPT !.reg = x, !.pred = Store(@, f, x)]
  IN  IF Alive(s) THEN DrainCues(stepped, IF EmitsCue(x) THEN {f} ELSE {}) ELSE s

RunFrame ==
  /\ started
  /\ clock < MaxFrame
  /\ \E e \in Entities : Alive(ent[e])
  /\ \E es \in {AppliedRollback} :
        ent' = [e \in Entities |-> PredictFrame(es[e], clock + 1)]
  /\ rollback' = NoFrame
  /\ clock' = clock + 1
  /\ last' = clock + 1
  /\ UNCHANGED <<policy, started>>

\* Without a predicted entity the clock advances alone.
SkipFrame ==
  /\ started
  /\ clock < MaxFrame
  /\ \A e \in Entities : ~Alive(ent[e])
  /\ clock' = clock + 1
  /\ UNCHANGED <<policy, started, last, rollback, ent>>

Init ==
  /\ policy \in Policies
  /\ clock = 0
  /\ started = FALSE
  /\ last = NoFrame
  /\ rollback = NoFrame
  /\ ent = [e \in Entities |-> UnknownEntity]

Next ==
  \/ \E e \in Entities, f \in Frames, offset \in Offsets :
       \E skipped \in SUBSET (ent[e].auth + 1 .. f - 1) : \E resent \in {{}, ent[e].served} :
         Receive(e, f, offset, skipped, resent)
  \/ \E e \in Entities : Destroy(e)
  \/ RunFrame
  \/ SkipFrame

Spec == Init /\ [][Next]_vars

--------------------------------------------------------------------------------
(* Properties                                                                   *)

IsRing(r) == DOMAIN r \subseteq Frames /\ \A f \in DOMAIN r : r[f] \in Nat

\* The types of the variables.
TypeOK ==
  /\ policy \in Policies
  /\ clock \in 0 .. MaxFrame
  /\ started \in BOOLEAN
  /\ last \in 0 .. MaxFrame
  /\ rollback \in 0 .. MaxFrame
  /\ \A e \in Entities :
       /\ ent[e].life \in {"unknown", "alive", "gone"}
       /\ {ent[e].auth, ent[e].pend} \subseteq 0 .. MaxFrame
       /\ ent[e].reg \in Nat
       /\ IsRing(ent[e].base) /\ IsRing(ent[e].pred)
       /\ ent[e].confirmed \subseteq ent[e].played
       /\ ent[e].played \subseteq Frames

\* A correction is kept: once the latest authoritative record was compared and
\* its rollback applied, everything predicted since is that record simulated
\* forward, each frame exactly once, whatever was rolled back in between.
CorrectionHolds ==
  \A e \in Entities :
    LET s == ent[e]
    IN  Alive(s) /\ s.settled /\ s.pend = NoFrame =>
          /\ \A f \in DOMAIN s.pred : f > s.auth => s.pred[f] = s.base[s.auth] + (f - s.auth)
          /\ last >= s.auth => s.reg = s.base[s.auth] + (last - s.auth)

\* The cues heard of the frames the server has not spoken about yet are those of
\* the prediction as it stands now: a resimulation takes back what it no longer
\* emits, plays what it emits newly and repeats nothing. Every cue the server sent
\* is heard once, predicted or not, resent or not; and of the latest record's
\* frame nothing else is heard.
CuesFollowPrediction ==
  \A e \in Entities : Alive(ent[e]) =>
    /\ \A f \in DOMAIN ent[e].pred : f > ent[e].auth /\ f > ent[e].joined =>
         ent[e].sound[f] = IF EmitsCue(ent[e].pred[f]) THEN 1 ELSE 0
    /\ \A f \in ent[e].served : ent[e].sound[f] = 1
    /\ ent[e].settled /\ ent[e].auth \notin ent[e].served => ent[e].sound[ent[e].auth] = 0

================================================================================
