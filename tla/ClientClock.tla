----------------------------- MODULE ClientClock -----------------------------
(* The client's clock (client_clock.cpp) with everything that drives it: the    *)
(* pings and pongs of client/transport.cpp, the input prefill an update may     *)
(* ask for, the catch-up of client/runtime/prediction_runtime.cpp and the       *)
(* validation of the options (detail/options_validation.cpp).                   *)
(*                                                                              *)
(* Time is in units, Sub of them a frame; the server's clock runs "skew" ahead  *)
(* of the client's. A continuous frame is one number: its frame is the quotient *)
(* by Sub, its accumulator the remainder. Time dilation is in quarters, 4 being *)
(* real time. A smoothed value is rounded down to a unit.                       *)
(* Statistics nothing reads (measured values, the dilation of buffered time)    *)
(* are left out.                                                                *)
EXTENDS Integers, FiniteSets, FiniteSetsExt

CONSTANTS
  Sub,         \* units in a frame
  Configs,     \* the configurations an application may ask for
  Skews,       \* how far the server's clock may be ahead
  Steps,       \* dt of a tick
  Delays,      \* how long a message may be under way
  MaxTime,     \* bound: local time
  MaxPings     \* bound: pings that wait for their pong

VARIABLES
  cfg,      \* ReplicationClientClockConfig
  clock,    \* ReplicationClientClock
  input,    \* last_recorded_frame_ of the input buffer
  lead,     \* the prediction runtime: active snap lead and pending catch-up
  ping,     \* pending pings (local send times), adaptive pinging
  update,   \* last_server_update_frame_; -1 before the first one
  skew,     \* server time - client time
  dt        \* dt of the tick under way, 0 between ticks

clockVars == <<cfg, clock, input, lead, ping, update, skew, dt>>

\* ReplicationClientClockConfig and the options of adaptive pinging.
ClockConfig ==
  [lagCapacity : Nat, inputCapacity : Nat, lag : Nat, minLag : Nat, lead : Nat,
   minLead : Nat, minDilation : Nat, maxDilation : Nat, gain : Nat, minGap : Nat,
   jitterMultiplier : Nat, safety : Nat, smoothing : Nat \ {0}, warmup : Nat,
   autoLag : BOOLEAN, autoLead : BOOLEAN, fastRecovery : BOOLEAN, maxSteps : Nat,
   pingJump : Nat, pingStable : Nat, pingSamples : Nat]

ClockAssumption ==
  /\ Sub \in Nat \ {0}
  /\ Configs \subseteq ClockConfig
  /\ Skews \subseteq Int
  /\ Steps \subseteq Nat
  /\ Delays \subseteq Nat
  /\ \E longest \in Delays : \A d \in Delays : d <= longest

Abs(x) == IF x < 0 THEN -x ELSE x
AtLeast(x, low) == IF x < low THEN low ELSE x
AtMost(x, high) == IF x > high THEN high ELSE x
Clamp(low, high, x) == AtMost(AtLeast(x, low), high)
CeilFrames(units) == (AtLeast(units, 0) + Sub - 1) \div Sub

-------------------------------------------------------------------------------
(* Options                                                                      *)

IsPowerOfTwo(n) == \E k \in 0..6 : n = 2^k

\* Seeded fault: the lag is not compared with the capacity.
ValidTimingForgetsLag(c) ==
  /\ IsPowerOfTwo(c.lagCapacity) /\ IsPowerOfTwo(c.inputCapacity)
  /\ c.minLag < c.lagCapacity
  /\ c.lead < c.inputCapacity /\ c.minLead < c.inputCapacity
  /\ c.minDilation \in 1..4 /\ c.maxDilation >= 4
  /\ c.minGap > 0

\* validate_client_timing_options: an exception stops the client from being made.
ValidTiming(c) ==
  /\ IsPowerOfTwo(c.lagCapacity) /\ IsPowerOfTwo(c.inputCapacity)
  /\ c.lag < c.lagCapacity /\ c.minLag < c.lagCapacity
  /\ c.lead < c.inputCapacity /\ c.minLead < c.inputCapacity
  /\ c.minDilation \in 1..4 /\ c.maxDilation >= 4
  /\ c.minGap > 0

-------------------------------------------------------------------------------
(* ReplicationClientClock: operators from a clock to the next one.              *)

EstimatedServerTime(c) == c.local + c.offset
BufferedFor(c) == AtLeast(EstimatedServerTime(c) - c.lag * Sub, 0)
FrameOf(units) == units \div Sub
RoundedFrameCount(units) == IF units <= 0 THEN 0 ELSE (2 * units + Sub) \div (2 * Sub)

ClampLagTarget(frames) == Clamp(cfg.minLag, cfg.lagCapacity - 1, frames)
ClampLeadTarget(frames) == Clamp(cfg.minLead, cfg.inputCapacity - 1, frames)
Smoothed(old, new) == old + (new - old) \div cfg.smoothing
WarmedUp(c) == c.warmup >= cfg.warmup

DilationFromError(error) ==
  IF 4 * Abs(error) <= Sub THEN 4
  ELSE Clamp(cfg.minDilation, cfg.maxDilation, 4 + error * cfg.gain)

ComputeAutoTargets(c) ==
  LET lag == ClampLagTarget(CeilFrames(c.latency + cfg.jitterMultiplier * c.jitter))
      ahead == ClampLeadTarget(CeilFrames(2 * (c.latency + cfg.jitterMultiplier * c.jitter)
                                          + cfg.safety * Sub))
  IN  [c EXCEPT !.desiredLag = lag, !.targetLag = lag,
                !.desiredLead = ahead, !.targetLead = ahead]

RecordPingSample(c, sample) ==
  LET heard == [c EXCEPT
                  !.latency = IF c.samples = 0 THEN sample ELSE Smoothed(@, sample),
                  !.jitter = IF c.samples = 0 THEN 0 ELSE Smoothed(@, Abs(sample - c.latency)),
                  !.samples = AtMost(@ + 1, 1),
                  !.warmup = AtMost(@ + 1, AtLeast(cfg.warmup, @))]
  IN  IF WarmedUp(heard) THEN ComputeAutoTargets(heard) ELSE heard

ReconfigureThreshold(c) == c.latency + 2 * c.jitter + cfg.minGap * Sub

ReconfigureFrames(c) ==
  LET ahead == IF cfg.autoLead THEN c.targetLead ELSE cfg.lead
  IN  [c EXCEPT !.buffered = BufferedFor(c),
                !.predicted = (RoundedFrameCount(EstimatedServerTime(c)) + ahead) * Sub,
                !.currentLead = ahead]

\* Seeded fault: the way back is taken with the wrong sign.
SampleOffsetSwapped(sent, received, sentBack, now) ==
  ((received - sent) + (now - sentBack)) \div 2

SampleOffset(sent, received, sentBack, now) ==
  ((received - sent) + (sentBack - now)) \div 2

RecordTimeSyncSample(c, sent, received, sentBack) ==
  LET trip == (c.local - sent) - (sentBack - received)
      offset == SampleOffset(sent, received, sentBack, c.local)
      heard == RecordPingSample(c, trip \div 2)
      jumps == /\ c.booted
               /\ Abs(offset - c.offset) >= ReconfigureThreshold(heard)
      synced == [heard EXCEPT
                   !.offset = IF ~c.synced \/ jumps THEN offset ELSE Smoothed(@, offset),
                   !.synced = TRUE]
  IN  IF sent > c.local \/ received > sentBack \/ trip < 0 THEN c
      ELSE IF jumps THEN ReconfigureFrames(synced) ELSE synced

MaybeBootstrap(c, frame, seedLead, completeWarmup) ==
  LET anchors == \/ ~c.synced
                 \/ Abs(EstimatedServerTime(c) - frame * Sub) >= ReconfigureThreshold(c)
      placed == [c EXCEPT !.offset = IF anchors THEN frame * Sub - c.local ELSE @]
  IN  IF c.booted THEN c
      ELSE [placed EXCEPT
              !.buffered = BufferedFor(placed),
              !.predicted = (IF seedLead THEN frame + cfg.lead ELSE frame) * Sub,
              !.currentLead = cfg.lead,
              !.warmup = IF completeWarmup \/ ~seedLead THEN cfg.warmup ELSE @,
              !.booted = TRUE]

AdvanceLocalTime(c, d) == [c EXCEPT !.local = @ + d]

\* consume_client_fixed_steps: steps above the cap are dropped, not owed.
PredictedAfter(c, d) ==
  LET reached == c.predicted + (d * c.dilation) \div 4
      whole == FrameOf(reached) - FrameOf(c.predicted)
  IN  IF cfg.maxSteps = 0 \/ whole <= cfg.maxSteps THEN reached
      ELSE (FrameOf(c.predicted) + cfg.maxSteps) * Sub + (reached % Sub)

AdvanceFrameNumbers(c, d) ==
  IF ~c.booted THEN c
  ELSE [c EXCEPT !.buffered = BufferedFor(c), !.predicted = PredictedAfter(c, d)]

AdvancePredictedFrameTo(c, frame) ==
  [c EXCEPT !.predicted = IF frame > FrameOf(@) THEN frame * Sub ELSE @]

LeadTargetFromObserved(c, downstream) ==
  LET upstream == IF WarmedUp(c) THEN c.latency + cfg.jitterMultiplier * c.jitter
                  ELSE cfg.lead * Sub
  IN  ClampLeadTarget(CeilFrames(downstream + AtLeast(upstream, downstream) + cfg.safety * Sub))

FastRecoveryStep(current, target) ==
  IF cfg.fastRecovery /\ Abs(target - current) >= cfg.minGap THEN target
  ELSE current + (IF current < target THEN 1 ELSE IF current > target THEN -1 ELSE 0)

RecordBufferedTiming(c, frame, downstream, observed, hasBuffered) ==
  LET seen == ClampLagTarget(RoundedFrameCount(downstream))
      target == IF ~cfg.autoLag THEN c.targetLag
                ELSE IF cfg.fastRecovery /\ downstream > 0 THEN AtLeast(c.desiredLag, seen)
                ELSE IF WarmedUp(c) /\ downstream > 0 THEN AtLeast(c.targetLag, seen)
                ELSE c.desiredLag
      measured == AtLeast(frame * Sub - observed, 0)
      adjusts == /\ hasBuffered /\ cfg.autoLag
                 /\ WarmedUp(c) \/ (cfg.fastRecovery /\ downstream > 0)
      large == cfg.fastRecovery /\ Abs(target - c.lag) >= cfg.minGap
      grows == c.lag < target /\ (large \/ downstream > 0 \/ measured >= c.lag * Sub)
      shrinks == c.lag > target /\ (large \/ measured <= c.lag * Sub)
  IN  [c EXCEPT !.targetLag = target,
                !.lag = IF adjusts /\ (grows \/ shrinks) THEN FastRecoveryStep(@, target) ELSE @]

RecordPredictionTiming(c, frame, downstream, observed, lastInput) ==
  LET measured == AtLeast(observed - frame * Sub, 0)
      available == AtLeast(lastInput - frame, 0)
      target == IF ~cfg.autoLead THEN cfg.lead
                ELSE IF ~cfg.fastRecovery THEN c.targetLead
                ELSE AtLeast(c.desiredLead,
                             IF downstream > 0 THEN LeadTargetFromObserved(c, downstream)
                             ELSE c.desiredLead)
      fixedLead == WarmedUp(c) /\ ~cfg.autoLead
  IN  [c EXCEPT
         !.currentLead = AtLeast(RoundedFrameCount(measured), available),
         !.targetLead = IF cfg.autoLead \/ fixedLead THEN target ELSE @,
         !.desiredLead = IF fixedLead THEN cfg.lead ELSE @,
         !.dilation = IF WarmedUp(c) /\ cfg.autoLead
                      THEN DilationFromError(target * Sub - measured) ELSE 4]

\* The input frame a server update asks to be filled, 0 for none.
RequestedPrefill(c, frame, downstream, lastInput) ==
  LET target == LeadTargetFromObserved(c, downstream)
  IN  IF /\ cfg.fastRecovery /\ cfg.autoLead
         /\ downstream > 0 /\ downstream >= cfg.minGap * Sub
         /\ target > AtLeast(lastInput - frame, 0)
      THEN frame + target ELSE 0

RecordPredictionLead(c, frame, predicted) ==
  LET measured == AtLeast(predicted - frame, 0)
      target == IF cfg.autoLead THEN c.targetLead ELSE cfg.lead
  IN  [c EXCEPT
         !.currentLead = measured,
         !.dilation = IF ~cfg.autoLead \/ ~WarmedUp(c)
                      THEN IF measured = target THEN 4 ELSE @
                      ELSE Clamp(cfg.minDilation, cfg.maxDilation,
                                 4 + (target - measured) * Sub * cfg.gain)]

-------------------------------------------------------------------------------
(* The client around its clock. lead.predicting: it has predicted entities and  *)
(* a first predicted frame; lead.buffered: it has buffered ones.                *)

\* apply_prediction_input_prefill: nothing to do for inputs already recorded.
Prefill(c, recorded, frame, through, snap) ==
  IF through <= recorded
  THEN clock' = c /\ input' = recorded /\ lead' = [lead EXCEPT !.snap = snap]
  ELSE /\ input' = through
       /\ lead' = [lead EXCEPT
                     !.snap = snap,
                     !.catchup = AtLeast(@, through),
                     !.catchupFrom = IF through > lead.catchup THEN frame ELSE @]
       /\ clock' = RecordPredictionLead(
                     IF lead.predicting THEN c ELSE AdvancePredictedFrameTo(c, through),
                     frame, through)

\* update_active_snap_lead_from_server_update: the new lead and the frame to fill.
ActiveSnapLead(requested, frame, c) ==
  IF requested # 0 THEN <<c.targetLead, requested>>
  ELSE IF lead.snap = 0 \/ c.targetLead < lead.snap THEN <<0, 0>>
  ELSE <<lead.snap, IF c.currentLead < lead.snap THEN frame + lead.snap ELSE 0>>

\* An update of server frame "frame" was applied: bootstrap, timing, prefill.
ReceiveUpdate(frame) ==
  LET booted == MaybeBootstrap(clock, frame, TRUE, FALSE)
      filled == IF clock.booted THEN input ELSE AtLeast(input, FrameOf(booted.predicted))
      downstream == AtLeast(EstimatedServerTime(clock) - frame * Sub, 0)
      timed == RecordPredictionTiming(
                 RecordBufferedTiming(booted, frame, downstream, clock.buffered, lead.buffered),
                 frame, downstream, clock.predicted, filled)
      snap == ActiveSnapLead(RequestedPrefill(timed, frame, downstream, filled), frame, timed)
  IN  /\ dt # 0
      /\ update' = frame
      /\ Prefill(timed, filled, frame, snap[2], snap[1])
      /\ UNCHANGED <<cfg, ping, skew, dt>>

\* Which interval to ping at, from how far the sample is from the mean.
AdaptivePing(sample) ==
  LET delta == Abs(sample - clock.latency)
  IN  IF clock.samples = 0 THEN [ping EXCEPT !.stable = 1]
      ELSE IF delta >= cfg.pingJump THEN [ping EXCEPT !.adaptive = TRUE, !.stable = 0]
      ELSE IF delta > cfg.pingStable THEN [ping EXCEPT !.stable = 0]
      ELSE [ping EXCEPT !.stable = AtMost(@ + 1, cfg.pingSamples),
                        !.adaptive = @ /\ ping.stable + 1 < cfg.pingSamples]

\* The pong of the ping sent at "sent", which the server answered at once.
ReceivePong(sent, answered) ==
  LET after == RecordTimeSyncSample(clock, sent, answered, answered)
      through == update + after.targetLead
      refill == /\ cfg.fastRecovery /\ cfg.autoLead /\ update >= 0
                /\ after.targetLead - clock.currentLead >= cfg.minGap
                /\ through > input
  IN  /\ dt # 0
      /\ sent \in ping.pending
      /\ ping' = [AdaptivePing((clock.local - sent) \div 2) EXCEPT !.pending = @ \ {sent}]
      /\ IF refill THEN Prefill(after, input, update, through, after.targetLead)
         ELSE clock' = after /\ UNCHANGED <<input, lead>>
      /\ UNCHANGED <<cfg, update, skew, dt>>

\* tick up to process_inbound_packets.
BeginTick(d) ==
  /\ dt = 0
  /\ clock.local + d <= MaxTime
  /\ clock' = AdvanceLocalTime(clock, d)
  /\ dt' = d
  /\ UNCHANGED <<cfg, input, lead, ping, update, skew>>

\* run_catchup, after the frames of the tick were predicted.
Catchup(c, steps) ==
  LET runs == cfg.fastRecovery /\ lead.predicting /\ lead.catchup > FrameOf(c.predicted)
      left == IF cfg.maxSteps = 0 THEN lead.catchup
              ELSE FrameOf(c.predicted) + AtLeast(cfg.maxSteps - steps, 0)
      reached == AdvancePredictedFrameTo(c, AtMost(lead.catchup, left))
      after == IF ~runs THEN c
               ELSE IF lead.catchupFrom = 0 THEN reached
               ELSE RecordPredictionLead(reached, lead.catchupFrom, FrameOf(reached.predicted))
      settled == runs \/ lead.catchup <= FrameOf(after.predicted)
  IN  /\ clock' = after
      /\ lead' = IF settled THEN [lead EXCEPT !.catchup = 0, !.catchupFrom = 0] ELSE lead
      /\ input' = IF steps > 0 \/ runs THEN AtLeast(input, FrameOf(after.predicted)) ELSE input

\* The rest of tick: frame numbers, prediction, catch-up and the pings.
EndTick ==
  LET moved == AdvanceFrameNumbers(clock, dt)
      steps == FrameOf(moved.predicted) - FrameOf(clock.predicted)
  IN  /\ dt # 0
      /\ Catchup(moved, steps)
      /\ dt' = 0
      /\ \/ /\ Cardinality(ping.pending) < MaxPings
            /\ ping' = [ping EXCEPT !.pending = @ \cup {clock.local}]
         \/ UNCHANGED ping
      /\ UNCHANGED <<cfg, update, skew>>

SetBufferedFrameLag(frames) ==
  /\ dt = 0
  /\ frames < cfg.lagCapacity
  /\ cfg' = [cfg EXCEPT !.lag = frames]
  /\ clock' = [clock EXCEPT !.lag = frames, !.desiredLag = frames, !.targetLag = frames]
  /\ UNCHANGED <<input, lead, ping, update, skew, dt>>

NewClock == [local |-> 0, offset |-> 0, buffered |-> 0, predicted |-> 0, lag |-> cfg.lag,
             desiredLag |-> cfg.lag, targetLag |-> cfg.lag, desiredLead |-> cfg.lead,
             targetLead |-> cfg.lead, currentLead |-> cfg.lead, dilation |-> 4,
             latency |-> 0, jitter |-> 0, samples |-> 0, warmup |-> 0,
             synced |-> FALSE, booted |-> FALSE]

\* A client without a connect token is in the server's process: it starts at 0.
Init ==
  /\ cfg \in {c \in Configs : ValidTiming(c)}
  /\ \E hosted \in BOOLEAN :
       /\ clock = IF hosted THEN MaybeBootstrap(NewClock, 0, FALSE, TRUE) ELSE NewClock
       /\ skew \in IF hosted THEN {0} ELSE Skews
  /\ lead \in [snap : {0}, catchup : {0}, catchupFrom : {0},
               predicting : BOOLEAN, buffered : BOOLEAN]
  /\ input = 0
  /\ ping = [pending |-> {}, adaptive |-> TRUE, stable |-> 0]
  /\ update = -1
  /\ dt = 0

ServerFrameSent(delay) == FrameOf(clock.local + skew - delay)

Next ==
  \/ \E d \in Steps : BeginTick(d)
  \/ \E delay \in Delays : /\ clock.local + skew >= delay
                           /\ ReceiveUpdate(ServerFrameSent(delay))
  \/ \E sent \in ping.pending, up \in Delays :
       /\ clock.local - sent - up \in Delays
       /\ ReceivePong(sent, sent + skew + up)
  \/ EndTick
  \/ \E frames \in 0..cfg.lagCapacity : SetBufferedFrameLag(frames)

-------------------------------------------------------------------------------
(* Properties                                                                   *)

MaxDelay == Max(Delays)

\* The estimated server time is off by at most the longest delay and a frame:
\* estimated_server_time_seconds after updates, pongs, smoothing and jumps.
EstimateBounded ==
  clock.booted \/ clock.synced =>
    Abs(EstimatedServerTime(clock) - (clock.local + skew)) < MaxDelay + Sub

\* What the clock asks for fits the rings it is meant for: the lag the ring of
\* buffered frames, the leads the ring of inputs.
WithinRings ==
  /\ {clock.lag, clock.targetLag, clock.desiredLag} \subseteq 0..(cfg.lagCapacity - 1)
  /\ {clock.targetLead, clock.desiredLead, lead.snap} \subseteq 0..(cfg.inputCapacity - 1)

===============================================================================
