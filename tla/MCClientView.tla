---------------------------- MODULE MCClientView ----------------------------
(* What a client makes of what reaches it, for TLC and for the proofs: cues on *)
(* their way to it (CueDelivery), prediction with rollback (Prediction), its   *)
(* clock (ClientClock) and its window of received packets (PacketLoss). They   *)
(* share no state here: a behaviour is one of the four (part), and the others  *)
(* stay in an initial state.                                                   *)
EXTENDS CueDelivery, TLC

CONSTANTS
  Predicted,          \* Prediction: entities in Predict mode
  Policies, Offsets, RingCapacity, MayDestroy, MaxPredicted,
  Sub, Configs, Skews, Steps, Delays, MaxTime, MaxPings,      \* ClientClock
  MaxPacketId, LossWindow, Reorder, MaxSkip, MaxSent          \* PacketLoss

VARIABLES
  part,  \* whose behaviour this is: "cues", "prediction", "clock" or "loss"
  prdPolicy, prdClock, prdStarted, prdLast, prdRollback, prdEnt,
  cfg, clock, input, lead, ping, update, skew, dt,
  window, stats, arrived, first, newest

Prd == INSTANCE Prediction WITH
  Entities <- Predicted, Capacity <- RingCapacity, MaxFrame <- MaxPredicted,
  policy <- prdPolicy, clock <- prdClock, started <- prdStarted, last <- prdLast,
  rollback <- prdRollback, ent <- prdEnt

Clk == INSTANCE ClientClock

Loss == INSTANCE PacketLoss WITH heard <- arrived

ASSUME ClientAssumption ==
  Prd!PredictionAssumption /\ Clk!ClockAssumption /\ Loss!LossAssumption

prdVars == <<prdPolicy, prdClock, prdStarted, prdLast, prdRollback, prdEnt>>
clockVars == <<cfg, clock, input, lead, ping, update, skew, dt>>
lossVars == <<window, stats, arrived, first, newest>>

PredictedSymmetry == Permutations(Predicted)

\* A configuration with every automatic adjustment, one that asks for more lag
\* than the rings hold, and one without fast recovery and step limit.
Automatic ==
  [lagCapacity |-> 4, inputCapacity |-> 4, lag |-> 1, minLag |-> 1, lead |-> 1,
   minLead |-> 1, minDilation |-> 3, maxDilation |-> 5, gain |-> 1, minGap |-> 2,
   jitterMultiplier |-> 1, safety |-> 1, smoothing |-> 2, warmup |-> 1,
   autoLag |-> TRUE, autoLead |-> TRUE, fastRecovery |-> TRUE, maxSteps |-> 2,
   pingJump |-> 4, pingStable |-> 0, pingSamples |-> 2]

SmallConfigs ==
  {Automatic, [Automatic EXCEPT !.lag = 4],
   [Automatic EXCEPT !.fastRecovery = FALSE, !.maxSteps = 0, !.autoLead = FALSE]}

\* One start for every behaviour of the other parts.
Idle ==
  /\ part # "cues" => \A e \in Entities : owner[e] = Host
  /\ part # "prediction" => prdPolicy = CHOOSE p \in Policies : TRUE
  /\ part # "clock" => /\ cfg = CHOOSE c \in Configs : Clk!ValidTiming(c)
                       /\ skew = CHOOSE s \in Skews : TRUE
                       /\ ~clock.booted /\ ~lead.predicting /\ ~lead.buffered

MCInit ==
  /\ part \in {"cues", "prediction", "clock", "loss"}
  /\ Init /\ Prd!Init /\ Clk!Init /\ Loss!Init
  /\ Idle

MCNext ==
  \/ part = "cues" /\ Next /\ UNCHANGED <<part, prdVars, clockVars, lossVars>>
  \/ part = "prediction" /\ Prd!Next /\ UNCHANGED <<part, vars, clockVars, lossVars>>
  \/ part = "clock" /\ Clk!Next /\ UNCHANGED <<part, vars, prdVars, lossVars>>
  \/ part = "loss" /\ Loss!Next /\ UNCHANGED <<part, vars, prdVars, clockVars>>

MCSpec == MCInit /\ [][MCNext]_<<part, vars, prdVars, clockVars, lossVars>>

\* A correction outlives later rollbacks (CorrectionHolds of Prediction).
CorrectionHolds == Prd!CorrectionHolds

\* The cues a client has played are those of its prediction
\* (CuesFollowPrediction of Prediction).
CuesFollowPrediction == Prd!CuesFollowPrediction

\* The estimated server time stays between what the fastest and the slowest
\* message allow (EstimateBounded of ClientClock).
EstimateBounded == Clk!EstimateBounded

\* Lag and lead stay within the rings (WithinRings of ClientClock).
WithinRings == Clk!WithinRings

\* The statistics count exactly the packets that did not arrive
\* (MissingIsExact of PacketLoss).
MissingIsExact == Loss!MissingIsExact
=============================================================================
