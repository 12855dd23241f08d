--------------------------- MODULE MCServerFrames ---------------------------
(* What is kept and made of server frames, for TLC and for the proofs:         *)
(* quantized frames (FramePool), what is drawn (Display) and what a client     *)
(* plays back (BufferedPlayback). They share no state here: a behaviour is one *)
(* of them (part), and the others stay in an initial state.                    *)
EXTENDS FramePool, TLC

CONSTANTS
  DrawnValues, DrawnCapacity, DrawnEntities, DrawnFrames, DrawnWrites,  \* Display
  PlayedComponents, PlayedInterpolated, PlayedShapes, PlayedValues,     \* BufferedPlayback
  PlayedCapacity, PlayedFrames

VARIABLES
  part,  \* whose behaviour this is
  dspMode, dspLive, dspClock, dspReceived, dspLast, dspPred, dspPres, dspWrites,
  dspError, dspRegular, dspDrawn, dspServer,
  bufClock, bufApplied, bufMode, bufRec, bufRing, bufReg, bufCue, bufHist

Dsp == INSTANCE Display WITH
  Values <- DrawnValues, Capacity <- DrawnCapacity, Entities <- DrawnEntities,
  MaxFrame <- DrawnFrames, MaxWrites <- DrawnWrites,
  mode <- dspMode, live <- dspLive, clock <- dspClock, received <- dspReceived,
  last <- dspLast, pred <- dspPred, pres <- dspPres, writes <- dspWrites,
  error <- dspError, regular <- dspRegular, drawn <- dspDrawn, server <- dspServer

Buf == INSTANCE BufferedPlayback WITH
  Components <- PlayedComponents, Interpolated <- PlayedInterpolated,
  Shapes <- PlayedShapes, Values <- PlayedValues, Capacity <- PlayedCapacity,
  MaxFrame <- PlayedFrames,
  clock <- bufClock, applied <- bufApplied, mode <- bufMode, rec <- bufRec,
  ring <- bufRing, reg <- bufReg, cue <- bufCue, hist <- bufHist

ASSUME DrawnAssumption == Dsp!DisplayAssumption /\ Buf!BufferedAssumption

drawnVars == <<dspMode, dspLive, dspClock, dspReceived, dspLast, dspPred, dspPres,
               dspWrites, dspError, dspRegular, dspDrawn>>
playedVars == <<bufClock, bufApplied, bufMode, bufRec, bufRing, bufReg, bufCue, bufHist>>

\* No two clients see the same of a slot with audience limits.
OwnView == [c \in Clients |-> c]

ClientAndSlotSymmetry == Permutations(Clients) \cup Permutations(Slots)

MCInit ==
  /\ part \in {"pool", "display", "server display", "playback"}
  /\ Init /\ Dsp!Init /\ Buf!Init
  /\ part # "display" => dspLive = CHOOSE x \in DrawnValues : TRUE
  /\ part # "playback" => bufMode = "Snap"

\* A client's display and the server's share no state either.
MCNext ==
  \/ part = "pool" /\ Next /\ UNCHANGED <<part, drawnVars, dspServer, playedVars>>
  \/ part = "display" /\ Dsp!Next /\ UNCHANGED <<part, vars, dspServer, playedVars>>
  \/ part = "server display" /\ Dsp!Next /\ UNCHANGED <<part, vars, drawnVars, playedVars>>
  \/ part = "playback" /\ Buf!Next /\ UNCHANGED <<part, vars, drawnVars, dspServer>>

MCSpec == MCInit /\ [][MCNext]_<<part, vars, drawnVars, dspServer, playedVars>>

\* What is drawn moves without a jump (LookIsContinuous of Display).
LookIsContinuous == Dsp!LookIsContinuous

\* A correction fades with every drawn frame (CorrectionFades of Display).
CorrectionFades == Dsp!CorrectionFades

\* The registry shows the frame the runtime applied last, and no entity after
\* its destroy (RegistryShowsFrame of BufferedPlayback).
RegistryShowsFrame == Buf!RegistryShowsFrame

\* A cue is heard once, in its frame (CuesHeardOnce of BufferedPlayback).
CuesHeardOnce == Buf!CuesHeardOnce

=============================================================================
