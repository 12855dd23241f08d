--------------------------- MODULE MCUpdatePackets ---------------------------
(* Updates and the packets that carry them, for TLC: what the records mean on  *)
(* both sides (Replication) and how their fields are encoded (Wire). They      *)
(* share no state here: a behaviour is one of the two (part), and the other    *)
(* stays in its initial state.                                                 *)
EXTENDS MCReplication, Integers

VARIABLES
  part,  \* whose behaviour this is: "updates" or "wire"
  items, packet, old, sent, whole, got, at, known, rejected

\* Ranges that are nested, and values below, between, at the edge of and above
\* them. A float's step is two units.
Short == [min |-> 1, max |-> 3, step |-> 2]
Medium == [min |-> -2, max |-> 5, step |-> 2]
Full == [min |-> -4, max |-> 11, step |-> 2]

Enc == INSTANCE Wire WITH
  IntRanges <- {<<Short>>, <<Short, Medium>>, <<Short, Medium, Full>>},
  FloatRanges <- {<<Short>>, <<Medium, Full>>}, VecRange <- Medium,
  Numbers <- {-3, 0, 2, 12}, IdWidths <- <<1, 3, 4>>, FrameBits <- 4, NearBits <- 2,
  LengthBits <- 1, ByteBits <- 2, DeltaBits <- 5, MaxItems <- 2

wireVars == <<items, packet, old, sent, whole, got, at, known, rejected>>

MCInit == part \in {"updates", "wire"} /\ Init /\ Enc!Init

MCNext ==
  \/ part = "updates" /\ Next /\ UNCHANGED <<part, wireVars>>
  \/ part = "wire" /\ Enc!Next /\ UNCHANGED <<part, vars>>

MCSpec == MCInit /\ [][MCNext]_<<part, vars, wireVars>>

\* What is read is what was written, and only a packet that lost bits is refused
\* (RoundTrip of Wire).
RoundTrip == part = "wire" => Enc!RoundTrip

==============================================================================
