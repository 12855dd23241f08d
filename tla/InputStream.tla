----------------------------- MODULE InputStream -----------------------------
(* One client's input stream: the client's ring of recorded inputs, the         *)
(* packets of chained deltas it sends (client/store/input_buffer.cpp), the      *)
(* server's ring, its input ACK and the input it applies in every frame         *)
(* (server/input_buffer.cpp), over a network that loses, repeats and reorders.  *)
(*                                                                              *)
(* Bytes are the numbers 0..(Values - 1); a delta is a difference modulo        *)
(* Values, so that decoding against other bytes than were encoded against gives *)
(* other bytes, as the delta codecs of delta.hpp do. The clock is reduced to    *)
(* the frame it predicts (client_clock.cpp).                                    *)
EXTENDS Integers, Sequences, FiniteSets, FiniteSetsExt

CONSTANTS
  Values,      \* number of different inputs
  Capacity,    \* input_buffer_capacity_frames, of both hosts
  MaxInput,    \* max_input_count
  Lead,        \* prediction_lead_frames
  Targets,     \* leads the clock may ask a prefill for, below Capacity
  Predicting,  \* does the client have predicted entities?
  MaxSteps,    \* max_fixed_steps_per_tick, 0 = no limit
  MayRewind,   \* may a time sync sample move the predicted frame back?
  MaxFrame,    \* bound: frames of both hosts
  MaxPackets,  \* bound: input packets the network remembers
  MaxUpdates   \* bound: updates the network remembers

ASSUME InputAssumption ==
  /\ {Values, Capacity, MaxInput, MaxFrame, MaxPackets, MaxUpdates} \subseteq Nat \ {0}
  /\ {Lead, MaxSteps} \subseteq Nat
  /\ Targets \subseteq 1..(Capacity - 1)
  /\ {Predicting, MayRewind} \subseteq BOOLEAN

VARIABLES
  inp,       \* ClientInputBuffer
  clk,       \* the client's predicted frame and pending catch-up
  srv,       \* ServerInputBuffer of the client
  frame,     \* frame_ of the server
  packets,   \* input packets the network may still deliver
  updates,   \* update headers the network may still deliver
  sent,      \* history: the input the client last sent for a frame
  got,       \* history: the input the server stored for a frame
  faults     \* history: what the client did to the inputs it had sent

vars == <<inp, clk, srv, frame, packets, updates, sent, got, faults>>

Frames == 1..MaxFrame
Bytes == 0..(Values - 1)
NoBytes == -1
Slots == 0..(Capacity - 1)
Slot(f) == f % Capacity

InputFrame == [frame : 0..MaxFrame, bytes : Bytes]
Empty == [s \in Slots |-> [frame |-> 0, bytes |-> 0]]
Holds(ring, f) == f # 0 /\ ring[Slot(f)].frame = f
Larger(a, b) == IF a < b THEN b ELSE a
Smaller(a, b) == IF a < b THEN a ELSE b

\* serialize and deserialize of the input component.
Encode(prev, cur) == IF cur >= prev THEN cur - prev ELSE cur - prev + Values
Decode(prev, delta) == IF prev + delta < Values THEN prev + delta ELSE prev + delta - Values

-------------------------------------------------------------------------------
(* The client                                                                   *)

\* The ring after the frames lo..hi were recorded with the bytes v.
Recorded(ring, lo, hi, v) ==
  [s \in Slots |-> LET into == {f \in lo .. hi : Slot(f) = s}
                   IN  IF into = {} THEN ring[s] ELSE [frame |-> Max(into), bytes |-> v]]

\* Does recording the frames lo..hi overwrite an unacknowledged one?
Overwrites(buffer, lo, hi) ==
  \E s \in Slots :
    LET into == {f \in lo .. hi : Slot(f) = s}
    IN  \/ Cardinality(into) > 1
        \/ into # {} /\ buffer.ring[s].frame > buffer.acked /\ buffer.ring[s].frame \notin into

Record(buffer, lo, hi) ==
  IF buffer.latest = NoBytes \/ lo > hi THEN buffer
  ELSE [buffer EXCEPT !.ring = Recorded(@, lo, hi, buffer.latest),
                      !.gap = @ \/ Overwrites(buffer, lo, hi),
                      !.last = Larger(@, hi)]

\* record_frame of the frames first..last: acknowledged frames are left alone.
RecordFrames(first, last) == Record(inp, Larger(first, inp.acked + 1), last)

FillFramesThrough(buffer, f) == Record(buffer, Larger(buffer.acked, buffer.last) + 1, f)

\* Seeded fault: the baseline is the latest input, not the acknowledged one.
AcknowledgeFrameLatest(buffer, f) ==
  IF f <= buffer.acked \/ f > buffer.last THEN buffer
  ELSE [buffer EXCEPT !.base = buffer.latest, !.hasBase = TRUE, !.acked = f,
                      !.retired = Larger(@, f)]

AcknowledgeFrame(buffer, f) ==
  IF f <= buffer.acked \/ f > buffer.last THEN buffer
  ELSE [buffer EXCEPT
          !.base = IF Holds(buffer.ring, f) THEN buffer.ring[Slot(f)].bytes ELSE @,
          !.hasBase = Holds(buffer.ring, f),
          !.acked = f,
          !.retired = Larger(@, f)]

RetireTransmitFrames(buffer, f) == [buffer EXCEPT !.retired = Larger(@, f)]

\* set_latest claims a baseline even if the acknowledged input has left the ring.
SetInput(v) ==
  /\ inp' = [inp EXCEPT !.latest = v, !.hasBase = TRUE]
  /\ faults' = IF inp.acked # 0 /\ ~inp.hasBase THEN faults \cup {"unbacked"} ELSE faults
  /\ UNCHANGED <<clk, srv, frame, packets, updates, sent, got>>

\* An update's header: ACK, retirement, bootstrap of the clock, prefill.
ReceiveUpdate(u, target) ==
  LET boots == ~clk.booted
      predicted == IF boots THEN u.frame + Lead ELSE clk.predicted
      heard == RetireTransmitFrames(AcknowledgeFrame(inp, u.ack), u.frame)
      ready == IF boots THEN FillFramesThrough(heard, predicted) ELSE heard
      prefill == IF target = 0 THEN 0 ELSE u.frame + target
      fills == prefill > ready.last
  IN  /\ Larger(predicted, prefill) <= MaxFrame
      /\ inp' = IF fills THEN FillFramesThrough(ready, prefill) ELSE ready
      /\ clk' = [booted |-> TRUE,
                 predicted |-> IF fills /\ ~Predicting THEN Larger(predicted, prefill)
                               ELSE predicted,
                 catchup |-> IF fills THEN Larger(clk.catchup, prefill) ELSE clk.catchup]
      /\ UNCHANGED <<srv, frame, packets, updates, sent, got, faults>>

\* A time sync sample far from the estimate moves the predicted frame.
TimeSync(f) ==
  /\ clk.booted
  /\ MayRewind \/ f >= clk.predicted
  /\ f # clk.predicted
  /\ clk' = [clk EXCEPT !.predicted = f]
  /\ UNCHANGED <<inp, srv, frame, packets, updates, sent, got, faults>>

\* find_newest_contiguous_input_range: the first frame of the packet, 0 if none.
NewestContiguous(buffer, floor) ==
  LET oldest == IF buffer.last - floor > MaxInput THEN buffer.last - MaxInput + 1
                ELSE floor + 1
      runs == {f \in oldest .. buffer.last :
                 \A g \in f .. buffer.last : Holds(buffer.ring, g)}
  IN  IF runs = {} THEN 0 ELSE Min(runs)

MustEncodeFirstInFull(buffer, f) ==
  buffer.gap \/ f # buffer.acked + 1 \/ ~(buffer.acked = 0 \/ buffer.hasBase)

\* The packet with the frames first..last, the first of them full or relative
\* to the acknowledged input, each other relative to the one before it.
InputPacket(buffer, first) ==
  LET full == MustEncodeFirstInFull(buffer, first)
      bytes(f) == buffer.ring[Slot(f)].bytes
      prev(f) == IF f > first THEN bytes(f - 1) ELSE IF full THEN 0 ELSE buffer.base
  IN  [baseline |-> buffer.acked, full |-> full, first |-> first,
       inputs |-> [i \in 1..(buffer.last - first + 1) |->
                     Encode(prev(first + i - 1), bytes(first + i - 1))]]

\* What the network still remembers of net when one more message is sent.
Remembered(net, limit) == {keep \in SUBSET net : Cardinality(keep) < limit}

\* append_input_packet; the MTU may cut the oldest frames of the range off.
SendInputs(buffer) ==
  LET floor == Larger(buffer.acked, buffer.retired)
      oldest == NewestContiguous(buffer, floor)
  IN  IF buffer.latest = NoBytes \/ buffer.last <= floor \/ oldest = 0
      THEN inp' = buffer /\ UNCHANGED <<packets, sent>>
      ELSE \E first \in oldest .. buffer.last, keep \in Remembered(packets, MaxPackets) :
             /\ packets' = keep \cup {InputPacket(buffer, first)}
             /\ inp' = [buffer EXCEPT !.gap = FALSE]
             /\ sent' = [f \in Frames |-> IF f \in first .. buffer.last
                                          THEN buffer.ring[Slot(f)].bytes ELSE sent[f]]

\* Does the buffer hold other bytes for a frame than were sent for it?
Resampled(buffer) ==
  \E f \in Frames : /\ Holds(buffer.ring, f)
                    /\ sent[f] # NoBytes /\ sent[f] # buffer.ring[Slot(f)].bytes

\* The frame predicted at the end of a tick: its steps, then the catch-up.
PredictedThrough(steps) ==
  LET stepped == clk.predicted + steps
  IN  IF ~Predicting \/ clk.catchup <= stepped THEN stepped
      ELSE IF MaxSteps = 0 THEN clk.catchup
      ELSE Smaller(clk.catchup, stepped + Larger(0, MaxSteps - steps))

ClientTick(steps) ==
  LET through == PredictedThrough(steps)
      buffer == RecordFrames(clk.predicted + 1, through)
  IN  /\ clk.booted
      /\ MaxSteps # 0 => steps <= MaxSteps
      /\ through <= MaxFrame
      /\ SendInputs(buffer)
      /\ clk' = [clk EXCEPT !.predicted = through,
                            !.catchup = IF Predicting \/ @ <= through THEN 0 ELSE @]
      /\ faults' = IF Resampled(buffer) THEN faults \cup {"resampled"} ELSE faults
      /\ UNCHANGED <<srv, frame, updates, got>>

-------------------------------------------------------------------------------
(* The server                                                                   *)

\* The inputs of the packet, decoded one after the other.
Decoded(p, base) ==
  LET dec[i \in 0..Len(p.inputs)] ==
        IF i = 0 THEN base ELSE Decode(dec[i - 1], p.inputs[i])
  IN  dec

\* Seeded fault: the baseline is the latest input whatever frame it is of.
BaselineOfLatest(p, ack) ==
  IF p.full \/ p.baseline = 0 THEN 0 ELSE IF srv.hasLatest THEN srv.latest ELSE NoBytes

\* What the first input is relative to, NoBytes when it is not known.
BaselineOf(p, ack) ==
  IF p.full \/ p.baseline = 0 THEN 0
  ELSE IF Holds(srv.ring, p.baseline) THEN srv.ring[Slot(p.baseline)].bytes
  ELSE IF srv.hasLatest /\ p.baseline = ack THEN srv.latest
  ELSE NoBytes

\* The frames the packet's inputs are of; a relative packet does not say.
FirstInput(p) == IF p.full THEN p.first ELSE p.baseline + 1
FramesOf(p) == FirstInput(p) .. (FirstInput(p) + Len(p.inputs) - 1)

\* The frames of the packet the server stores.
FreshFrames(p, ack) == {f \in FramesOf(p) : f > ack}

ProcessInputPacket(p) ==
  LET ack == Larger(srv.ack, p.baseline)
      base == BaselineOf(p, ack)
      value == Decoded(p, base)
      fresh == IF base = NoBytes THEN {} ELSE FreshFrames(p, ack)
      newest(s) == Max({f \in fresh : Slot(f) = s})
      bytes(f) == value[f - FirstInput(p) + 1]
  IN  /\ srv' = [srv EXCEPT
                   !.ring = [s \in Slots |-> IF \E f \in fresh : Slot(f) = s
                                             THEN [frame |-> newest(s), bytes |-> bytes(newest(s))]
                                             ELSE @[s]],
                   !.latest = IF fresh = {} THEN @ ELSE bytes(Max(fresh)),
                   !.hasLatest = @ \/ fresh # {},
                   !.ack = IF fresh = {} THEN ack ELSE Max(fresh)]
      /\ got' = [f \in Frames |-> IF f \in fresh THEN bytes(f) ELSE got[f]]
      /\ UNCHANGED <<inp, clk, frame, packets, updates, sent, faults>>

\* Seeded fault: the slot is trusted without looking at the frame it holds.
DueFramesUnchecked(due) ==
  {f \in Larger(srv.appliedFrame + 1, Larger(1, due - Capacity + 1)) .. due :
     srv.ring[Slot(f)].frame # 0}

\* The frames select_input_for_frame may apply in frame due.
DueFrames(due) ==
  {f \in Larger(srv.appliedFrame + 1, Larger(1, due - Capacity + 1)) .. due :
     Holds(srv.ring, f)}

\* The server's tick: the input of the new frame, then the update.
ServerTick ==
  LET due == frame + 1
      best == Max(DueFrames(due))
  IN  /\ due <= MaxFrame
      /\ frame' = due
      /\ srv' = IF DueFrames(due) = {} THEN srv
                ELSE [srv EXCEPT !.appliedFrame = best,
                                 !.applied = srv.ring[Slot(best)].bytes]
      /\ \E keep \in Remembered(updates, MaxUpdates) :
           updates' = keep \cup {[frame |-> due, ack |-> srv.ack]}
      /\ UNCHANGED <<inp, clk, packets, sent, got, faults>>

-------------------------------------------------------------------------------
Init ==
  /\ inp = [latest |-> NoBytes, ring |-> Empty, last |-> 0, acked |-> 0, base |-> 0,
            hasBase |-> FALSE, retired |-> 0, gap |-> FALSE]
  /\ clk = [booted |-> FALSE, predicted |-> 0, catchup |-> 0]
  /\ srv = [ring |-> Empty, latest |-> 0, hasLatest |-> FALSE, ack |-> 0,
            appliedFrame |-> 0, applied |-> NoBytes]
  /\ frame = 0
  /\ packets = {}
  /\ updates = {}
  /\ sent = [f \in Frames |-> NoBytes]
  /\ got = [f \in Frames |-> NoBytes]
  /\ faults = {}

Next ==
  \/ \E v \in Bytes : v # inp.latest /\ SetInput(v)
  \/ \E u \in updates, target \in Targets \cup {0} : ReceiveUpdate(u, target)
  \/ \E f \in Frames : TimeSync(f)
  \/ \E steps \in 0..1 : ClientTick(steps)
  \/ \E p \in packets : ProcessInputPacket(p)
  \/ ServerTick

Spec == Init /\ [][Next]_vars

-------------------------------------------------------------------------------
(* Properties                                                                   *)

Buffer ==
  [latest : Bytes \cup {NoBytes}, ring : [Slots -> InputFrame], last : 0..MaxFrame,
   acked : 0..MaxFrame, base : Bytes, hasBase : BOOLEAN, retired : 0..MaxFrame, gap : BOOLEAN]
ServerBuffer ==
  [ring : [Slots -> InputFrame], latest : Bytes, hasLatest : BOOLEAN, ack : 0..MaxFrame,
   appliedFrame : 0..MaxFrame, applied : Bytes \cup {NoBytes}]

\* Every variable has the shape the code gives it.
TypeOK ==
  /\ inp \in Buffer
  /\ clk \in [booted : BOOLEAN, predicted : 0..MaxFrame, catchup : 0..MaxFrame]
  /\ srv \in ServerBuffer
  /\ frame \in 0..MaxFrame
  /\ \A u \in updates : u \in [frame : 0..MaxFrame, ack : 0..MaxFrame]
  /\ sent \in [Frames -> Bytes \cup {NoBytes}]
  /\ got \in [Frames -> Bytes \cup {NoBytes}]
  /\ faults \subseteq {"unbacked", "resampled"}

\* What the server stores for a frame is what the client sent for it: the chain
\* of deltas of a packet starts from the bytes it was encoded against, however
\* packets and ACKs were lost, repeated and reordered (process_packet_payload,
\* append_input_packet), as long as the client keeps to the inputs it sent.
InputsDecodeExactly ==
  faults = {} => \A f \in Frames : got[f] # NoBytes => got[f] = sent[f]

\* The bytes the client would encode the next input against are the bytes the
\* server stored for that frame (acknowledge_frame and input_ack_frame_).
BaselinesAgree ==
  faults = {} /\ inp.acked # 0 /\ ~MustEncodeFirstInFull(inp, inp.acked + 1)
    => inp.base = got[inp.acked]

\* Also after an unacknowledged input was overwritten the server stores what was
\* sent: the client then encodes its first input in full (must_encode_first_frame_in_full,
\* tests/client_input.test.cpp, "sends full first input frame after unacked input
\* buffer overwrite").
OverwrittenDecodesExactly ==
  "resampled" \notin faults => \A f \in Frames : got[f] # NoBytes => got[f] = sent[f]

\* An input that was sent is never sampled again: the frames a tick records are
\* later than every frame in a packet (record_frame, update_prediction_input_prefill).
NeverResampled == "resampled" \notin faults

\* The server never acknowledges through a frame by believing the client: a
\* packet's baseline is at most the server's own ACK when it arrives, so raising
\* the ACK to it (server/input_buffer.cpp:70) never skips an input.
AckIsTheServersOwn ==
  /\ inp.acked <= srv.ack
  /\ \A p \in packets : p.baseline <= srv.ack
  /\ srv.ack # 0 => got[srv.ack] # NoBytes

\* What the server applies in a frame is the input it received for the frame it
\* credits, and when the input of the very frame arrived before it came due and
\* no input a whole ring ahead has overwritten it, that one is applied
\* (select_input_for_frame).
DueInputApplied ==
  [][frame' # frame =>
       /\ srv'.appliedFrame # 0 => srv'.applied = got[srv'.appliedFrame]
       /\ got[frame'] # NoBytes /\ srv.ack < frame' + Capacity => srv'.appliedFrame = frame']_vars
===============================================================================
