-------------------------------- MODULE Wire --------------------------------
(* The bit-level encodings of a packet: ranged integers and floats, one to     *)
(* three nested ranges chosen by a selector (serialization.hpp), network ids,  *)
(* frames relative to the packet's frame and strings (protocol.hpp), and       *)
(* values against a previous one (delta.hpp). The writer appends items to a    *)
(* packet; the reader, which knows the same schema, reads them back from a     *)
(* packet that may have lost its end.                                          *)
(* A packet is a sequence of bits. A float is an integer number of units, so   *)
(* that a resolution of several units leaves values between two steps; the     *)
(* rounding of the floating-point unit itself is left out.                     *)
EXTENDS Integers, Sequences, FiniteSets, FiniteSetsExt

CONSTANTS
  IntRanges,    \* schemas of a ranged integer: sequences of nested [min, max]
  FloatRanges,  \* schemas of a ranged float: nested [min, max, step]
  VecRange,     \* delta::FloatConfig of a vector's components
  Numbers,      \* values that are written (integers and units of a float)
  IdWidths,     \* network_entity_id_tier0_bits, _tier1_bits and _id_bits
  FrameBits,    \* bits of a frame number (32)
  NearBits,     \* baseline_frame_delta_bits or cue_frame_delta_bits
  LengthBits,   \* bits of a string's length (16)
  ByteBits,     \* bits of a byte (8)
  DeltaBits,    \* the width a schema gives to an integer's difference
  MaxItems      \* bound: items in a packet

VARIABLES
  items,     \* what was written, in order: the schema and the value of each item
  packet,    \* BitBuffer: the bits
  old,       \* the writer's previous vector and integer (delta.hpp)
  sent,      \* the packet is with the reader
  whole,     \* history: it arrived with all its bits
  got,       \* what the reader has made of the items so far
  at,        \* the reader's position
  known,     \* the reader's previous vector and integer
  rejected   \* a read returned false

vars == <<items, packet, old, sent, whole, got, at, known, rejected>>

Least(a, b) == IF a < b THEN a ELSE b
Greatest(a, b) == IF a > b THEN a ELSE b
Clamp(v, c) == Least(Greatest(v, c.min), c.max)

-----------------------------------------------------------------------------
(* Widths and bits                                                             *)

\* The shortest width that holds max, and at least one bit (of at most 31: the
\* largest integer of the model).
BitsForMaxValue(max) == CHOOSE b \in 1..31 : 2^b > max /\ (b > 1 => 2^(b-1) <= max)

BitsForRange(count) == IF count <= 1 THEN 1 ELSE BitsForMaxValue(count - 1)

\* write_unsigned_bits keeps the lowest n bits.
Bits(v, n) == [i \in 1..n |-> (v \div 2^(i-1)) % 2]

Failed == [ok |-> FALSE, value |-> 0, at |-> 0]

\* A read of n bits from position p, refused when fewer remain.
ReadBits(p, n) ==
  IF p + n > Len(packet) THEN Failed
  ELSE [ok |-> TRUE, at |-> p + n,
        value |-> MapThenSumSet(LAMBDA i : packet[p + i] * 2^(i-1), 1..n)]

-----------------------------------------------------------------------------
(* One of several widths, chosen by a selector: 0, 10 and 11 for three, 0 and  *)
(* 1 for two, nothing for one                                                  *)

Selector(tiers, t) ==
  [i \in 1..(IF t < tiers THEN t ELSE tiers - 1) |-> IF i < t THEN 1 ELSE 0]

SerializeRaw(t, widths, v) == Selector(Len(widths), t) \o Bits(v, widths[t])

ReadRaw(p, widths) ==
  LET ones == Max({k \in 0..(Len(widths) - 1) :
                     \A i \in 1..k : p + i <= Len(packet) /\ packet[p + i] = 1})
      last == ones + 1 = Len(widths)
      r == ReadBits(IF last THEN p + ones ELSE p + ones + 1, widths[ones + 1])
  IN  [ok |-> r.ok, value |-> r.value, at |-> r.at, tier |-> ones + 1]

\* varint2_bits, varint3_bits, network_entity_id_encoded_bits: what the budget
\* of a packet counts for an item before it is written.
RawBits(t, widths) == (IF t < Len(widths) THEN t ELSE t - 1) + widths[t]

-----------------------------------------------------------------------------
(* Ranged integers                                                             *)

\* A schema the code accepts: ranges that are not empty, each within the next.
NestedRanges(cs) ==
  /\ \A i \in 1..Len(cs) : cs[i].min <= cs[i].max
  /\ \A i \in 1..(Len(cs) - 1) : cs[i].min >= cs[i+1].min /\ cs[i].max <= cs[i+1].max

InRange(v, c) == v >= c.min /\ v <= c.max

\* The first range that holds v, or the last one.
TierOf(v, cs) == Min({i \in 1..Len(cs) : InRange(v, cs[i])} \cup {Len(cs)})

QuantizedIntBits(c) == BitsForMaxValue(c.max - c.min)
QuantizeInt(v, c) == Clamp(v, c) - c.min
DequantizeInt(q, c) == c.min + Least(q, c.max - c.min)

IntWidths(cs) == [i \in 1..Len(cs) |-> QuantizedIntBits(cs[i])]

SerializeInt(v, cs) ==
  LET t == TierOf(v, cs) IN SerializeRaw(t, IntWidths(cs), QuantizeInt(v, cs[t]))

ReadInt(p, cs) ==
  LET r == ReadRaw(p, IntWidths(cs))
  IN  IF r.ok THEN [r EXCEPT !.value = DequantizeInt(@, cs[r.tier])] ELSE Failed

\* varint2_or_zero, varint3_or_zero: a bit says whether the value differs from 0.
SerializeIntOrZero(v, cs) == IF v = 0 THEN <<0>> ELSE <<1>> \o SerializeInt(v, cs)

ReadIntOrZero(p, cs) ==
  LET has == ReadBits(p, 1)
  IN  IF has.ok /\ has.value = 1 THEN ReadInt(has.at, cs) ELSE has

-----------------------------------------------------------------------------
(* Ranged floats                                                               *)

QuantizedFloatSteps(c) == (c.max - c.min + c.step - 1) \div c.step

\* The nearest step, the upper one of two at the same distance.
QuantizeFloat(v, c) ==
  Least((2 * (Clamp(v, c) - c.min) + c.step) \div (2 * c.step), QuantizedFloatSteps(c))

DequantizeFloat(q, c) ==
  Clamp(c.min + Least(q, QuantizedFloatSteps(c)) * c.step, c)

FloatWidths(cs) == [i \in 1..Len(cs) |-> BitsForMaxValue(QuantizedFloatSteps(cs[i]))]

SameStep(cs) == \A i \in 1..Len(cs) : cs[i].min < cs[i].max /\ cs[i].step = cs[1].step

SerializeFloat(v, cs) ==
  LET t == TierOf(v, cs) IN SerializeRaw(t, FloatWidths(cs), QuantizeFloat(v, cs[t]))

ReadFloat(p, cs) ==
  LET r == ReadRaw(p, FloatWidths(cs))
  IN  IF r.ok THEN [r EXCEPT !.value = DequantizeFloat(@, cs[r.tier])] ELSE Failed

-----------------------------------------------------------------------------
(* Vectors and differences (delta.hpp). Its dequantize_float does not clamp to *)
(* the maximum: the last step may lie above it.                                *)

DeltaFloatBits(c) == BitsForRange(QuantizedFloatSteps(c) + 1)
DeltaDequantize(q, c) == c.min + Least(q, QuantizedFloatSteps(c)) * c.step

WriteVec2(v, c) ==
  Bits(QuantizeFloat(v[1], c), DeltaFloatBits(c)) \o Bits(QuantizeFloat(v[2], c), DeltaFloatBits(c))

ReadVecFloat(p, c) ==
  LET r == ReadBits(p, DeltaFloatBits(c)) IN [r EXCEPT !.value = DeltaDequantize(@, c)]

ReadVec2(p, c) ==
  LET x == ReadVecFloat(p, c)
      y == ReadVecFloat(x.at, c)
  IN  [ok |-> x.ok /\ y.ok, value |-> <<x.value, y.value>>, at |-> y.at]

WriteDeltaFloat(previous, v, c) ==
  IF QuantizeFloat(previous, c) = QuantizeFloat(v, c) THEN <<0>>
  ELSE <<1>> \o Bits(QuantizeFloat(v, c), DeltaFloatBits(c))

ReadDeltaFloat(p, previous, c) ==
  LET changed == ReadBits(p, 1)
  IN  CASE ~changed.ok -> Failed
        [] changed.ok /\ changed.value = 0 ->
             [changed EXCEPT !.value = DeltaDequantize(QuantizeFloat(previous, c), c)]
        [] OTHER -> ReadVecFloat(changed.at, c)

\* Two components one after the other; the second is not read when the first fails.
WriteDeltaVec2(previous, v, c) ==
  WriteDeltaFloat(previous[1], v[1], c) \o WriteDeltaFloat(previous[2], v[2], c)

ReadDeltaVec2(p, previous, c) ==
  LET x == ReadDeltaFloat(p, previous[1], c)
      y == ReadDeltaFloat(x.at, previous[2], c)
  IN  [ok |-> x.ok /\ y.ok, value |-> <<x.value, y.value>>, at |-> y.at]

ZigzagEncode(d) == IF d >= 0 THEN 2 * d ELSE -2 * d - 1
ZigzagDecode(z) == IF z % 2 = 0 THEN z \div 2 ELSE -((z + 1) \div 2)

WriteDeltaInt(previous, v) ==
  IF previous = v THEN <<0>> ELSE <<1>> \o Bits(ZigzagEncode(v - previous), DeltaBits)

ReadDeltaInt(p, previous) ==
  LET changed == ReadBits(p, 1)
      full == ReadBits(changed.at, DeltaBits)
  IN  CASE ~changed.ok -> Failed
        [] changed.ok /\ changed.value = 0 -> [changed EXCEPT !.value = previous]
        [] OTHER -> [full EXCEPT !.value = previous + ZigzagDecode(@)]

-----------------------------------------------------------------------------
(* Network ids, frames and strings                                             *)

WriteNetworkEntityId(id) ==
  SerializeRaw(Min({i \in 1..3 : id < 2^IdWidths[i]} \cup {3}), IdWidths, id)

ReadNetworkEntityId(p) == ReadRaw(p, IdWidths)

FrameWidths == <<NearBits, FrameBits>>

\* Seeded fault: the distance is taken for near when it needs one value more.
NearFrameTooFar(current, frame) == current >= frame /\ current - frame <= 2^NearBits

NearFrame(current, frame) == current >= frame /\ current - frame <= 2^NearBits - 1

\* write_baseline_frame and write_cue_frame, against the packet's frame.
WriteFrame(current, frame) ==
  IF NearFrame(current, frame) THEN SerializeRaw(1, FrameWidths, current - frame)
  ELSE SerializeRaw(2, FrameWidths, frame)

ReadFrame(p, current) ==
  LET r == ReadRaw(p, FrameWidths)
  IN  IF r.tier = 2 THEN r
      ELSE IF r.value > current THEN Failed
      ELSE [r EXCEPT !.value = current - @]

\* A string longer than its length field can say loses its end.
KeptLength(s) == Least(Len(s), 2^LengthBits - 1)

WriteString(s) ==
  Bits(KeptLength(s), LengthBits)
    \o [i \in 1..(KeptLength(s) * ByteBits) |->
          Bits(s[((i - 1) \div ByteBits) + 1], ByteBits)[((i - 1) % ByteBits) + 1]]

ReadString(p) ==
  LET n == ReadBits(p, LengthBits)
      end == n.at + n.value * ByteBits
  IN  IF n.ok /\ end <= Len(packet)
      THEN [ok |-> TRUE, at |-> end,
            value |-> [i \in 1..n.value |-> ReadBits(n.at + (i - 1) * ByteBits, ByteBits).value]]
      ELSE [Failed EXCEPT !.value = <<>>]

-----------------------------------------------------------------------------
(* The writer                                                                  *)

\* An item of the packet: how it is encoded (kind), with which schema, and the
\* value; len is what the *_bits functions say of it.
Put(item, bits) ==
  /\ ~sent
  /\ Len(items) < MaxItems
  /\ items' = Append(items, item)
  /\ packet' = packet \o bits
  /\ UNCHANGED <<sent, whole, got, at, known, rejected>>

IntItem(v, cs) ==
  /\ NestedRanges(cs)
  /\ Put([kind |-> "int", schema |-> cs, value |-> v,
           len |-> RawBits(TierOf(v, cs), IntWidths(cs))], SerializeInt(v, cs))
  /\ UNCHANGED old

IntOrZeroItem(v, cs) ==
  /\ NestedRanges(cs)
  /\ Put([kind |-> "intOrZero", schema |-> cs, value |-> v,
           len |-> 1 + (IF v = 0 THEN 0 ELSE RawBits(TierOf(v, cs), IntWidths(cs)))],
             SerializeIntOrZero(v, cs))
  /\ UNCHANGED old

FloatItem(v, cs) ==
  /\ NestedRanges(cs) /\ SameStep(cs)
  /\ Put([kind |-> "float", schema |-> cs, value |-> v,
           len |-> RawBits(TierOf(v, cs), FloatWidths(cs))], SerializeFloat(v, cs))
  /\ UNCHANGED old

VecItem(v) ==
  /\ Put([kind |-> "vec", schema |-> <<VecRange>>, value |-> v,
           len |-> 2 * DeltaFloatBits(VecRange)], WriteVec2(v, VecRange))
  /\ old' = [old EXCEPT !.vec = v]

\* A vector against the one written before it.
DeltaVecItem(v) ==
  /\ Put([kind |-> "deltaVec", schema |-> <<VecRange>>, value |-> v,
           len |-> Len(WriteDeltaVec2(old.vec, v, VecRange))],
             WriteDeltaVec2(old.vec, v, VecRange))
  /\ old' = [old EXCEPT !.vec = v]

\* The caller's width holds every difference it writes.
DeltaIntItem(v) ==
  /\ ZigzagEncode(v - old.int) < 2^DeltaBits
  /\ Put([kind |-> "deltaInt", schema |-> <<>>, value |-> v,
           len |-> Len(WriteDeltaInt(old.int, v))], WriteDeltaInt(old.int, v))
  /\ old' = [old EXCEPT !.int = v]

IdItem(id) ==
  /\ Put([kind |-> "id", schema |-> <<>>, value |-> id,
           len |-> RawBits(Min({i \in 1..3 : id < 2^IdWidths[i]} \cup {3}), IdWidths)],
             WriteNetworkEntityId(id))
  /\ UNCHANGED old

FrameItem(current, frame) ==
  /\ Put([kind |-> "frame", schema |-> current, value |-> frame,
           len |-> RawBits(IF NearFrame(current, frame) THEN 1 ELSE 2, FrameWidths)],
             WriteFrame(current, frame))
  /\ UNCHANGED old

StringItem(s) ==
  /\ Put([kind |-> "string", schema |-> <<>>, value |-> s,
           len |-> LengthBits + KeptLength(s) * ByteBits], WriteString(s))
  /\ UNCHANGED old

\* The packet goes to the reader, with its last "lost" bits missing.
Send(lost) ==
  /\ ~sent
  /\ items # <<>>
  /\ sent' = TRUE
  /\ whole' = (lost = 0)
  /\ packet' = SubSeq(packet, 1, Len(packet) - lost)
  /\ UNCHANGED <<items, old, got, at, known, rejected>>

-----------------------------------------------------------------------------
(* The reader                                                                  *)

ReadItem(item) ==
  CASE item.kind = "int" -> ReadInt(at, item.schema)
    [] item.kind = "intOrZero" -> ReadIntOrZero(at, item.schema)
    [] item.kind = "float" -> ReadFloat(at, item.schema)
    [] item.kind = "vec" -> ReadVec2(at, VecRange)
    [] item.kind = "deltaVec" -> ReadDeltaVec2(at, known.vec, VecRange)
    [] item.kind = "deltaInt" -> ReadDeltaInt(at, known.int)
    [] item.kind = "id" -> ReadNetworkEntityId(at)
    [] item.kind = "frame" -> ReadFrame(at, item.schema)
    [] item.kind = "string" -> ReadString(at)

\* The next item of the schema; a read that returns false ends the packet.
Read ==
  LET item == items[Len(got) + 1]
      r == ReadItem(item)
  IN  /\ sent /\ ~rejected
      /\ Len(got) < Len(items)
      /\ IF r.ok
         THEN /\ got' = Append(got, r.value)
              /\ at' = r.at
              /\ known' = CASE item.kind \in {"vec", "deltaVec"} -> [known EXCEPT !.vec = r.value]
                            [] item.kind = "deltaInt" -> [known EXCEPT !.int = r.value]
                            [] OTHER -> known
              /\ UNCHANGED rejected
         ELSE /\ rejected' = TRUE
              /\ UNCHANGED <<got, at, known>>
      /\ UNCHANGED <<items, packet, old, sent, whole>>

Ids == {2^IdWidths[i] - 1 : i \in 1..3} \cup {2^IdWidths[i] : i \in 1..2} \cup {1}
Frames == {0, 1, 2^NearBits - 1, 2^NearBits, 2^NearBits + 1, 2^FrameBits - 1}
Strings == UNION {[1..n -> {2^ByteBits - 1}] : n \in 0..(2^LengthBits)}

Init ==
  /\ items = <<>> /\ packet = <<>> /\ got = <<>>
  /\ old = [vec |-> <<0, 0>>, int |-> 0]
  /\ known = [vec |-> [i \in 1..2 |-> DeltaDequantize(QuantizeFloat(0, VecRange), VecRange)],
              int |-> 0]
  /\ sent = FALSE /\ whole = FALSE /\ rejected = FALSE
  /\ at = 0

Next ==
  \/ \E v \in Numbers, cs \in IntRanges : IntItem(v, cs)
  \/ \E v \in Numbers, cs \in IntRanges : IntOrZeroItem(v, cs)
  \/ \E v \in Numbers, cs \in FloatRanges : FloatItem(v, cs)
  \/ \E x, y \in Numbers : VecItem(<<x, y>>)
  \/ \E x, y \in Numbers : DeltaVecItem(<<x, y>>)
  \/ \E v \in Numbers : DeltaIntItem(v)
  \/ \E id \in Ids : IdItem(id)
  \/ \E current, frame \in Frames : FrameItem(current, frame)
  \/ \E s \in Strings : StringItem(s)
  \/ \E lost \in 0..Len(packet) : Send(lost)
  \/ Read

-----------------------------------------------------------------------------
(* Properties                                                                  *)

\* What a reader may make of an item: an integer clamped to its widest range, a
\* float at most half a step away from it, a vector each of whose components is
\* at most half a step away, exactly the id, frame or difference, and the
\* beginning of a string.
NearBy(x, v, c) == 2 * (x - Clamp(v, c)) <= c.step /\ 2 * (Clamp(v, c) - x) <= c.step

Faithful(item, x) ==
  LET cs == item.schema
  IN  CASE item.kind = "int" -> x = Clamp(item.value, cs[Len(cs)])
        [] item.kind = "intOrZero" ->
             x = IF item.value = 0 THEN 0 ELSE Clamp(item.value, cs[Len(cs)])
        [] item.kind = "float" -> InRange(x, cs[Len(cs)]) /\ NearBy(x, item.value, cs[Len(cs)])
        [] item.kind \in {"vec", "deltaVec"} -> \A i \in 1..2 : NearBy(x[i], item.value[i], cs[1])
        [] item.kind = "string" -> x = SubSeq(item.value, 1, KeptLength(item.value))
        [] OTHER -> x = item.value

LengthOf(n) == MapThenSumSet(LAMBDA i : items[i].len, 1..n)

\* Whatever was written, every item the reader accepts is the one written, as
\* exactly as its schema allows, and ends where the writer's did; the lengths
\* the *_bits functions announce are the bits written; and only a packet that
\* lost bits is refused (serialize_*, write_*, read_*).
RoundTrip ==
  /\ \A i \in 1..Len(got) : Faithful(items[i], got[i])
  /\ at = LengthOf(Len(got))
  /\ ~sent \/ whole => Len(packet) = LengthOf(Len(items))
  /\ rejected => ~whole /\ LengthOf(Len(got) + 1) > Len(packet)

=============================================================================
