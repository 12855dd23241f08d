----------------------------- MODULE TrafficProofs -----------------------------
(* Theorems about the traffic between clients and server, in both directions:   *)
(* about InputStream, the inputs of a client, for every capacity, packet limit, *)
(* lead, prefill target and bound; and about Bandwidth, the updates that        *)
(* several clients share a budget for, for any clients, entities, weights,      *)
(* sizes and limits.                                                            *)
EXTENDS InputStream, Bandwidth, NaturalFacts, FiniteSetTheorems, SequenceTheorems, TLAPS

--------------------------------------------------------------------------------
(* Facts about the operators. *)

\* A frame's slot is a slot of the ring.
LEMMA SlotType ==
    ASSUME NEW f \in Nat
    PROVE  Slot(f) \in Slots
BY InputAssumption DEF Slot, Slots

\* Two frames share a slot only if they are a whole ring apart.
LEMMA SlotGap ==
    ASSUME NEW f \in Nat, NEW g \in Nat, f < g, Slot(f) = Slot(g)
    PROVE  f + Capacity <= g
<1> DEFINE c == Capacity
           i == f \div c
           j == g \div c
<1>1. c \in Nat /\ c > 0
  BY InputAssumption
<1> HIDE DEF c
<1>2. f = c * i + (f % c) /\ i \in Int
  BY <1>1
<1>3. g = c * j + (g % c) /\ j \in Int
  BY <1>1
<1>4. f % c = g % c /\ f % c \in Int
  BY <1>1 DEF Slot, c
<1> HIDE DEF i, j
<1>5. i < j
  <2> SUFFICES ASSUME j <= i PROVE FALSE
    BY <1>2, <1>3
  <2>1. c * j <= c * i
    BY <1>1, <1>2, <1>3
  <2> QED BY <2>1, <1>1, <1>2, <1>3, <1>4
<1>6. c * i + c <= c * j
  BY <1>1, <1>2, <1>3, <1>5
<1> QED BY <1>1, <1>2, <1>3, <1>4, <1>6 DEF c

\* The greatest of a non-empty set of frames.
LEMMA MaxFacts ==
    ASSUME NEW b \in Nat, NEW S \in SUBSET (0 .. b), S # {}
    PROVE  Max(S) \in S /\ \A f \in S : f <= Max(S)
<1>1. \E n \in S : \A m \in S : n >= m
  BY GreatestNumber
<1> QED BY <1>1 DEF Max

\* Decoding a delta against the bytes it was encoded against gives the input.
LEMMA DecodeEncode ==
    ASSUME NEW prev \in Bytes, NEW cur \in Bytes
    PROVE  /\ Encode(prev, cur) \in Bytes
           /\ Decode(prev, Encode(prev, cur)) = cur
BY InputAssumption DEF Bytes, Encode, Decode

\* A decoded input is an input.
LEMMA DecodeType ==
    ASSUME NEW prev \in Bytes, NEW delta \in Bytes
    PROVE  Decode(prev, delta) \in Bytes
BY InputAssumption DEF Bytes, Decode

\* Decoding a packet yields an input after each delta: the recursive definition
\* has a solution, and every solution decodes one delta after the other.
LEMMA DecodedFacts ==
    ASSUME NEW p, NEW n \in Nat, Len(p.inputs) = n, \A i \in 1 .. n : p.inputs[i] \in Bytes,
           NEW base \in Bytes
    PROVE  /\ Decoded(p, base) \in [0 .. n -> Bytes]
           /\ Decoded(p, base)[0] = base
           /\ \A i \in 1 .. n : Decoded(p, base)[i] = Decode(Decoded(p, base)[i - 1], p.inputs[i])
<1> DEFINE Chain(d, m) == d[0] = base /\ \A i \in 1 .. m : d[i] = Decode(d[i - 1], p.inputs[i])
           P(m) == \E d \in [0 .. m -> Bytes] : Chain(d, m)
           K == {m \in Nat : m <= n => P(m)}
<1>1. P(0)
  <2> DEFINE z == [i \in 0 .. 0 |-> base]
  <2>1. z \in [0 .. 0 -> Bytes] /\ Chain(z, 0)
    OBVIOUS
  <2> HIDE DEF z
  <2> QED BY <2>1
<1>2. ASSUME NEW m \in Nat, m + 1 <= n, P(m) PROVE P(m + 1)
  <2>1. PICK d \in [0 .. m -> Bytes] : Chain(d, m)
    BY <1>2
  <2>2. d[m] \in Bytes /\ p.inputs[m + 1] \in Bytes
    BY <1>2
  <2> DEFINE v == Decode(d[m], p.inputs[m + 1])
             g == [i \in 0 .. (m + 1) |-> IF i = m + 1 THEN v ELSE d[i]]
  <2>3. v \in Bytes
    BY <2>2, DecodeType
  <2>4. \A i \in 1 .. m : d[i] = Decode(d[i - 1], p.inputs[i])
    BY <2>1
  <2>5. d[0] = base
    BY <2>1
  <2> HIDE DEF v
  <2>6. g \in [0 .. (m + 1) -> Bytes]
    BY <2>1, <2>3
  <2>7. g[0] = base /\ g[m + 1] = v /\ g[m] = d[m]
    BY <2>5
  <2>8. \A i \in 1 .. m : g[i] = d[i] /\ g[i - 1] = d[i - 1]
    OBVIOUS
  <2> HIDE DEF g
  <2>9. \A i \in 1 .. (m + 1) : g[i] = Decode(g[i - 1], p.inputs[i])
    <3> SUFFICES ASSUME NEW i \in 1 .. (m + 1) PROVE g[i] = Decode(g[i - 1], p.inputs[i])
      OBVIOUS
    <3>1. CASE i = m + 1
      BY <3>1, <2>7 DEF v
    <3>2. CASE i \in 1 .. m
      BY <3>2, <2>4, <2>8
    <3> QED BY <3>1, <3>2
  <2>10. Chain(g, m + 1)
    BY <2>7, <2>9
  <2> QED BY <2>6, <2>10
<1> HIDE DEF P
<1>3. K = Nat
  <2>1. 0 \in K
    BY <1>1
  <2>2. \A m \in K : m + 1 \in K
    BY <1>2
  <2>3. K \in SUBSET Nat
    OBVIOUS
  <2> HIDE DEF K
  <2> QED BY <2>1, <2>2, <2>3, Induct
<1>4. PICK d \in [0 .. n -> Bytes] : Chain(d, n)
  <2>1. P(n)
    BY <1>3
  <2> QED BY <2>1 DEF P
<1> DEFINE Body(f) == [i \in 0 .. n |-> IF i = 0 THEN base ELSE Decode(f[i - 1], p.inputs[i])]
<1>5. d = Body(d)
  <2>1. \A i \in 0 .. n : d[i] = IF i = 0 THEN base ELSE Decode(d[i - 1], p.inputs[i])
    BY <1>4
  <2> QED BY <1>4, <2>1
<1>6. Decoded(p, base) = CHOOSE f : f = Body(f)
  BY DEF Decoded
<1> DEFINE e == Decoded(p, base)
<1>7. e = Body(e)
  BY <1>5, <1>6
<1>8. e[0] = base /\ \A i \in 1 .. n : e[i] = Decode(e[i - 1], p.inputs[i])
  <2> HIDE DEF e
  <2> QED BY <1>7
<1>9. e \in [0 .. n -> Bytes]
  <2> DEFINE T == {i \in Nat : i <= n => e[i] \in Bytes}
  <2> HIDE DEF e
  <2>1. 0 \in T
    BY <1>8
  <2>2. \A i \in T : i + 1 \in T
    <3> SUFFICES ASSUME NEW i \in T, i + 1 <= n PROVE e[i + 1] \in Bytes
      OBVIOUS
    <3>1. i \in Nat /\ e[i] \in Bytes /\ p.inputs[i + 1] \in Bytes
      OBVIOUS
    <3>2. e[i + 1] = Decode(e[i], p.inputs[i + 1])
      BY <3>1, <1>8
    <3> QED BY <3>1, <3>2, DecodeType
  <2>3. T \in SUBSET Nat
    OBVIOUS
  <2>4. T = Nat
    <3> HIDE DEF T
    <3> QED BY <2>1, <2>2, <2>3, Induct
  <2>5. \A i \in 0 .. n : e[i] \in Bytes
    BY <2>4
  <2> QED BY <1>7, <2>5
<1> QED BY <1>8, <1>9

\* Recording frames keeps the buffer well formed, moves nothing but the ring, the
\* last frame and the gap, and leaves the frames outside the range alone.
LEMMA RecordFacts ==
    ASSUME NEW b \in Buffer, NEW lo \in Nat, NEW hi \in 0 .. MaxFrame
    PROVE  LET c == Record(b, lo, hi) IN
           /\ c \in Buffer
           /\ c.acked = b.acked /\ c.base = b.base /\ c.hasBase = b.hasBase
           /\ c.retired = b.retired /\ c.latest = b.latest
           /\ c.last = b.last \/ (lo <= hi /\ c.last = Larger(b.last, hi))
           /\ \A f \in Frames : Holds(c.ring, f) =>
                 f \in lo .. hi \/ (Holds(b.ring, f) /\ c.ring[Slot(f)] = b.ring[Slot(f)])
<1>0. MaxFrame \in Nat \ {0} /\ b.latest \in Bytes \cup {NoBytes} /\ b.gap \in BOOLEAN
      /\ b.ring \in [Slots -> InputFrame] /\ b.last \in 0 .. MaxFrame
  BY InputAssumption DEF Buffer
<1>1. CASE b.latest = NoBytes \/ lo > hi
  BY <1>1 DEF Record
<1>2. CASE ~(b.latest = NoBytes \/ lo > hi)
  <2> DEFINE r == Recorded(b.ring, lo, hi, b.latest)
             g == b.gap \/ Overwrites(b, lo, hi)
             l == Larger(b.last, hi)
             c == Record(b, lo, hi)
  <2>1. c = [b EXCEPT !.ring = r, !.gap = g, !.last = l]
    BY <1>2 DEF Record
  <2>2. g \in BOOLEAN /\ l \in 0 .. MaxFrame
    BY <1>0 DEF Larger
  <2>3. ASSUME NEW s \in Slots
        PROVE  /\ r[s] \in InputFrame
               /\ r[s] = b.ring[s] \/ r[s].frame \in lo .. hi
    <3> DEFINE into == {f \in lo .. hi : Slot(f) = s}
    <3>1. r[s] = IF into = {} THEN b.ring[s] ELSE [frame |-> Max(into), bytes |-> b.latest]
      BY DEF Recorded
    <3>2. CASE into = {}
      BY <3>1, <3>2, <1>0
    <3>3. CASE into # {}
      <4>1. into \in SUBSET (0 .. MaxFrame)
        BY <1>0
      <4>2. Max(into) \in into
        BY <4>1, <3>3, <1>0, MaxFacts
      <4> QED BY <3>1, <3>3, <4>1, <4>2, <1>0, <1>2 DEF InputFrame
    <3> QED BY <3>2, <3>3
  <2>4. r \in [Slots -> InputFrame]
    <3>1. r = [s \in Slots |-> r[s]]
      BY DEF Recorded
    <3> HIDE DEF r
    <3> QED BY <3>1, <2>3
  <2> HIDE DEF r, g, l, c
  <2>5. /\ c \in Buffer
        /\ c.acked = b.acked /\ c.base = b.base /\ c.hasBase = b.hasBase
        /\ c.retired = b.retired /\ c.latest = b.latest
        /\ c.ring = r /\ c.last = l
    BY <2>1, <2>2, <2>4 DEF Buffer
  <2>6. \A f \in Frames : Holds(c.ring, f) =>
                 f \in lo .. hi \/ (Holds(b.ring, f) /\ c.ring[Slot(f)] = b.ring[Slot(f)])
    <3> SUFFICES ASSUME NEW f \in Frames, Holds(r, f), f \notin lo .. hi
                 PROVE  Holds(b.ring, f) /\ r[Slot(f)] = b.ring[Slot(f)]
      BY <2>5
    <3>1. Slot(f) \in Slots
      BY <1>0, SlotType DEF Frames
    <3>2. r[Slot(f)].frame = f
      BY DEF Holds
    <3>3. r[Slot(f)] = b.ring[Slot(f)]
      BY <3>1, <3>2, <2>3
    <3> QED BY <3>2, <3>3 DEF Holds
  <2> QED BY <2>5, <2>6, <1>2, <1>0 DEF c, l
<1> QED BY <1>1, <1>2

\* An ACK keeps the buffer well formed; it names a frame and takes its bytes.
LEMMA AcknowledgeFacts ==
    ASSUME NEW b \in Buffer, NEW f \in 0 .. MaxFrame
    PROVE  LET c == AcknowledgeFrame(b, f) IN
           /\ c \in Buffer
           /\ c.ring = b.ring /\ c.last = b.last /\ c.latest = b.latest
           /\ \/ c = b
              \/ /\ c.acked = f /\ f > b.acked /\ f \in Frames
                 /\ c.hasBase => Holds(b.ring, f) /\ c.base = b.ring[Slot(f)].bytes
<1>0. MaxFrame \in Nat \ {0} /\ b.ring \in [Slots -> InputFrame] /\ b.retired \in 0 .. MaxFrame
      /\ b.acked \in 0 .. MaxFrame /\ b.base \in Bytes
  BY InputAssumption DEF Buffer
<1>1. CASE f <= b.acked \/ f > b.last
  BY <1>1 DEF AcknowledgeFrame
<1>2. CASE ~(f <= b.acked \/ f > b.last)
  <2> DEFINE v == IF Holds(b.ring, f) THEN b.ring[Slot(f)].bytes ELSE b.base
             h == Holds(b.ring, f)
             r == Larger(b.retired, f)
             c == AcknowledgeFrame(b, f)
  <2>1. c = [b EXCEPT !.base = v, !.hasBase = h, !.acked = f, !.retired = r]
    BY <1>2 DEF AcknowledgeFrame
  <2>2. v \in Bytes
    <3>1. Slot(f) \in Slots
      BY <1>0, SlotType
    <3>2. b.ring[Slot(f)] \in InputFrame
      BY <1>0, <3>1
    <3> QED BY <1>0, <3>2 DEF InputFrame
  <2>3. h \in BOOLEAN /\ r \in 0 .. MaxFrame
    BY <1>0 DEF Holds, Larger
  <2>4. h => v = b.ring[Slot(f)].bytes
    OBVIOUS
  <2>5. f > b.acked /\ f \in Frames
    BY <1>0, <1>2 DEF Frames
  <2> HIDE DEF v, r, c
  <2>6. h = TRUE \/ h = FALSE
    BY <2>3
  <2> HIDE DEF h
  <2>7. /\ c \in Buffer /\ c.ring = b.ring /\ c.last = b.last /\ c.latest = b.latest
        /\ c.acked = f /\ c.hasBase = h /\ c.base = v
    BY <2>1, <2>2, <2>3 DEF Buffer
  <2> QED BY <2>4, <2>5, <2>7 DEF c, h
<1> QED BY <1>1, <1>2

--------------------------------------------------------------------------------
(* The inductive invariant. *)

\* A packet names frames in order, and only what the server has acknowledged.
PacketOK(p) ==
  /\ p.baseline \in 0 .. MaxFrame /\ p.full \in BOOLEAN /\ p.first \in Frames
  /\ Len(p.inputs) \in Nat \ {0} /\ p.first + Len(p.inputs) - 1 <= MaxFrame
  /\ \A i \in 1 .. Len(p.inputs) : p.inputs[i] \in Bytes
  /\ ~p.full => p.first = p.baseline + 1
  /\ p.baseline <= srv.ack
  /\ p.baseline # 0 => got[p.baseline] # NoBytes

PacketsOK == \A p \in packets : PacketOK(p)

\* The server's ring holds, for each slot, the newest input stored there, and
\* the ACK and the input applied last are inputs it stored.
ServerInv ==
  /\ \A f \in Frames : got[f] # NoBytes => f <= srv.ack /\ srv.ring[Slot(f)].frame >= f
  /\ \A s \in Slots : srv.ring[s].frame # 0 =>
        Slot(srv.ring[s].frame) = s /\ got[srv.ring[s].frame] = srv.ring[s].bytes
  /\ srv.ack # 0 => got[srv.ack] = srv.latest
  /\ srv.hasLatest => srv.ack # 0
  /\ srv.appliedFrame <= frame
  /\ srv.appliedFrame # 0 => got[srv.appliedFrame] = srv.applied /\ srv.applied # NoBytes

\* ACKs name inputs the server stored.
AckInv ==
  /\ inp.acked <= srv.ack
  /\ inp.acked # 0 => got[inp.acked] # NoBytes
  /\ inp.acked = 0 => inp.base = 0
  /\ \A u \in updates : u.ack <= srv.ack /\ (u.ack # 0 => got[u.ack] # NoBytes)

\* Only recorded frames were sent.
SentRecorded == \A f \in Frames : sent[f] # NoBytes => f <= inp.last

\* The ring holds what was sent.
RingAsSent ==
  \A f \in Frames : Holds(inp.ring, f) /\ sent[f] # NoBytes => inp.ring[Slot(f)].bytes = sent[f]

\* What the i-th delta of a packet is relative to.
Previous(p, i) ==
  IF i > 1 THEN sent[p.first + i - 2] ELSE IF p.full \/ p.baseline = 0 THEN 0 ELSE sent[p.baseline]

\* A packet is the chain of deltas of the inputs sent.
EncodesSent ==
  \A p \in packets : \A i \in 1 .. Len(p.inputs) :
    /\ sent[p.first + i - 1] # NoBytes
    /\ p.inputs[i] = Encode(Previous(p, i), sent[p.first + i - 1])

\* What the server stored, and what the client encodes against, is what was sent.
ExactInv ==
  faults = {} =>
    /\ RingAsSent
    /\ EncodesSent
    /\ \A f \in Frames : got[f] # NoBytes => got[f] = sent[f]
    /\ inp.acked # 0 /\ inp.hasBase => inp.base = got[inp.acked]

InputInv == TypeOK /\ PacketsOK /\ ServerInv /\ AckInv /\ SentRecorded /\ ExactInv

--------------------------------------------------------------------------------
(* The client's steps. *)

\* Setting the input changes nothing that was sent; it may claim a baseline.
LEMMA SetInputInv ==
    ASSUME InputInv, NEW v \in Bytes, SetInput(v)
    PROVE  InputInv'
<1>0. UNCHANGED <<clk, srv, frame, packets, updates, sent, got>>
  BY DEF SetInput
<1>1. inp \in Buffer /\ inp' = [inp EXCEPT !.latest = v, !.hasBase = TRUE]
  BY DEF InputInv, TypeOK, SetInput
<1>2. /\ inp' \in Buffer /\ inp'.ring = inp.ring /\ inp'.last = inp.last
      /\ inp'.acked = inp.acked /\ inp'.base = inp.base
  BY <1>1 DEF Buffer
<1>3. faults' = faults \/ faults' = faults \cup {"unbacked"}
  BY DEF SetInput
<1>4. TypeOK'
  BY <1>0, <1>2, <1>3 DEF InputInv, TypeOK
<1>5. PacketsOK' /\ ServerInv'
  BY <1>0 DEF InputInv, PacketsOK, PacketOK, ServerInv
<1>6. AckInv' /\ SentRecorded'
  BY <1>0, <1>2 DEF InputInv, AckInv, SentRecorded
<1>7. ExactInv'
  <2> SUFFICES ASSUME faults' = {}
               PROVE  /\ RingAsSent' /\ EncodesSent'
                      /\ \A f \in Frames : got'[f] # NoBytes => got'[f] = sent'[f]
                      /\ inp'.acked # 0 /\ inp'.hasBase => inp'.base = got'[inp'.acked]
    BY DEF ExactInv
  <2>1. faults = {} /\ ~(inp.acked # 0 /\ ~inp.hasBase)
    BY <1>3 DEF SetInput
  <2>2. /\ RingAsSent /\ EncodesSent
        /\ \A f \in Frames : got[f] # NoBytes => got[f] = sent[f]
        /\ inp.acked # 0 /\ inp.hasBase => inp.base = got[inp.acked]
    BY <2>1 DEF InputInv, ExactInv
  <2>3. RingAsSent' /\ EncodesSent'
    BY <2>2, <1>0, <1>2 DEF RingAsSent, EncodesSent, Previous
  <2> QED BY <2>1, <2>2, <2>3, <1>0, <1>2
<1> QED BY <1>4, <1>5, <1>6, <1>7 DEF InputInv

\* What the invariant says of one buffer of the client.
BufferInv(b) ==
  /\ b \in Buffer
  /\ b.acked <= srv.ack
  /\ b.acked # 0 => got[b.acked] # NoBytes
  /\ b.acked = 0 => b.base = 0
  /\ \A f \in Frames : sent[f] # NoBytes => f <= b.last

\* The buffer's ring holds what was sent.
RingSent(b) ==
  \A f \in Frames : Holds(b.ring, f) /\ sent[f] # NoBytes => b.ring[Slot(f)].bytes = sent[f]

\* What the invariant says of the bytes in a buffer while there was no fault.
BytesInv(b) == RingSent(b) /\ (b.acked # 0 /\ b.hasBase => b.base = got[b.acked])

\* Frames that were not sent may be recorded: that disturbs nothing.
LEMMA FillKeeps ==
    ASSUME NEW b, BufferInv(b), NEW f \in 0 .. MaxFrame
    PROVE  /\ BufferInv(FillFramesThrough(b, f))
           /\ RingSent(b) => RingSent(FillFramesThrough(b, f))
           /\ BytesInv(b) => BytesInv(FillFramesThrough(b, f))
           /\ \/ FillFramesThrough(b, f).last = b.last
              \/ FillFramesThrough(b, f).last = f /\ f >= b.last
<1> DEFINE lo == Larger(b.acked, b.last) + 1
           c == FillFramesThrough(b, f)
<1>0. b \in Buffer /\ MaxFrame \in Nat /\ b.acked \in 0 .. MaxFrame /\ b.last \in 0 .. MaxFrame
  BY InputAssumption DEF BufferInv, Buffer
<1>1. lo \in Nat /\ lo > b.last
  BY <1>0 DEF Larger
<1>2. c = Record(b, lo, f)
  BY DEF FillFramesThrough
<1> HIDE DEF lo, c
<1>3. /\ c \in Buffer
      /\ c.acked = b.acked /\ c.base = b.base /\ c.hasBase = b.hasBase
      /\ c.last = b.last \/ (lo <= f /\ c.last = Larger(b.last, f))
      /\ \A g \in Frames : Holds(c.ring, g) =>
                 g \in lo .. f \/ (Holds(b.ring, g) /\ c.ring[Slot(g)] = b.ring[Slot(g)])
  BY <1>0, <1>1, <1>2, RecordFacts
<1>4. c.last >= b.last /\ c.last \in 0 .. MaxFrame
  BY <1>0, <1>3 DEF Larger
<1>5. BufferInv(c)
  BY <1>0, <1>3, <1>4 DEF BufferInv, Frames
<1>6. ASSUME RingSent(b) PROVE RingSent(c)
  <2>1. \A g \in Frames : sent[g] # NoBytes => g \notin lo .. f
    BY <1>0, <1>1 DEF BufferInv, Frames
  <2> QED BY <1>3, <1>6, <2>1 DEF RingSent
<1>7. BytesInv(b) => BytesInv(c)
  BY <1>3, <1>6 DEF BytesInv
<1>8. c.last = b.last \/ (c.last = f /\ f >= b.last)
  BY <1>0, <1>1, <1>3 DEF Larger
<1> QED BY <1>5, <1>6, <1>7, <1>8 DEF c

\* An ACK of an input that the server stored as it was sent keeps the baselines equal.
LEMMA AcknowledgeKeeps ==
    ASSUME NEW b, BufferInv(b), NEW f \in 0 .. MaxFrame, f <= srv.ack, f # 0 => got[f] # NoBytes
    PROVE  /\ BufferInv(AcknowledgeFrame(b, f))
           /\ AcknowledgeFrame(b, f).last = b.last
           /\ RingSent(b) => RingSent(AcknowledgeFrame(b, f))
           /\ BytesInv(b) /\ (f # 0 => got[f] = sent[f]) => BytesInv(AcknowledgeFrame(b, f))
<1> DEFINE c == AcknowledgeFrame(b, f)
<1>0. b \in Buffer /\ MaxFrame \in Nat /\ b.acked \in 0 .. MaxFrame
  BY InputAssumption DEF BufferInv, Buffer
<1>1. /\ c \in Buffer
      /\ c.ring = b.ring /\ c.last = b.last
      /\ \/ c = b
         \/ /\ c.acked = f /\ f > b.acked /\ f \in Frames
            /\ c.hasBase => Holds(b.ring, f) /\ c.base = b.ring[Slot(f)].bytes
  BY <1>0, AcknowledgeFacts
<1> HIDE DEF c
<1>2. BufferInv(c)
  BY <1>0, <1>1 DEF BufferInv
<1>3. ASSUME BytesInv(b), f # 0 => got[f] = sent[f] PROVE BytesInv(c)
  BY <1>0, <1>1, <1>3 DEF BytesInv, RingSent, Frames
<1>4. RingSent(b) => RingSent(c)
  BY <1>1 DEF RingSent
<1> QED BY <1>1, <1>2, <1>3, <1>4 DEF c

\* Retiring frames only moves the floor of the transmission.
LEMMA RetireKeeps ==
    ASSUME NEW b, BufferInv(b), NEW f \in 0 .. MaxFrame
    PROVE  /\ BufferInv(RetireTransmitFrames(b, f))
           /\ RetireTransmitFrames(b, f).last = b.last
           /\ RingSent(b) => RingSent(RetireTransmitFrames(b, f))
           /\ BytesInv(b) => BytesInv(RetireTransmitFrames(b, f))
<1> DEFINE r == Larger(b.retired, f)
           c == RetireTransmitFrames(b, f)
<1>0. b \in Buffer /\ MaxFrame \in Nat /\ b.retired \in 0 .. MaxFrame
  BY InputAssumption DEF BufferInv, Buffer
<1>1. c = [b EXCEPT !.retired = r] /\ r \in 0 .. MaxFrame
  BY <1>0 DEF RetireTransmitFrames, Larger
<1> HIDE DEF r, c
<1>2. /\ c \in Buffer /\ c.ring = b.ring /\ c.last = b.last
      /\ c.acked = b.acked /\ c.base = b.base /\ c.hasBase = b.hasBase
  BY <1>0, <1>1 DEF Buffer
<1>3. BufferInv(c) /\ (RingSent(b) => RingSent(c)) /\ (BytesInv(b) => BytesInv(c))
  BY <1>2 DEF BufferInv, BytesInv, RingSent
<1> QED BY <1>2, <1>3 DEF c

\* An update's header: every buffer on the way keeps what the invariant says.
LEMMA ReceiveUpdateInv ==
    ASSUME InputInv, NEW u \in updates, NEW target \in Targets \cup {0}, ReceiveUpdate(u, target)
    PROVE  InputInv'
<1> DEFINE predicted == IF ~clk.booted THEN u.frame + Lead ELSE clk.predicted
           acked == AcknowledgeFrame(inp, u.ack)
           heard == RetireTransmitFrames(acked, u.frame)
           ready == IF ~clk.booted THEN FillFramesThrough(heard, predicted) ELSE heard
           prefill == IF target = 0 THEN 0 ELSE u.frame + target
           fills == prefill > ready.last
           Good(b) == BufferInv(b) /\ (faults = {} => BytesInv(b))
<1>0. UNCHANGED <<srv, frame, packets, updates, sent, got, faults>>
  BY DEF ReceiveUpdate
<1>1. /\ u.frame \in 0 .. MaxFrame /\ u.ack \in 0 .. MaxFrame /\ u.ack <= srv.ack
      /\ u.ack # 0 => got[u.ack] # NoBytes
  BY DEF InputInv, TypeOK, AckInv
<1>2. /\ MaxFrame \in Nat /\ Lead \in Nat /\ target \in Nat
      /\ clk.predicted \in 0 .. MaxFrame /\ clk.catchup \in 0 .. MaxFrame /\ clk.booted \in BOOLEAN
      /\ {Predicting} \subseteq BOOLEAN
  BY InputAssumption DEF InputInv, TypeOK
<1>3. predicted \in Nat /\ prefill \in Nat
  BY <1>1, <1>2
<1>4. predicted \in 0 .. MaxFrame /\ prefill \in 0 .. MaxFrame
  <2>1. Larger(predicted, prefill) <= MaxFrame
    BY DEF ReceiveUpdate
  <2> QED BY <2>1, <1>2, <1>3 DEF Larger
<1>5. Good(inp)
  BY DEF InputInv, TypeOK, AckInv, SentRecorded, ExactInv, RingAsSent, BufferInv, BytesInv,
         RingSent
<1>6. faults = {} => (u.ack # 0 => got[u.ack] = sent[u.ack])
  BY <1>1, <1>2 DEF InputInv, ExactInv, Frames
<1>7. Good(acked)
  <2> HIDE DEF acked
  <2>1. /\ BufferInv(acked)
        /\ BytesInv(inp) /\ (u.ack # 0 => got[u.ack] = sent[u.ack]) => BytesInv(acked)
    BY <1>1, <1>5, AcknowledgeKeeps DEF acked
  <2> QED BY <1>5, <1>6, <2>1
<1> HIDE DEF acked
<1>8. Good(heard)
  BY <1>1, <1>7, RetireKeeps
<1> HIDE DEF heard, predicted, prefill
<1>9. Good(ready)
  BY <1>4, <1>8, FillKeeps
<1> HIDE DEF ready
<1>10. inp' = IF fills THEN FillFramesThrough(ready, prefill) ELSE ready
  BY DEF ReceiveUpdate, fills, ready, heard, acked, prefill, predicted
<1>11. Good(inp')
  BY <1>4, <1>9, <1>10, FillKeeps
<1>12. clk' \in [booted : BOOLEAN, predicted : 0 .. MaxFrame, catchup : 0 .. MaxFrame]
  <2>1. clk' = [booted |-> TRUE,
                predicted |-> IF fills /\ ~Predicting THEN Larger(predicted, prefill) ELSE predicted,
                catchup |-> IF fills THEN Larger(clk.catchup, prefill) ELSE clk.catchup]
    BY DEF ReceiveUpdate, fills, ready, heard, acked, prefill, predicted
  <2>2. Larger(predicted, prefill) \in 0 .. MaxFrame /\ Larger(clk.catchup, prefill) \in 0 .. MaxFrame
    BY <1>2, <1>4 DEF Larger
  <2> HIDE DEF fills
  <2> QED BY <2>1, <2>2, <1>2, <1>4
<1>13. TypeOK'
  BY <1>0, <1>11, <1>12 DEF InputInv, TypeOK, BufferInv
<1>14. PacketsOK' /\ ServerInv'
  BY <1>0 DEF InputInv, PacketsOK, PacketOK, ServerInv
<1>15. AckInv' /\ SentRecorded'
  BY <1>0, <1>11 DEF InputInv, AckInv, SentRecorded, BufferInv
<1>16. ExactInv'
  BY <1>0, <1>11 DEF InputInv, ExactInv, RingAsSent, EncodesSent, Previous, BytesInv,
                         RingSent
<1> QED BY <1>13, <1>14, <1>15, <1>16 DEF InputInv

\* A time sync sample moves the clock only.
LEMMA TimeSyncInv ==
    ASSUME InputInv, NEW f \in Frames, TimeSync(f)
    PROVE  InputInv'
<1>1. UNCHANGED <<inp, srv, frame, packets, updates, sent, got, faults>>
  BY DEF TimeSync
<1>2. TypeOK'
  <2>1. clk' = [clk EXCEPT !.predicted = f] /\ f \in 0 .. MaxFrame
    BY InputAssumption DEF TimeSync, Frames
  <2> QED BY <1>1, <2>1 DEF InputInv, TypeOK
<1> QED BY <1>1, <1>2 DEF InputInv, PacketsOK, PacketOK, ServerInv, AckInv, SentRecorded, ExactInv,
                          RingAsSent, EncodesSent, Previous

\* The least of a non-empty set of frames.
LEMMA MinFacts ==
    ASSUME NEW S \in SUBSET Nat, S # {}
    PROVE  Min(S) \in S /\ \A f \in S : Min(S) <= f
<1>1. \E n \in S : \A m \in S : n <= m
  BY LeastNumber
<1> QED BY <1>1 DEF Min

\* The frames from NewestContiguous on are later than the floor and in the ring.
LEMMA NewestContiguousFacts ==
    ASSUME NEW b \in Buffer, NEW floor \in 0 .. MaxFrame, NewestContiguous(b, floor) # 0
    PROVE  /\ NewestContiguous(b, floor) \in Frames
           /\ NewestContiguous(b, floor) <= b.last
           /\ \A g \in NewestContiguous(b, floor) .. b.last : Holds(b.ring, g)
<1> DEFINE oldest == IF b.last - floor > MaxInput THEN b.last - MaxInput + 1 ELSE floor + 1
           runs == {f \in oldest .. b.last : \A g \in f .. b.last : Holds(b.ring, g)}
<1>0. MaxFrame \in Nat /\ MaxInput \in Nat \ {0} /\ b.last \in 0 .. MaxFrame
  BY InputAssumption DEF Buffer
<1>1. NewestContiguous(b, floor) = IF runs = {} THEN 0 ELSE Min(runs)
  BY DEF NewestContiguous
<1>2. oldest \in Nat \ {0}
  BY <1>0
<1>3. runs \in SUBSET Nat /\ runs # {}
  BY <1>0, <1>1, <1>2
<1>4. Min(runs) \in runs
  BY <1>3, MinFacts
<1> QED BY <1>0, <1>1, <1>2, <1>3, <1>4 DEF Frames

\* What a packet holds: the chain of deltas of the frames first..last.
LEMMA InputPacketFacts ==
    ASSUME NEW b \in Buffer, NEW first \in Frames, first <= b.last,
           \A g \in first .. b.last : b.ring[Slot(g)].bytes \in Bytes
    PROVE  LET p == InputPacket(b, first)
               bytes(f) == b.ring[Slot(f)].bytes
           IN  /\ p.baseline = b.acked /\ p.first = first
               /\ p.full = MustEncodeFirstInFull(b, first)
               /\ Len(p.inputs) = b.last - first + 1
               /\ \A i \in 1 .. (b.last - first + 1) :
                    /\ p.inputs[i] \in Bytes
                    /\ i > 1 => p.inputs[i] = Encode(bytes(first + i - 2), bytes(first + i - 1))
                    /\ i = 1 /\ p.full => p.inputs[i] = Encode(0, bytes(first))
                    /\ i = 1 /\ ~p.full => p.inputs[i] = Encode(b.base, bytes(first))
<1> DEFINE p == InputPacket(b, first)
           n == b.last - first + 1
           bytes(f) == b.ring[Slot(f)].bytes
           full == MustEncodeFirstInFull(b, first)
           prev(f) == IF f > first THEN bytes(f - 1) ELSE IF full THEN 0 ELSE b.base
           ins == [i \in 1 .. n |-> Encode(prev(first + i - 1), bytes(first + i - 1))]
<1>0. /\ n \in Nat /\ first \in Nat /\ b.last \in Nat /\ b.base \in Bytes /\ 0 \in Bytes
      /\ \A g \in first .. b.last : bytes(g) \in Bytes
  BY InputAssumption DEF Buffer, Frames, Bytes
<1>1. p = [baseline |-> b.acked, full |-> full, first |-> first, inputs |-> ins]
  BY DEF InputPacket
<1> HIDE DEF full
<1>2. p.baseline = b.acked /\ p.first = first /\ p.full = full /\ p.inputs = ins
  <2> HIDE DEF p, ins, n
  <2> QED BY <1>1
<1>3. Len(ins) = n
  BY <1>0
<1>4. ASSUME NEW i \in 1 .. n
      PROVE  /\ ins[i] \in Bytes
             /\ i > 1 => ins[i] = Encode(bytes(first + i - 2), bytes(first + i - 1))
             /\ i = 1 /\ full => ins[i] = Encode(0, bytes(first))
             /\ i = 1 /\ ~full => ins[i] = Encode(b.base, bytes(first))
  <2>1. ins[i] = Encode(prev(first + i - 1), bytes(first + i - 1))
    OBVIOUS
  <2> HIDE DEF ins
  <2>2. i > 1 => prev(first + i - 1) = bytes(first + i - 2)
    BY <1>0
  <2>3. i = 1 => prev(first + i - 1) = (IF full THEN 0 ELSE b.base) /\ first + i - 1 = first
    BY <1>0
  <2>4. bytes(first + i - 1) \in Bytes /\ (i > 1 => bytes(first + i - 2) \in Bytes)
    BY <1>0
  <2>5. prev(first + i - 1) \in Bytes
    BY <1>0, <2>2, <2>3, <2>4
  <2> HIDE DEF prev, bytes, n
  <2>6. ins[i] \in Bytes
    BY <2>1, <2>4, <2>5, DecodeEncode
  <2> QED BY <2>1, <2>2, <2>3, <2>6
<1> HIDE DEF ins
<1>5. ASSUME NEW i \in 1 .. n
      PROVE /\ p.inputs[i] \in Bytes
            /\ i > 1 => p.inputs[i] = Encode(bytes(first + i - 2), bytes(first + i - 1))
            /\ i = 1 /\ p.full => p.inputs[i] = Encode(0, bytes(first))
            /\ i = 1 /\ ~p.full => p.inputs[i] = Encode(b.base, bytes(first))
  <2> HIDE DEF p
  <2> QED BY <1>2, <1>4
<1> HIDE DEF p, n
<1>6. Len(p.inputs) = n
  BY <1>2, <1>3
<1> QED BY <1>2, <1>5, <1>6 DEF p, full, n

\* A tick sends what the ring holds. Unless a frame that was sent before was
\* sampled again, that only adds to what was sent, so every packet under way
\* stays the chain of deltas of the inputs sent.
LEMMA ClientTickInv ==
    ASSUME InputInv, NEW steps \in 0 .. 1, ClientTick(steps)
    PROVE  InputInv'
<1> DEFINE through == PredictedThrough(steps)
           lo == Larger(clk.predicted + 1, inp.acked + 1)
           b == RecordFrames(clk.predicted + 1, through)
           floor == Larger(b.acked, b.retired)
           oldest == NewestContiguous(b, floor)
           bytes(f) == b.ring[Slot(f)].bytes
<1>0. /\ UNCHANGED <<srv, frame, updates, got>>
      /\ SendInputs(b)
      /\ through <= MaxFrame
      /\ clk' = [clk EXCEPT !.predicted = through,
                            !.catchup = IF Predicting \/ clk.catchup <= through THEN 0 ELSE clk.catchup]
      /\ faults' = IF Resampled(b) THEN faults \cup {"resampled"} ELSE faults
  BY DEF ClientTick
<1>1. /\ MaxFrame \in Nat \ {0} /\ MaxSteps \in Nat /\ {Predicting} \subseteq BOOLEAN
      /\ clk.predicted \in 0 .. MaxFrame /\ clk.catchup \in 0 .. MaxFrame
      /\ clk \in [booted : BOOLEAN, predicted : 0..MaxFrame, catchup : 0..MaxFrame]
      /\ inp \in Buffer /\ inp.acked \in 0 .. MaxFrame /\ inp.last \in 0 .. MaxFrame
  BY InputAssumption DEF InputInv, TypeOK, Buffer
<1>2. through \in 0 .. MaxFrame
  BY <1>0, <1>1 DEF PredictedThrough, Larger, Smaller
<1>3. lo \in Nat
  BY <1>1 DEF Larger
<1>4. b = Record(inp, lo, through)
  BY DEF RecordFrames
<1> HIDE DEF through, lo
<1>5. /\ b \in Buffer
      /\ b.acked = inp.acked /\ b.base = inp.base /\ b.hasBase = inp.hasBase
      /\ b.last = inp.last \/ (lo <= through /\ b.last = Larger(inp.last, through))
  BY <1>1, <1>2, <1>3, <1>4, RecordFacts
<1> HIDE DEF b
<1>6. /\ b.last >= inp.last /\ b.last \in 0 .. MaxFrame /\ b.acked \in 0 .. MaxFrame
      /\ b.retired \in 0 .. MaxFrame /\ b.ring \in [Slots -> InputFrame]
  BY <1>1, <1>2, <1>5 DEF Larger, Buffer
<1>7. floor \in 0 .. MaxFrame
  BY <1>6 DEF Larger
<1>8. \A g \in Frames : bytes(g) \in Bytes
  <2> SUFFICES ASSUME NEW g \in Frames PROVE bytes(g) \in Bytes
    OBVIOUS
  <2>1. Slot(g) \in Slots
    BY <1>1, SlotType DEF Frames
  <2> QED BY <2>1, <1>6 DEF InputFrame
<1>9. clk' \in [booted : BOOLEAN, predicted : 0 .. MaxFrame, catchup : 0 .. MaxFrame]
  <2> DEFINE c == IF Predicting \/ clk.catchup <= through THEN 0 ELSE clk.catchup
  <2>1. c \in 0 .. MaxFrame
    BY <1>1
  <2>2. clk' = [clk EXCEPT !.predicted = through, !.catchup = c]
    BY <1>0
  <2> HIDE DEF c
  <2> QED BY <1>1, <1>2, <2>1, <2>2
<1>10. faults' \subseteq {"unbacked", "resampled"}
  BY <1>0 DEF InputInv, TypeOK
<1>11. ASSUME faults' = {}
       PROVE  /\ faults = {}
              /\ \A f \in Frames : Holds(b.ring, f) /\ sent[f] # NoBytes => bytes(f) = sent[f]
  BY <1>0, <1>11 DEF Resampled
<1>12. CASE b.latest = NoBytes \/ b.last <= floor \/ oldest = 0
  <2>1. inp' = b /\ UNCHANGED <<packets, sent>>
    BY <1>0, <1>12 DEF SendInputs
  <2>2. TypeOK'
    BY <1>0, <1>5, <1>9, <1>10, <2>1 DEF InputInv, TypeOK
  <2>3. PacketsOK' /\ ServerInv'
    BY <1>0, <2>1 DEF InputInv, PacketsOK, PacketOK, ServerInv
  <2>4. AckInv' /\ SentRecorded'
    BY <1>0, <1>1, <1>5, <1>6, <2>1 DEF InputInv, AckInv, SentRecorded, Frames
  <2>5. ExactInv'
    BY <1>0, <1>5, <1>11, <2>1 DEF InputInv, ExactInv, RingAsSent, EncodesSent, Previous
  <2> QED BY <2>2, <2>3, <2>4, <2>5 DEF InputInv
<1>13. CASE ~(b.latest = NoBytes \/ b.last <= floor \/ oldest = 0)
  <2>1. PICK first \in oldest .. b.last, keep \in Remembered(packets, MaxPackets) :
             /\ packets' = keep \cup {InputPacket(b, first)}
             /\ inp' = [b EXCEPT !.gap = FALSE]
             /\ sent' = [f \in Frames |-> IF f \in first .. b.last THEN bytes(f) ELSE sent[f]]
    BY <1>0, <1>13 DEF SendInputs
  <2> DEFINE n == b.last - first + 1
  <2>0. PICK p : p = InputPacket(b, first)
    OBVIOUS
  <2>2. keep \subseteq packets
    BY <2>1 DEF Remembered
  <2>3. /\ oldest \in Frames /\ oldest <= b.last
        /\ \A g \in oldest .. b.last : Holds(b.ring, g)
    BY <1>5, <1>7, <1>13, NewestContiguousFacts
  <2> HIDE DEF oldest, floor
  <2>4. /\ first \in Frames /\ first <= b.last /\ n \in Nat \ {0}
        /\ \A g \in first .. b.last : g \in Frames /\ Holds(b.ring, g)
    BY <2>1, <2>3, <1>1, <1>6, SMTT(30) DEF Frames
  <2>5. /\ p.baseline = b.acked /\ p.first = first
        /\ p.full = MustEncodeFirstInFull(b, first)
        /\ Len(p.inputs) = n
        /\ \A i \in 1 .. n :
             /\ p.inputs[i] \in Bytes
             /\ i > 1 => p.inputs[i] = Encode(bytes(first + i - 2), bytes(first + i - 1))
             /\ i = 1 /\ p.full => p.inputs[i] = Encode(0, bytes(first))
             /\ i = 1 /\ ~p.full => p.inputs[i] = Encode(b.base, bytes(first))
    BY <1>5, <1>8, <2>4, <2>0, InputPacketFacts
  <2>6. /\ inp' \in Buffer /\ inp'.ring = b.ring /\ inp'.last = b.last /\ inp'.acked = b.acked
        /\ inp'.base = b.base /\ inp'.hasBase = b.hasBase
    BY <2>1, <1>5 DEF Buffer
  <2>7. /\ \A f \in first .. b.last : sent'[f] = bytes(f) /\ sent'[f] \in Bytes
        /\ \A f \in Frames : f \notin first .. b.last => sent'[f] = sent[f]
        /\ sent' \in [Frames -> Bytes \cup {NoBytes}]
    <3>1. sent \in [Frames -> Bytes \cup {NoBytes}]
      BY DEF InputInv, TypeOK
    <3> HIDE DEF bytes
    <3> QED BY <2>1, <2>4, <1>8, <3>1
  <2>8. p.full \in BOOLEAN /\ (~p.full => first = b.acked + 1)
                           /\ (~p.full /\ b.acked # 0 => b.hasBase)
    <3>1. (p.full <=> (b.gap \/ first # b.acked + 1 \/ ~(b.acked = 0 \/ b.hasBase))) /\ p.full \in BOOLEAN
      BY <2>5 DEF MustEncodeFirstInFull
    <3> QED BY <3>1
  <2>9. TypeOK'
    BY <1>0, <1>9, <1>10, <2>6, <2>7 DEF InputInv, TypeOK
  <2>10. PacketsOK'
    <3>1. PacketOK(p)'
      <4>1. b.acked <= srv.ack /\ (b.acked # 0 => got[b.acked] # NoBytes)
        BY <1>5 DEF InputInv, AckInv
      <4>2. p.first + Len(p.inputs) - 1 <= MaxFrame /\ Len(p.inputs) \in Nat \ {0}
        BY <2>4, <2>5, <1>6 DEF Frames
      <4> QED BY <1>0, <1>6, <2>4, <2>5, <2>8, <4>1, <4>2 DEF PacketOK
    <3>2. \A q \in keep : PacketOK(q)'
      BY <1>0, <2>2 DEF InputInv, PacketsOK, PacketOK
    <3> QED BY <2>0, <2>1, <3>1, <3>2 DEF PacketsOK
  <2>11. ServerInv'
    BY <1>0 DEF InputInv, ServerInv
  <2>12. AckInv'
    BY <1>0, <1>5, <2>6 DEF InputInv, AckInv
  <2>13. SentRecorded'
    <3> SUFFICES ASSUME NEW f \in Frames, sent'[f] # NoBytes PROVE f <= b.last
      BY <2>6 DEF SentRecorded
    <3>1. CASE f \in first .. b.last
      BY <3>1
    <3>2. CASE f \notin first .. b.last
      BY <3>2, <2>7, <1>1, <1>6 DEF InputInv, SentRecorded, Frames
    <3> QED BY <3>1, <3>2
  <2>14. ASSUME faults' = {}
         PROVE  /\ RingAsSent' /\ EncodesSent'
                /\ \A f \in Frames : got'[f] # NoBytes => got'[f] = sent'[f]
                /\ inp'.acked # 0 /\ inp'.hasBase => inp'.base = got'[inp'.acked]
    <3>1. \A f \in Frames : Holds(b.ring, f) /\ sent[f] # NoBytes => bytes(f) = sent[f]
      BY <2>14, <1>11
    <3>2. /\ EncodesSent
          /\ \A f \in Frames : got[f] # NoBytes => got[f] = sent[f]
          /\ inp.acked # 0 /\ inp.hasBase => inp.base = got[inp.acked]
      BY <2>14, <1>11 DEF InputInv, ExactInv
    <3>3. \A f \in Frames : sent[f] # NoBytes => sent'[f] = sent[f]
      <4> SUFFICES ASSUME NEW f \in Frames, sent[f] # NoBytes PROVE sent'[f] = sent[f]
        OBVIOUS
      <4>1. CASE f \in first .. b.last
        BY <4>1, <2>4, <2>7, <3>1
      <4>2. CASE f \notin first .. b.last
        BY <4>2, <2>7
      <4> QED BY <4>1, <4>2
    <3>4. RingAsSent'
      <4> SUFFICES ASSUME NEW f \in Frames, Holds(b.ring, f), sent'[f] # NoBytes
                   PROVE  bytes(f) = sent'[f]
        BY <2>6 DEF RingAsSent
      <4>1. CASE f \in first .. b.last
        BY <4>1, <2>7
      <4>2. CASE f \notin first .. b.last
        BY <4>2, <2>7, <3>1
      <4> QED BY <4>1, <4>2
    <3>5. \A f \in Frames : got'[f] # NoBytes => got'[f] = sent'[f]
      BY <1>0, <3>2, <3>3
    <3>6. inp'.acked # 0 /\ inp'.hasBase => inp'.base = got'[inp'.acked]
      BY <1>0, <1>5, <2>6, <3>2
    <3>7. ASSUME NEW q \in keep, NEW i \in 1 .. Len(q.inputs)
          PROVE  /\ sent'[q.first + i - 1] # NoBytes
                 /\ q.inputs[i] = Encode(Previous(q, i)', sent'[q.first + i - 1])
      <4>0. PacketOK(q)
        BY <2>2 DEF InputInv, PacketsOK
      <4> DEFINE f == q.first + i - 1
      <4>1. f \in Frames /\ (i > 1 => q.first + i - 2 \in Frames)
        <5>1. /\ q.first \in 1 .. MaxFrame /\ Len(q.inputs) \in Nat
              /\ q.first + Len(q.inputs) - 1 <= MaxFrame
          BY <4>0 DEF PacketOK, Frames
        <5>2. \A a \in 1 .. MaxFrame, m \in Nat : a + m - 1 <= MaxFrame =>
                \A j \in 1 .. m : a + j - 1 \in 1 .. MaxFrame /\ (j > 1 => a + j - 2 \in 1 .. MaxFrame)
          BY <1>1
        <5> QED BY <5>1, <5>2 DEF Frames
      <4>2. sent[f] # NoBytes /\ q.inputs[i] = Encode(Previous(q, i), sent[f])
        BY <2>2, <3>2 DEF EncodesSent
      <4>3. sent'[f] = sent[f]
        BY <4>1, <4>2, <3>3
      <4>4. Previous(q, i)' = Previous(q, i)
        <5>1. CASE i > 1
          <6>1. i - 1 \in 1 .. Len(q.inputs) /\ q.first + (i - 1) - 1 = q.first + i - 2
            BY <5>1, <4>0 DEF PacketOK, Frames
          <6>2. sent[q.first + i - 2] # NoBytes
            BY <6>1, <2>2, <3>2 DEF EncodesSent
          <6> QED BY <5>1, <6>2, <4>1, <3>3 DEF Previous
        <5>2. CASE ~(i > 1) /\ (q.full \/ q.baseline = 0)
          BY <5>2 DEF Previous
        <5>3. CASE ~(i > 1) /\ ~(q.full \/ q.baseline = 0)
          <6>1. q.baseline \in Frames /\ got[q.baseline] # NoBytes
            BY <5>3, <4>0, <1>1 DEF PacketOK, Frames
          <6>2. sent'[q.baseline] = sent[q.baseline]
            BY <6>1, <3>2, <3>3
          <6> QED BY <5>3, <6>2 DEF Previous
        <5> QED BY <5>1, <5>2, <5>3
      <4> QED BY <4>2, <4>3, <4>4
    <3>8. ASSUME NEW i \in 1 .. n
          PROVE  /\ sent'[first + i - 1] # NoBytes
                 /\ p.inputs[i] = Encode(Previous(p, i)', sent'[first + i - 1])
      <4>1. first + i - 1 \in first .. b.last /\ (i > 1 => first + i - 2 \in first .. b.last)
        BY <2>4, <1>6 DEF Frames
      <4>2. sent'[first + i - 1] = bytes(first + i - 1) /\ sent'[first + i - 1] # NoBytes
        <5>1. NoBytes \notin Bytes
          BY InputAssumption DEF NoBytes, Bytes
        <5> QED BY <5>1, <4>1, <2>7
      <4>3. CASE i > 1
        <5>1. Previous(p, i)' = bytes(first + i - 2)
          BY <4>1, <4>3, <2>5, <2>7 DEF Previous
        <5> QED BY <5>1, <4>2, <4>3, <2>5
      <4>4. CASE i = 1 /\ p.full
        <5>1. Previous(p, i)' = 0
          BY <4>4 DEF Previous
        <5>2. bytes(first + i - 1) = bytes(first)
          BY <4>4, <2>4 DEF Frames
        <5> QED BY <5>1, <5>2, <4>2, <4>4, <2>5
      <4>5. CASE i = 1 /\ ~p.full
        <5>1. Previous(p, i)' = b.base
          <6>1. CASE b.acked = 0
            <7>1. b.base = 0
              BY <6>1, <1>5 DEF InputInv, AckInv
            <7> QED BY <6>1, <7>1, <4>5, <2>5 DEF Previous
          <6>2. CASE b.acked # 0
            <7>1. b.base = got[b.acked] /\ got[b.acked] # NoBytes /\ b.acked \in Frames
              BY <6>2, <4>5, <2>8, <1>5, <1>6, <3>2 DEF InputInv, AckInv, Frames
            <7>2. sent'[b.acked] = b.base
              BY <7>1, <3>2, <3>3
            <7> QED BY <6>2, <7>2, <4>5, <2>5 DEF Previous
          <6> QED BY <6>1, <6>2
        <5>2. bytes(first + i - 1) = bytes(first)
          BY <4>5, <2>4 DEF Frames
        <5> QED BY <5>1, <5>2, <4>2, <4>5, <2>5
      <4> QED BY <4>3, <4>4, <4>5, <2>8
    <3>9. EncodesSent'
      <4> SUFFICES ASSUME NEW q \in packets', NEW i \in 1 .. Len(q.inputs)
                   PROVE  /\ sent'[q.first + i - 1] # NoBytes
                          /\ q.inputs[i] = Encode(Previous(q, i)', sent'[q.first + i - 1])
        BY DEF EncodesSent
      <4>1. CASE q \in keep
        BY <4>1, <3>7
      <4>2. CASE q = p
        BY <4>2, <3>8, <2>5
      <4> QED BY <4>1, <4>2, <2>0, <2>1
    <3> QED BY <3>4, <3>5, <3>6, <3>9
  <2>15. ExactInv'
    BY <2>14 DEF ExactInv
  <2> QED BY <2>9, <2>10, <2>11, <2>12, <2>13, <2>15 DEF InputInv
<1> QED BY <1>12, <1>13

--------------------------------------------------------------------------------
(* The server's steps. *)

\* The bytes the server decodes a packet against are the input it stored for
\* the packet's baseline, wherever it finds them.
LEMMA BaselineFacts ==
    ASSUME InputInv, NEW p \in packets, BaselineOf(p, srv.ack) # NoBytes
    PROVE  /\ BaselineOf(p, srv.ack) \in Bytes
           /\ BaselineOf(p, srv.ack) = IF p.full \/ p.baseline = 0 THEN 0 ELSE got[p.baseline]
<1>0. /\ MaxFrame \in Nat \ {0} /\ 0 \in Bytes /\ PacketOK(p)
      /\ srv.ring \in [Slots -> InputFrame] /\ srv.latest \in Bytes
  BY InputAssumption DEF InputInv, TypeOK, PacketsOK, ServerBuffer, Bytes
<1>1. CASE p.full \/ p.baseline = 0
  BY <1>0, <1>1 DEF BaselineOf
<1>2. CASE ~(p.full \/ p.baseline = 0) /\ Holds(srv.ring, p.baseline)
  <2>1. Slot(p.baseline) \in Slots
    BY <1>0, SlotType DEF PacketOK
  <2>2. srv.ring[Slot(p.baseline)] \in InputFrame /\ srv.ring[Slot(p.baseline)].frame = p.baseline
    BY <1>0, <1>2, <2>1 DEF Holds
  <2>3. got[p.baseline] = srv.ring[Slot(p.baseline)].bytes
    BY <1>2, <2>1, <2>2 DEF InputInv, ServerInv
  <2> QED BY <1>2, <2>2, <2>3 DEF BaselineOf, InputFrame
<1>3. CASE ~(p.full \/ p.baseline = 0) /\ ~Holds(srv.ring, p.baseline)
  <2>1. srv.hasLatest /\ p.baseline = srv.ack /\ BaselineOf(p, srv.ack) = srv.latest
    BY <1>3 DEF BaselineOf
  <2>2. got[srv.ack] = srv.latest
    BY <2>1, <1>3 DEF InputInv, ServerInv
  <2> QED BY <1>0, <1>3, <2>1, <2>2
<1> QED BY <1>1, <1>2, <1>3

\* Every input the server decodes from a packet is the input that was sent:
\* induction along the chain of deltas.
LEMMA DecodesSent ==
    ASSUME InputInv, faults = {}, NEW p \in packets, BaselineOf(p, srv.ack) # NoBytes,
           NEW i \in 1 .. Len(p.inputs)
    PROVE  Decoded(p, BaselineOf(p, srv.ack))[i] = sent[p.first + i - 1]
<1> DEFINE base == BaselineOf(p, srv.ack)
           value == Decoded(p, base)
           n == Len(p.inputs)
<1>0. /\ MaxFrame \in Nat \ {0} /\ PacketOK(p) /\ sent \in [Frames -> Bytes \cup {NoBytes}]
      /\ EncodesSent /\ \A f \in Frames : got[f] # NoBytes => got[f] = sent[f]
  BY InputAssumption DEF InputInv, TypeOK, PacketsOK, ExactInv
<1>1. /\ n \in Nat \ {0} /\ p.first \in Nat \ {0} /\ p.first + n - 1 <= MaxFrame
      /\ \A j \in 1 .. n : p.inputs[j] \in Bytes
  BY <1>0 DEF PacketOK, Frames
<1>2. base \in Bytes /\ base = IF p.full \/ p.baseline = 0 THEN 0 ELSE got[p.baseline]
  BY BaselineFacts
<1> HIDE DEF base, n
<1>3. /\ value[0] = base
      /\ \A j \in 1 .. n : value[j] = Decode(value[j - 1], p.inputs[j])
  BY <1>1, <1>2, DecodedFacts DEF n
<1> HIDE DEF value
<1>4. \A j \in 1 .. n : /\ p.first + j - 1 \in Frames
                        /\ sent[p.first + j - 1] \in Bytes
                        /\ p.inputs[j] = Encode(Previous(p, j), sent[p.first + j - 1])
  <2> SUFFICES ASSUME NEW j \in 1 .. n
               PROVE  /\ p.first + j - 1 \in Frames
                      /\ sent[p.first + j - 1] \in Bytes
                      /\ p.inputs[j] = Encode(Previous(p, j), sent[p.first + j - 1])
    OBVIOUS
  <2>1. p.first + j - 1 \in Frames
    BY <1>0, <1>1 DEF Frames
  <2>2. sent[p.first + j - 1] # NoBytes /\ p.inputs[j] = Encode(Previous(p, j), sent[p.first + j - 1])
    BY <1>0 DEF EncodesSent, n
  <2> QED BY <2>1, <2>2, <1>0
<1>5. value[1] = sent[p.first]
  <2>1. Previous(p, 1) = base
    <3>1. CASE p.full \/ p.baseline = 0
      BY <3>1, <1>2 DEF Previous
    <3>2. CASE ~(p.full \/ p.baseline = 0)
      <4>1. p.baseline \in Frames /\ got[p.baseline] # NoBytes
        BY <3>2, <1>0 DEF PacketOK, Frames
      <4> QED BY <3>2, <4>1, <1>0, <1>2 DEF Previous
    <3> QED BY <3>1, <3>2
  <2>2. 1 \in 1 .. n /\ p.first + 1 - 1 = p.first
    BY <1>1
  <2>3. sent[p.first] \in Bytes /\ p.inputs[1] = Encode(base, sent[p.first])
    BY <1>4, <2>1, <2>2
  <2>4. value[1] = Decode(base, p.inputs[1])
    BY <1>3, <2>2
  <2> QED BY <2>3, <2>4, <1>2, DecodeEncode
<1>6. ASSUME NEW j \in Nat, j + 2 <= n, value[j + 1] = sent[p.first + j]
      PROVE  value[j + 2] = sent[p.first + j + 1]
  <2>1. j + 1 \in 1 .. n /\ j + 2 \in 1 .. n
    BY <1>1, <1>6
  <2>2. p.first + (j + 1) - 1 = p.first + j /\ p.first + (j + 2) - 1 = p.first + j + 1
        /\ p.first + (j + 2) - 2 = p.first + j /\ (j + 2) - 1 = j + 1
    <3>1. \A a \in Nat : /\ a + (j + 1) - 1 = a + j /\ a + (j + 2) - 1 = a + j + 1
                         /\ a + (j + 2) - 2 = a + j /\ (j + 2) - 1 = j + 1
      OBVIOUS
    <3> QED BY <1>1, <3>1
  <2>3. Previous(p, j + 2) = sent[p.first + j]
    BY <2>2 DEF Previous
  <2>4. sent[p.first + j] \in Bytes /\ sent[p.first + j + 1] \in Bytes
    BY <1>4, <2>1, <2>2
  <2>5. p.inputs[j + 2] = Encode(sent[p.first + j], sent[p.first + j + 1])
    BY <1>4, <2>1, <2>2, <2>3
  <2>6. value[j + 2] = Decode(value[j + 1], p.inputs[j + 2])
    BY <1>3, <2>1, <2>2
  <2> QED BY <1>6, <2>4, <2>5, <2>6, DecodeEncode
<1> DEFINE K == {j \in Nat : j + 1 <= n => value[j + 1] = sent[p.first + j]}
<1>7. K = Nat
  <2>1. 0 \in K
    BY <1>1, <1>5
  <2>2. ASSUME NEW j \in K PROVE j + 1 \in K
    <3> SUFFICES ASSUME (j + 1) + 1 <= n
                 PROVE  value[(j + 1) + 1] = sent[p.first + (j + 1)]
      OBVIOUS
    <3>1. \A a \in Nat : (j + 1) + 1 = j + 2 /\ a + (j + 1) = a + j + 1
      OBVIOUS
    <3>2. (j + 1) + 1 = j + 2 /\ p.first + (j + 1) = p.first + j + 1
      BY <1>1, <3>1
    <3>3. j \in Nat /\ j + 1 <= n
      BY <1>1
    <3> QED BY <3>2, <3>3, <1>6
  <2>3. K \in SUBSET Nat
    OBVIOUS
  <2> HIDE DEF K
  <2> QED BY <2>1, <2>2, <2>3, Induct
<1>8. i - 1 \in K /\ (i - 1) + 1 = i /\ p.first + (i - 1) = p.first + i - 1 /\ i <= n
  <2>1. i \in 1 .. n
    BY DEF n
  <2>2. i - 1 \in Nat /\ (i - 1) + 1 = i /\ i <= n
    BY <1>1, <2>1
  <2>3. \A a \in Nat : a + (i - 1) = a + i - 1
    BY <2>1, <1>1
  <2> QED BY <1>1, <1>7, <2>2, <2>3
<1> QED BY <1>8 DEF value, base

\* A packet adds inputs later than the ACK; what was stored before stays known.
LEMMA ProcessInputPacketInv ==
    ASSUME InputInv, NEW p \in packets, ProcessInputPacket(p)
    PROVE  InputInv'
<1> DEFINE base == BaselineOf(p, srv.ack)
           value == Decoded(p, base)
           n == Len(p.inputs)
           fresh == IF base = NoBytes THEN {} ELSE FreshFrames(p, srv.ack)
           newest(s) == Max({f \in fresh : Slot(f) = s})
           bytes(f) == value[f - p.first + 1]
<1>0. /\ MaxFrame \in Nat \ {0} /\ PacketOK(p) /\ srv \in ServerBuffer
      /\ srv.ack \in 0 .. MaxFrame /\ srv.ring \in [Slots -> InputFrame]
      /\ srv.latest \in Bytes /\ srv.hasLatest \in BOOLEAN
      /\ got \in [Frames -> Bytes \cup {NoBytes}] /\ NoBytes \notin Bytes
  BY InputAssumption DEF InputInv, TypeOK, PacketsOK, ServerBuffer, NoBytes, Bytes
<1>1. /\ n \in Nat \ {0} /\ p.first \in Nat \ {0} /\ p.first + n - 1 <= MaxFrame
      /\ \A i \in 1 .. n : p.inputs[i] \in Bytes
      /\ p.baseline \in 0 .. MaxFrame /\ p.baseline <= srv.ack
  BY <1>0 DEF PacketOK, Frames
<1>2. Larger(srv.ack, p.baseline) = srv.ack
  BY <1>0, <1>1 DEF Larger
<1>3. FirstInput(p) = p.first
  BY <1>0 DEF FirstInput, PacketOK
<1>4. UNCHANGED <<inp, clk, frame, packets, updates, sent, faults>>
  BY DEF ProcessInputPacket
<1>5. /\ srv' = [srv EXCEPT
                   !.ring = [s \in Slots |-> IF \E f \in fresh : Slot(f) = s
                                             THEN [frame |-> newest(s), bytes |-> bytes(newest(s))]
                                             ELSE srv.ring[s]],
                   !.latest = IF fresh = {} THEN srv.latest ELSE bytes(Max(fresh)),
                   !.hasLatest = srv.hasLatest \/ fresh # {},
                   !.ack = IF fresh = {} THEN srv.ack ELSE Max(fresh)]
      /\ got' = [f \in Frames |-> IF f \in fresh THEN bytes(f) ELSE got[f]]
  BY <1>2, <1>3 DEF ProcessInputPacket
<1>6. /\ \A f \in fresh : f \in Frames /\ f > srv.ack /\ f - p.first + 1 \in 1 .. n
      /\ fresh # {} => base \in Bytes
  <2>1. FramesOf(p) = p.first .. (p.first + n - 1)
    BY <1>3 DEF FramesOf
  <2>2. \A f \in fresh : f \in p.first .. (p.first + n - 1) /\ f > srv.ack
    BY <2>1 DEF FreshFrames
  <2>3. fresh # {} => base \in Bytes
    <3>1. CASE base = NoBytes
      BY <3>1
    <3>2. CASE base # NoBytes
      BY <3>2, BaselineFacts
    <3> QED BY <3>1, <3>2
  <2> HIDE DEF fresh, base
  <2> QED BY <1>0, <1>1, <2>2, <2>3 DEF Frames
<1>7. \A f \in fresh : bytes(f) \in Bytes
  <2> SUFFICES ASSUME NEW f \in fresh PROVE bytes(f) \in Bytes
    OBVIOUS
  <2> HIDE DEF fresh, base
  <2>1. f - p.first + 1 \in 0 .. n /\ base \in Bytes
    BY <1>1, <1>6
  <2>2. value \in [0 .. n -> Bytes]
    BY <1>1, <2>1, DecodedFacts
  <2> HIDE DEF value
  <2> QED BY <2>1, <2>2
<1>8. ASSUME faults = {}, NEW f \in fresh PROVE bytes(f) = sent[f]
  <2>1. base # NoBytes
    BY <1>8
  <2>2. f - p.first + 1 \in 1 .. n
    BY <1>6
  <2>3. value[f - p.first + 1] = sent[p.first + (f - p.first + 1) - 1]
    BY <1>8, <2>1, <2>2, DecodesSent
  <2>4. p.first + (f - p.first + 1) - 1 = f
    <3>1. f \in Nat
      BY <1>6, <1>0 DEF Frames
    <3>2. \A a \in Nat : a + (f - a + 1) - 1 = f
      BY <3>1
    <3> QED BY <1>1, <3>2
  <2> QED BY <2>3, <2>4
<1>9. ASSUME NEW s \in Slots, \E f \in fresh : Slot(f) = s
      PROVE  /\ newest(s) \in fresh /\ Slot(newest(s)) = s
             /\ \A f \in fresh : Slot(f) = s => f <= newest(s)
  <2> DEFINE S == {f \in fresh : Slot(f) = s}
  <2> HIDE DEF fresh
  <2>1. S \in SUBSET (0 .. MaxFrame) /\ S # {}
    BY <1>0, <1>6, <1>9 DEF Frames
  <2>2. Max(S) \in S /\ \A f \in S : f <= Max(S)
    BY <1>0, <2>1, MaxFacts
  <2> QED BY <2>2
<1>10. fresh # {} => Max(fresh) \in fresh /\ \A f \in fresh : f <= Max(fresh)
  <2> HIDE DEF fresh
  <2>1. fresh \in SUBSET (0 .. MaxFrame)
    BY <1>0, <1>6 DEF Frames
  <2> QED BY <1>0, <2>1, MaxFacts
<1> DEFINE ring == [s \in Slots |-> IF \E f \in fresh : Slot(f) = s
                                    THEN [frame |-> newest(s), bytes |-> bytes(newest(s))]
                                    ELSE srv.ring[s]]
           latest == IF fresh = {} THEN srv.latest ELSE bytes(Max(fresh))
           has == srv.hasLatest \/ fresh # {}
           ack == IF fresh = {} THEN srv.ack ELSE Max(fresh)
<1> HIDE DEF fresh, newest, bytes
<1>11. /\ latest \in Bytes /\ has \in BOOLEAN /\ ack \in 0 .. MaxFrame /\ ack >= srv.ack
       /\ \A f \in fresh : f <= ack
  BY <1>0, <1>6, <1>7, <1>10 DEF Frames
<1>12. ASSUME NEW s \in Slots, \E f \in fresh : Slot(f) = s
       PROVE  ring[s].frame = newest(s) /\ ring[s].bytes = bytes(newest(s)) /\ ring[s] \in InputFrame
  <2>1. ring[s] = [frame |-> newest(s), bytes |-> bytes(newest(s))]
    BY <1>12
  <2>2. newest(s) \in 0 .. MaxFrame /\ bytes(newest(s)) \in Bytes
    BY <1>0, <1>6, <1>7, <1>9, <1>12 DEF Frames
  <2> HIDE DEF ring
  <2> QED BY <2>1, <2>2 DEF InputFrame
<1>13. ASSUME NEW s \in Slots, ~\E f \in fresh : Slot(f) = s PROVE ring[s] = srv.ring[s]
  BY <1>13
<1>14. ring \in [Slots -> InputFrame]
  <2>1. ring = [s \in Slots |-> ring[s]]
    OBVIOUS
  <2>2. \A s \in Slots : ring[s] \in InputFrame
    <3> HIDE DEF ring
    <3> QED BY <1>0, <1>12, <1>13
  <2> HIDE DEF ring
  <2> QED BY <2>1, <2>2
<1>15. srv' = [srv EXCEPT !.ring = ring, !.latest = latest, !.hasLatest = has, !.ack = ack]
  BY <1>5
<1>16. /\ \A f \in Frames : got'[f] = IF f \in fresh THEN bytes(f) ELSE got[f]
       /\ got' \in [Frames -> Bytes \cup {NoBytes}]
  BY <1>0, <1>5, <1>7
<1>17. \A f \in Frames : got[f] # NoBytes => got'[f] = got[f]
  <2> SUFFICES ASSUME NEW f \in Frames, got[f] # NoBytes PROVE f \notin fresh
    BY <1>16
  <2>1. f <= srv.ack
    BY DEF InputInv, ServerInv
  <2> QED BY <2>1, <1>0, <1>6 DEF Frames
<1>18. (ack = srv.ack /\ latest = srv.latest /\ has = srv.hasLatest /\ fresh = {})
       \/ (ack \in fresh /\ latest = bytes(ack) /\ fresh # {})
  <2>1. CASE fresh = {}
    <3>1. has = srv.hasLatest
      BY <2>1, <1>0
    <3> QED BY <2>1, <3>1
  <2>2. CASE fresh # {}
    BY <2>2, <1>10
  <2> QED BY <2>1, <2>2
<1> HIDE DEF ring, latest, has, ack
<1>19. /\ srv' \in ServerBuffer /\ srv'.ring = ring /\ srv'.latest = latest /\ srv'.hasLatest = has
       /\ srv'.ack = ack /\ srv'.appliedFrame = srv.appliedFrame /\ srv'.applied = srv.applied
  BY <1>0, <1>11, <1>14, <1>15 DEF ServerBuffer
<1>20. TypeOK'
  BY <1>4, <1>16, <1>19 DEF InputInv, TypeOK
<1>21. PacketsOK'
  <2> SUFFICES ASSUME NEW q \in packets PROVE PacketOK(q)'
    BY <1>4 DEF PacketsOK
  <2>1. PacketOK(q) /\ q.baseline \in 0 .. MaxFrame
    BY DEF InputInv, PacketsOK, PacketOK
  <2>2. q.baseline <= ack
    BY <2>1, <1>0, <1>11 DEF PacketOK
  <2>3. q.baseline # 0 => got'[q.baseline] # NoBytes
    BY <2>1, <1>0, <1>17 DEF PacketOK, Frames
  <2> QED BY <2>1, <2>2, <2>3, <1>19 DEF PacketOK
<1>22. ServerInv'
  <2>1. \A f \in Frames : got'[f] # NoBytes => f <= ack /\ ring[Slot(f)].frame >= f
    <3> SUFFICES ASSUME NEW f \in Frames, got'[f] # NoBytes
                 PROVE  f <= ack /\ ring[Slot(f)].frame >= f
      OBVIOUS
    <3>0. Slot(f) \in Slots /\ f \in Nat
      BY <1>0, SlotType DEF Frames
    <3>1. CASE f \in fresh
      <4>1. ring[Slot(f)].frame = newest(Slot(f)) /\ f <= newest(Slot(f)) /\ newest(Slot(f)) \in fresh
        BY <3>0, <3>1, <1>9, <1>12
      <4>2. newest(Slot(f)) \in Nat
        BY <4>1, <1>0, <1>6 DEF Frames
      <4> QED BY <3>0, <3>1, <4>1, <4>2, <1>11
    <3>2. CASE f \notin fresh
      <4>1. got[f] # NoBytes
        BY <3>2, <1>16
      <4>2. f <= srv.ack /\ srv.ring[Slot(f)].frame >= f
        BY <4>1 DEF InputInv, ServerInv
      <4>3. CASE \E g \in fresh : Slot(g) = Slot(f)
        <5>1. ring[Slot(f)].frame = newest(Slot(f)) /\ newest(Slot(f)) \in fresh
          BY <4>3, <3>0, <1>9, <1>12
        <5>2. newest(Slot(f)) \in Nat /\ newest(Slot(f)) > srv.ack
          BY <5>1, <1>0, <1>6 DEF Frames
        <5> QED BY <5>1, <5>2, <4>2, <3>0, <1>0, <1>11
      <4>4. CASE ~\E g \in fresh : Slot(g) = Slot(f)
        <5>1. ring[Slot(f)] = srv.ring[Slot(f)]
          BY <4>4, <3>0, <1>13
        <5> QED BY <5>1, <4>2, <3>0, <1>0, <1>11
      <4> QED BY <4>3, <4>4
    <3> QED BY <3>1, <3>2
  <2>2. \A s \in Slots : ring[s].frame # 0 =>
           Slot(ring[s].frame) = s /\ got'[ring[s].frame] = ring[s].bytes
    <3> SUFFICES ASSUME NEW s \in Slots, ring[s].frame # 0
                 PROVE  Slot(ring[s].frame) = s /\ got'[ring[s].frame] = ring[s].bytes
      OBVIOUS
    <3>1. CASE \E g \in fresh : Slot(g) = s
      BY <3>1, <1>6, <1>9, <1>12, <1>16
    <3>2. CASE ~\E g \in fresh : Slot(g) = s
      <4>1. ring[s] = srv.ring[s] /\ srv.ring[s] \in InputFrame
        BY <3>2, <1>0, <1>13
      <4>2. Slot(srv.ring[s].frame) = s /\ got[srv.ring[s].frame] = srv.ring[s].bytes
        BY <4>1 DEF InputInv, ServerInv
      <4>3. srv.ring[s].frame \in Frames /\ srv.ring[s].bytes \in Bytes
        BY <4>1, <1>0 DEF InputFrame, Frames
      <4> QED BY <4>1, <4>2, <4>3, <1>0, <1>17
    <3> QED BY <3>1, <3>2
  <2>3. ack # 0 => got'[ack] = latest
    <3>1. CASE ack \in fresh /\ latest = bytes(ack)
      BY <3>1, <1>6, <1>16
    <3>2. CASE ack = srv.ack /\ latest = srv.latest
      <4> SUFFICES ASSUME ack # 0 PROVE got'[ack] = latest
        OBVIOUS
      <4>1. got[ack] = latest /\ ack \in Frames /\ latest # NoBytes
        BY <3>2, <1>0, <1>11 DEF InputInv, ServerInv, Frames
      <4> QED BY <4>1, <1>17
    <3> QED BY <3>1, <3>2, <1>18
  <2>4. has => ack # 0
    <3>1. CASE ack \in fresh
      BY <3>1, <1>0, <1>6 DEF Frames
    <3>2. CASE ack = srv.ack /\ has = srv.hasLatest
      BY <3>2 DEF InputInv, ServerInv
    <3> QED BY <3>1, <3>2, <1>18
  <2>5. srv.appliedFrame <= frame /\
        (srv.appliedFrame # 0 => got'[srv.appliedFrame] = srv.applied /\ srv.applied # NoBytes)
    <3>1. srv.appliedFrame \in 0 .. MaxFrame
      BY <1>0 DEF ServerBuffer
    <3> QED BY <3>1, <1>0, <1>17 DEF InputInv, ServerInv, Frames
  <2> QED BY <2>1, <2>2, <2>3, <2>4, <2>5, <1>4, <1>19 DEF ServerInv
<1>23. AckInv'
  <2>1. inp.acked \in 0 .. MaxFrame
    BY DEF InputInv, TypeOK, Buffer
  <2>2. inp.acked <= ack /\ (inp.acked # 0 => got'[inp.acked] # NoBytes)
    BY <2>1, <1>0, <1>11, <1>17 DEF InputInv, AckInv, Frames
  <2>3. \A u \in updates : u.ack <= ack /\ (u.ack # 0 => got'[u.ack] # NoBytes)
    <3> SUFFICES ASSUME NEW u \in updates
                 PROVE  u.ack <= ack /\ (u.ack # 0 => got'[u.ack] # NoBytes)
      OBVIOUS
    <3>1. u.ack \in 0 .. MaxFrame /\ u.ack <= srv.ack /\ (u.ack # 0 => got[u.ack] # NoBytes)
      BY DEF InputInv, TypeOK, AckInv
    <3> QED BY <3>1, <1>0, <1>11, <1>17 DEF Frames
  <2> QED BY <2>2, <2>3, <1>4, <1>19 DEF InputInv, AckInv
<1>24. SentRecorded'
  BY <1>4 DEF InputInv, SentRecorded
<1>25. ExactInv'
  <2> SUFFICES ASSUME faults = {}
               PROVE  /\ RingAsSent' /\ EncodesSent'
                      /\ \A f \in Frames : got'[f] # NoBytes => got'[f] = sent[f]
                      /\ inp.acked # 0 /\ inp.hasBase => inp.base = got'[inp.acked]
    BY <1>4 DEF ExactInv
  <2>1. /\ RingAsSent /\ EncodesSent
        /\ \A f \in Frames : got[f] # NoBytes => got[f] = sent[f]
        /\ inp.acked # 0 /\ inp.hasBase => inp.base = got[inp.acked]
    BY DEF InputInv, ExactInv
  <2>2. RingAsSent' /\ EncodesSent'
    BY <1>4, <2>1 DEF RingAsSent, EncodesSent, Previous
  <2>3. \A f \in Frames : got'[f] # NoBytes => got'[f] = sent[f]
    BY <1>8, <1>16, <2>1
  <2>4. inp.acked # 0 => got'[inp.acked] = got[inp.acked]
    <3>1. inp.acked \in 0 .. MaxFrame
      BY DEF InputInv, TypeOK, Buffer
    <3> QED BY <3>1, <1>0, <1>17 DEF InputInv, AckInv, Frames
  <2> QED BY <2>1, <2>2, <2>3, <2>4
<1> QED BY <1>20, <1>21, <1>22, <1>23, <1>24, <1>25 DEF InputInv

\* The frames a tick may apply hold inputs of those frames.
LEMMA DueFacts ==
    ASSUME InputInv, frame + 1 <= MaxFrame, DueFrames(frame + 1) # {}
    PROVE  LET best == Max(DueFrames(frame + 1)) IN
           /\ best \in 1 .. (frame + 1)
           /\ \A f \in DueFrames(frame + 1) : f <= best
           /\ srv.ring[Slot(best)].bytes \in Bytes
           /\ got[best] = srv.ring[Slot(best)].bytes
<1> DEFINE due == frame + 1
           S == DueFrames(due)
           best == Max(S)
           low == Larger(srv.appliedFrame + 1, Larger(1, due - Capacity + 1))
<1>0. /\ MaxFrame \in Nat \ {0} /\ Capacity \in Nat /\ frame \in 0 .. MaxFrame
      /\ srv.appliedFrame \in 0 .. MaxFrame /\ srv.ring \in [Slots -> InputFrame]
  BY InputAssumption DEF InputInv, TypeOK, ServerBuffer
<1>1. low \in Nat \ {0} /\ due \in 1 .. MaxFrame
  BY <1>0 DEF Larger
<1>2. S = {f \in low .. due : Holds(srv.ring, f)}
  BY DEF DueFrames
<1> HIDE DEF low, S
<1>3. S \in SUBSET (0 .. MaxFrame)
  BY <1>0, <1>1, <1>2
<1>4. best \in S /\ \A f \in S : f <= best
  BY <1>0, <1>3, MaxFacts DEF S
<1> HIDE DEF best
<1>5. best \in 1 .. due /\ Holds(srv.ring, best) /\ Slot(best) \in Slots
  <2>1. best \in 1 .. due /\ Holds(srv.ring, best)
    BY <1>1, <1>2, <1>4
  <2> QED BY <2>1, <1>1, SlotType
<1>6. srv.ring[Slot(best)] \in InputFrame /\ srv.ring[Slot(best)].frame = best
  BY <1>0, <1>5 DEF Holds
<1>7. got[best] = srv.ring[Slot(best)].bytes
  BY <1>5, <1>6 DEF InputInv, ServerInv
<1> QED BY <1>4, <1>5, <1>6, <1>7 DEF best, S, InputFrame

\* The tick applies an input the server stored, and sends its own ACK.
LEMMA ServerTickInv ==
    ASSUME InputInv, ServerTick
    PROVE  InputInv'
<1> DEFINE due == frame + 1
           best == Max(DueFrames(due))
<1>0. /\ MaxFrame \in Nat \ {0} /\ frame \in 0 .. MaxFrame /\ srv \in ServerBuffer /\ NoBytes \notin Bytes
      /\ due <= MaxFrame /\ due \in 1 .. MaxFrame /\ frame' = due
      /\ UNCHANGED <<inp, clk, packets, sent, got, faults>>
      /\ srv.ack \in 0 .. MaxFrame
  BY InputAssumption DEF InputInv, TypeOK, ServerBuffer, ServerTick, NoBytes, Bytes
<1>1. srv' = IF DueFrames(due) = {} THEN srv
             ELSE [srv EXCEPT !.appliedFrame = best, !.applied = srv.ring[Slot(best)].bytes]
  BY DEF ServerTick
<1>2. PICK keep \in Remembered(updates, MaxUpdates) :
        updates' = keep \cup {[frame |-> due, ack |-> srv.ack]}
  BY DEF ServerTick
<1>3. keep \subseteq updates
  BY <1>2 DEF Remembered
<1>4. /\ srv' \in ServerBuffer /\ srv'.ring = srv.ring /\ srv'.latest = srv.latest
      /\ srv'.hasLatest = srv.hasLatest /\ srv'.ack = srv.ack
      /\ srv'.appliedFrame <= due
      /\ srv'.appliedFrame # 0 => got[srv'.appliedFrame] = srv'.applied /\ srv'.applied # NoBytes
  <2>1. CASE DueFrames(due) = {}
    <3>1. srv' = srv
      BY <1>1, <2>1
    <3>2. srv.appliedFrame <= due
      BY <1>0 DEF InputInv, ServerInv, ServerBuffer
    <3> QED BY <1>0, <3>1, <3>2 DEF InputInv, ServerInv
  <2>2. CASE DueFrames(due) # {}
    <3> DEFINE v == srv.ring[Slot(best)].bytes
    <3>1. best \in 1 .. due /\ v \in Bytes /\ got[best] = v
      BY <1>0, <2>2, DueFacts
    <3>2. srv' = [srv EXCEPT !.appliedFrame = best, !.applied = v]
      BY <1>1, <2>2
    <3> HIDE DEF v, best
    <3>3. best \in 0 .. MaxFrame /\ best <= due
      BY <1>0, <3>1
    <3>4. /\ srv' \in ServerBuffer /\ srv'.ring = srv.ring /\ srv'.latest = srv.latest
          /\ srv'.hasLatest = srv.hasLatest /\ srv'.ack = srv.ack
          /\ srv'.appliedFrame = best /\ srv'.applied = v
      BY <1>0, <3>1, <3>2, <3>3 DEF ServerBuffer
    <3> QED BY <1>0, <3>1, <3>3, <3>4
  <2> QED BY <2>1, <2>2
<1>5. TypeOK'
  <2>1. \A u \in updates' : u \in [frame : 0 .. MaxFrame, ack : 0 .. MaxFrame]
    BY <1>0, <1>2, <1>3 DEF InputInv, TypeOK
  <2> QED BY <1>0, <1>4, <2>1 DEF InputInv, TypeOK
<1>6. PacketsOK'
  BY <1>0, <1>4 DEF InputInv, PacketsOK, PacketOK
<1>7. ServerInv'
  BY <1>0, <1>4 DEF InputInv, ServerInv
<1>8. AckInv'
  <2>1. \A u \in updates' : u.ack <= srv.ack /\ (u.ack # 0 => got[u.ack] # NoBytes)
    <3> SUFFICES ASSUME NEW u \in updates'
                 PROVE  u.ack <= srv.ack /\ (u.ack # 0 => got[u.ack] # NoBytes)
      OBVIOUS
    <3>1. CASE u \in keep
      BY <3>1, <1>3 DEF InputInv, AckInv
    <3>2. CASE u = [frame |-> due, ack |-> srv.ack]
      <4>1. srv.ack # 0 => got[srv.ack] # NoBytes
        BY <1>0 DEF InputInv, ServerInv, ServerBuffer
      <4> QED BY <3>2, <4>1, <1>0
    <3> QED BY <3>1, <3>2, <1>2
  <2> QED BY <1>0, <1>4, <2>1 DEF InputInv, AckInv
<1>9. SentRecorded' /\ ExactInv'
  BY <1>0 DEF InputInv, SentRecorded, ExactInv, RingAsSent, EncodesSent, Previous
<1> QED BY <1>5, <1>6, <1>7, <1>8, <1>9 DEF InputInv

--------------------------------------------------------------------------------
(* The theorems. *)

\* The invariant holds initially.
LEMMA InputInit == Init => InputInv
<1> SUFFICES ASSUME Init PROVE InputInv
  OBVIOUS
<1>0. /\ MaxFrame \in Nat \ {0} /\ 0 \in Bytes /\ NoBytes \notin Bytes
      /\ [frame |-> 0, bytes |-> 0] \in InputFrame
  BY InputAssumption DEF Bytes, NoBytes, InputFrame
<1>1. Empty \in [Slots -> InputFrame] /\ \A s \in Slots : Empty[s].frame = 0
  BY <1>0 DEF Empty
<1>2. inp \in Buffer /\ inp.acked = 0 /\ inp.base = 0 /\ inp.ring = Empty
  BY <1>0, <1>1 DEF Init, Buffer
<1>3. srv \in ServerBuffer /\ srv.ring = Empty /\ srv.ack = 0 /\ srv.hasLatest = FALSE
      /\ srv.appliedFrame = 0
  BY <1>0, <1>1 DEF Init, ServerBuffer
<1>4. /\ packets = {} /\ updates = {} /\ faults = {} /\ frame = 0
      /\ sent = [f \in Frames |-> NoBytes] /\ got = [f \in Frames |-> NoBytes]
      /\ clk = [booted |-> FALSE, predicted |-> 0, catchup |-> 0]
  BY DEF Init
<1>5. TypeOK
  BY <1>0, <1>2, <1>3, <1>4 DEF TypeOK
<1>6. PacketsOK /\ AckInv /\ SentRecorded
  BY <1>2, <1>3, <1>4 DEF PacketsOK, AckInv, SentRecorded
<1>7. ServerInv
  BY <1>1, <1>3, <1>4 DEF ServerInv
<1>8. ExactInv
  BY <1>2, <1>4 DEF ExactInv, RingAsSent, EncodesSent
<1> QED BY <1>5, <1>6, <1>7, <1>8 DEF InputInv

\* Every step keeps the invariant.
LEMMA InputNext == InputInv /\ [Next]_vars => InputInv'
<1> SUFFICES ASSUME InputInv, [Next]_vars PROVE InputInv'
  OBVIOUS
<1>1. CASE \E v \in Bytes : v # inp.latest /\ SetInput(v)
  BY <1>1, SetInputInv
<1>2. CASE \E u \in updates, target \in Targets \cup {0} : ReceiveUpdate(u, target)
  BY <1>2, ReceiveUpdateInv
<1>3. CASE \E f \in Frames : TimeSync(f)
  BY <1>3, TimeSyncInv
<1>4. CASE \E steps \in 0 .. 1 : ClientTick(steps)
  BY <1>4, ClientTickInv
<1>5. CASE \E p \in packets : ProcessInputPacket(p)
  BY <1>5, ProcessInputPacketInv
<1>6. CASE ServerTick
  BY <1>6, ServerTickInv
<1>7. CASE UNCHANGED vars
  BY <1>7 DEF vars, InputInv, TypeOK, PacketsOK, PacketOK, ServerInv, AckInv, SentRecorded, ExactInv,
              RingAsSent, EncodesSent, Previous
<1> QED BY <1>1, <1>2, <1>3, <1>4, <1>5, <1>6, <1>7 DEF Next

\* The input stream keeps its invariant.
THEOREM InputInvAlways == Spec => []InputInv
BY InputInit, InputNext, PTL DEF Spec

\* The buffers, the clock and the histories have the shape the code gives them.
THEOREM TypeCorrect == Spec => []TypeOK
<1>1. InputInv => TypeOK
  BY DEF InputInv
<1> QED BY <1>1, InputInvAlways, PTL

\* What the server stores for a frame is what the client sent for it, whatever
\* the network does to packets and updates and however long the rings are.
THEOREM InputsDecodeExactlyAlways == Spec => []InputsDecodeExactly
<1>1. InputInv => InputsDecodeExactly
  BY DEF InputInv, ExactInv, InputsDecodeExactly
<1> QED BY <1>1, InputInvAlways, PTL

\* The client encodes against the bytes the server stored.
THEOREM BaselinesAgreeAlways == Spec => []BaselinesAgree
<1>1. InputInv => BaselinesAgree
  BY DEF InputInv, ExactInv, BaselinesAgree, MustEncodeFirstInFull
<1> QED BY <1>1, InputInvAlways, PTL

\* The server's ACK never passes an input it did not store.
THEOREM AckIsTheServersOwnAlways == Spec => []AckIsTheServersOwn
<1>1. InputInv => AckIsTheServersOwn
  <2> SUFFICES ASSUME InputInv PROVE AckIsTheServersOwn
    OBVIOUS
  <2>1. srv.ack # 0 => got[srv.ack] = srv.latest
    BY DEF InputInv, ServerInv
  <2>2. srv.latest \in Bytes /\ NoBytes \notin Bytes
    BY InputAssumption DEF InputInv, TypeOK, ServerBuffer, NoBytes, Bytes
  <2> QED BY <2>1, <2>2 DEF InputInv, AckInv, PacketsOK, PacketOK, AckIsTheServersOwn
<1> QED BY <1>1, InputInvAlways, PTL

\* A frame applies an input the server stored for the frame it credits, and its
\* own input when that arrived in time and the ring did not pass it.
THEOREM DueInputAppliedAlways == Spec => DueInputApplied
<1> DEFINE Step == frame' # frame =>
             /\ srv'.appliedFrame # 0 => srv'.applied = got[srv'.appliedFrame]
             /\ got[frame'] # NoBytes /\ srv.ack < frame' + Capacity => srv'.appliedFrame = frame'
<1>1. InputInv /\ [Next]_vars => [Step]_vars
  <2> SUFFICES ASSUME InputInv, [Next]_vars, frame' # frame
               PROVE  /\ srv'.appliedFrame # 0 => srv'.applied = got[srv'.appliedFrame]
                      /\ got[frame'] # NoBytes /\ srv.ack < frame' + Capacity
                           => srv'.appliedFrame = frame'
    BY SMTT(30)
  <2>1. ServerTick
    BY DEF Next, vars, SetInput, ReceiveUpdate, TimeSync, ClientTick, ProcessInputPacket
  <2>2. got' = got /\ frame' = frame + 1 /\ frame + 1 <= MaxFrame
    BY <2>1 DEF ServerTick
  <2>3. srv'.appliedFrame # 0 => srv'.applied = got[srv'.appliedFrame]
    BY <2>1, <2>2, ServerTickInv DEF InputInv, ServerInv
  <2>4. ASSUME got[frame + 1] # NoBytes, srv.ack < frame + 1 + Capacity
        PROVE  srv'.appliedFrame = frame + 1
    <3> DEFINE due == frame + 1
               held == srv.ring[Slot(due)].frame
               low == Larger(srv.appliedFrame + 1, Larger(1, due - Capacity + 1))
    <3>0. /\ MaxFrame \in Nat \ {0} /\ Capacity \in Nat \ {0} /\ frame \in 0 .. MaxFrame
          /\ srv \in ServerBuffer
          /\ srv.ring \in [Slots -> InputFrame] /\ srv.ack \in 0 .. MaxFrame
          /\ srv.appliedFrame \in 0 .. MaxFrame /\ srv.appliedFrame <= frame /\ NoBytes \notin Bytes
      BY InputAssumption DEF InputInv, TypeOK, ServerBuffer, ServerInv, NoBytes, Bytes
    <3>1. due \in Frames /\ due \in Nat \ {0} /\ due \in low .. due
      BY <3>0, <2>2 DEF Frames, Larger
    <3>2. Slot(due) \in Slots
      BY <3>1, SlotType
    <3>3. held >= due /\ held \in 0 .. MaxFrame /\ srv.ring[Slot(due)] \in InputFrame
      BY <3>0, <3>1, <3>2, <2>4 DEF InputInv, ServerInv, InputFrame
    <3> HIDE DEF due, low
    <3>4. Slot(held) = Slot(due) /\ got[held] = srv.ring[Slot(due)].bytes
      BY <3>1, <3>2, <3>3 DEF InputInv, ServerInv
    <3>5. got[held] # NoBytes /\ held \in Frames
      BY <3>0, <3>1, <3>3, <3>4 DEF InputFrame, Frames
    <3>6. held <= srv.ack
      BY <3>5 DEF InputInv, ServerInv
    <3>7. held = due
      <4> SUFFICES ASSUME due < held PROVE FALSE
        BY <3>1, <3>3
      <4>1. due + Capacity <= held
        BY <3>1, <3>3, <3>4, SlotGap
      <4> QED BY <4>1, <3>0, <3>1, <3>3, <3>6, <2>4 DEF due
    <3>8. due \in DueFrames(due)
      BY <3>1, <3>7 DEF DueFrames, Holds, low
    <3>9. Max(DueFrames(due)) = due
      <4> DEFINE best == Max(DueFrames(due))
      <4>1. best \in 1 .. due /\ due <= best
        BY <2>2, <3>8, DueFacts DEF due
      <4> HIDE DEF best
      <4>2. best = due
        BY <3>1, <4>1
      <4> QED BY <4>2 DEF best
    <3>10. srv' = [srv EXCEPT !.appliedFrame = due, !.applied = srv.ring[Slot(due)].bytes]
      BY <2>1, <3>8, <3>9 DEF ServerTick, due
    <3>11. srv'.appliedFrame = due
      BY <3>0, <3>10 DEF ServerBuffer
    <3> QED BY <3>11 DEF due
  <2> QED BY <2>2, <2>3, <2>4
<1>2. DueInputApplied <=> [][Step]_vars
  BY PTL DEF DueInputApplied
<1> HIDE DEF Step
<1> QED BY <1>1, <1>2, InputInvAlways, PTL DEF Spec

--------------------------------------------------------------------------------
(* A client that never moves its clock back, and whose ticks are not cut short  *)
(* while it predicts, samples every frame once.                                 *)

\* What was sent is not later than the predicted frame, and what is recorded is
\* not later than the frame the next tick predicts.
SampleInv ==
  /\ ~clk.booted => clk.predicted = 0
  /\ inp.last <= clk.predicted \/ (Predicting /\ inp.last <= clk.catchup)
  /\ \A f \in Frames : sent[f] # NoBytes => f <= clk.predicted
  /\ RingAsSent
  /\ NeverResampled

\* Every step of such a client keeps the sampling invariant.
LEMMA SampleNext ==
    ASSUME MayRewind = FALSE, Predicting => MaxSteps = 0, InputInv, SampleInv, [Next]_vars
    PROVE  SampleInv'
<1>0. /\ MaxFrame \in Nat \ {0} /\ MaxSteps \in Nat /\ Lead \in Nat /\ Targets \subseteq Nat
      /\ Predicting \in BOOLEAN
      /\ clk.predicted \in 0 .. MaxFrame /\ clk.catchup \in 0 .. MaxFrame /\ clk.booted \in BOOLEAN
      /\ clk \in [booted : BOOLEAN, predicted : 0..MaxFrame, catchup : 0..MaxFrame]
      /\ inp \in Buffer /\ inp.acked \in 0 .. MaxFrame /\ inp.last \in 0 .. MaxFrame
  BY InputAssumption DEF InputInv, TypeOK, Buffer
<1>1. ASSUME NEW v \in Bytes, SetInput(v) PROVE SampleInv'
  <2>1. inp'.last = inp.last /\ inp'.ring = inp.ring
    BY <1>0, <1>1 DEF SetInput, Buffer
  <2> QED BY <1>1, <2>1 DEF SetInput, SampleInv, RingAsSent, NeverResampled
<1>2. ASSUME NEW u \in updates, NEW target \in Targets \cup {0}, ReceiveUpdate(u, target)
      PROVE  SampleInv'
  <2> DEFINE predicted == IF ~clk.booted THEN u.frame + Lead ELSE clk.predicted
             acked == AcknowledgeFrame(inp, u.ack)
             heard == RetireTransmitFrames(acked, u.frame)
             ready == IF ~clk.booted THEN FillFramesThrough(heard, predicted) ELSE heard
             prefill == IF target = 0 THEN 0 ELSE u.frame + target
             fills == prefill > ready.last
  <2>0. UNCHANGED <<srv, frame, packets, updates, sent, got, faults>>
    BY <1>2 DEF ReceiveUpdate
  <2>1. /\ u.frame \in 0 .. MaxFrame /\ u.ack \in 0 .. MaxFrame /\ u.ack <= srv.ack
        /\ u.ack # 0 => got[u.ack] # NoBytes
    BY DEF InputInv, TypeOK, AckInv
  <2>2. predicted \in Nat /\ prefill \in Nat
    BY <1>0, <2>1
  <2>3. predicted \in 0 .. MaxFrame /\ prefill \in 0 .. MaxFrame /\ predicted >= clk.predicted
    <3>1. Larger(predicted, prefill) <= MaxFrame
      BY <1>2 DEF ReceiveUpdate
    <3>2. predicted \in 0 .. MaxFrame /\ prefill \in 0 .. MaxFrame
      BY <3>1, <2>2, <1>0 DEF Larger
    <3>3. predicted >= clk.predicted
      BY <1>0, <2>1 DEF SampleInv
    <3> QED BY <3>2, <3>3
  <2>4. BufferInv(inp) /\ RingSent(inp)
    BY DEF InputInv, TypeOK, AckInv, SentRecorded, SampleInv, RingAsSent, BufferInv, RingSent
  <2>5. BufferInv(acked) /\ RingSent(acked) /\ acked.last = inp.last
    BY <2>1, <2>4, AcknowledgeKeeps
  <2> HIDE DEF acked
  <2>6. BufferInv(heard) /\ RingSent(heard) /\ heard.last = inp.last
    BY <2>1, <2>5, RetireKeeps
  <2> HIDE DEF heard, predicted, prefill
  <2>7. /\ BufferInv(ready) /\ RingSent(ready)
        /\ ready.last = inp.last \/ ready.last = predicted
    <3>1. CASE clk.booted
      BY <3>1, <2>6
    <3>2. CASE ~clk.booted
      BY <3>2, <2>3, <2>6, FillKeeps
    <3> QED BY <3>1, <3>2
  <2> HIDE DEF ready
  <2>8. inp' = IF fills THEN FillFramesThrough(ready, prefill) ELSE ready
    BY <1>2 DEF ReceiveUpdate, fills, ready, heard, acked, prefill, predicted
  <2>9. /\ RingSent(inp')
        /\ inp'.last = ready.last \/ (fills /\ inp'.last = prefill)
    BY <2>3, <2>7, <2>8, FillKeeps
  <2>10. clk' = [booted |-> TRUE,
                predicted |-> IF fills /\ ~Predicting THEN Larger(predicted, prefill) ELSE predicted,
                catchup |-> IF fills THEN Larger(clk.catchup, prefill) ELSE clk.catchup]
    BY <1>2 DEF ReceiveUpdate, fills, ready, heard, acked, prefill, predicted
  <2>11. /\ clk'.booted = TRUE
         /\ clk'.predicted = IF fills /\ ~Predicting THEN Larger(predicted, prefill) ELSE predicted
         /\ clk'.catchup = IF fills THEN Larger(clk.catchup, prefill) ELSE clk.catchup
    <3> HIDE DEF fills
    <3> QED BY <2>10
  <2>12. clk'.predicted >= predicted /\ clk'.catchup >= clk.catchup
         /\ (fills => (Predicting /\ clk'.catchup >= prefill) \/ clk'.predicted >= prefill)
         /\ clk'.predicted \in Nat /\ clk'.catchup \in Nat
    <3> HIDE DEF fills
    <3> QED BY <2>3, <2>11, <1>0 DEF Larger
  <2>13. inp'.last <= clk'.predicted \/ (Predicting /\ inp'.last <= clk'.catchup)
    <3>1. CASE inp'.last = inp.last
      BY <3>1, <2>3, <2>12, <1>0 DEF SampleInv
    <3>2. CASE inp'.last = predicted
      BY <3>2, <2>12
    <3>3. CASE fills /\ inp'.last = prefill
      BY <3>3, <2>12
    <3> HIDE DEF fills
    <3> QED BY <3>1, <3>2, <3>3, <2>7, <2>9
  <2>14. \A f \in Frames : sent'[f] # NoBytes => f <= clk'.predicted
    BY <1>0, <2>0, <2>3, <2>12 DEF SampleInv, Frames
  <2>15. RingAsSent' /\ NeverResampled'
    BY <2>0, <2>9 DEF RingAsSent, RingSent, SampleInv, NeverResampled
  <2> QED BY <2>11, <2>13, <2>14, <2>15 DEF SampleInv
<1>3. ASSUME NEW f \in Frames, TimeSync(f) PROVE SampleInv'
  <2>1. /\ UNCHANGED <<inp, sent, faults>> /\ f >= clk.predicted /\ f \in Nat
        /\ clk'.predicted = f /\ clk'.catchup = clk.catchup /\ clk'.booted = clk.booted /\ clk.booted
    <3>1. /\ clk' = [clk EXCEPT !.predicted = f] /\ clk.booted /\ UNCHANGED <<inp, sent, faults>>
          /\ f >= clk.predicted
      BY <1>3 DEF TimeSync
    <3>2. f \in Nat
      BY <1>0 DEF Frames
    <3> QED BY <1>0, <3>1, <3>2
  <2> QED BY <1>0, <2>1 DEF SampleInv, RingAsSent, NeverResampled, Frames
<1>4. ASSUME NEW steps \in 0 .. 1, ClientTick(steps) PROVE SampleInv'
  <2> DEFINE through == PredictedThrough(steps)
             lo == Larger(clk.predicted + 1, inp.acked + 1)
             b == RecordFrames(clk.predicted + 1, through)
             floor == Larger(b.acked, b.retired)
             oldest == NewestContiguous(b, floor)
             bytes(f) == b.ring[Slot(f)].bytes
  <2>0. /\ SendInputs(b) /\ through <= MaxFrame /\ clk.booted
        /\ clk' = [clk EXCEPT !.predicted = through,
                      !.catchup = IF Predicting \/ clk.catchup <= through THEN 0 ELSE clk.catchup]
        /\ faults' = IF Resampled(b) THEN faults \cup {"resampled"} ELSE faults
    BY <1>4 DEF ClientTick
  <2>1. through \in 0 .. MaxFrame /\ through >= clk.predicted /\ (Predicting => through >= clk.catchup)
    BY <1>0, <2>0 DEF PredictedThrough, Larger, Smaller
  <2>2. lo \in Nat /\ lo > clk.predicted
    BY <1>0 DEF Larger
  <2>3. b = Record(inp, lo, through)
    BY DEF RecordFrames
  <2> HIDE DEF through, lo, b
  <2>4. /\ b \in Buffer
        /\ b.last = inp.last \/ (lo <= through /\ b.last = Larger(inp.last, through))
        /\ \A f \in Frames : Holds(b.ring, f) =>
              f \in lo .. through \/ (Holds(inp.ring, f) /\ b.ring[Slot(f)] = inp.ring[Slot(f)])
    <3>1. inp \in Buffer /\ through \in 0 .. MaxFrame /\ lo \in Nat
      BY <1>0, <2>1, <2>2
    <3> QED BY ONLY <3>1, <2>3, RecordFacts
  <2>5. b.last <= through /\ b.last \in 0 .. MaxFrame
    BY <1>0, <2>1, <2>4 DEF SampleInv, Larger
  <2>6. \A f \in Frames : Holds(b.ring, f) /\ sent[f] # NoBytes => bytes(f) = sent[f]
    <3> SUFFICES ASSUME NEW f \in Frames, Holds(b.ring, f), sent[f] # NoBytes
                 PROVE  bytes(f) = sent[f]
      OBVIOUS
    <3>1. f \notin lo .. through
      BY <1>0, <2>1, <2>2 DEF SampleInv, Frames
    <3> QED BY <3>1, <2>4 DEF SampleInv, RingAsSent
  <2>7. faults' = faults
    BY <2>0, <2>6 DEF Resampled
  <2>8. clk'.predicted = through /\ clk'.booted = clk.booted
    BY <1>0, <2>0
  <2>9. /\ inp'.last = b.last /\ inp'.ring = b.ring
        /\ \A f \in Frames : sent'[f] = sent[f] \/ (f <= b.last /\ sent'[f] = bytes(f))
    <3>1. CASE b.latest = NoBytes \/ b.last <= floor \/ oldest = 0
      BY <2>0, <3>1 DEF SendInputs
    <3>2. CASE ~(b.latest = NoBytes \/ b.last <= floor \/ oldest = 0)
      <4>1. PICK first \in oldest .. b.last :
                   /\ inp' = [b EXCEPT !.gap = FALSE]
                   /\ sent' = [f \in Frames |-> IF f \in first .. b.last THEN bytes(f) ELSE sent[f]]
        BY <2>0, <3>2 DEF SendInputs
      <4>2. inp'.last = b.last /\ inp'.ring = b.ring
        BY <2>4, <4>1 DEF Buffer
      <4> HIDE DEF bytes
      <4>3. \A f \in Frames : sent'[f] = IF f \in first .. b.last THEN bytes(f) ELSE sent[f]
        BY <4>1
      <4>4. \A f \in first .. b.last : f <= b.last
        OBVIOUS
      <4> QED BY <4>2, <4>3, <4>4
    <3> QED BY <3>1, <3>2
  <2>10. \A f \in Frames : sent'[f] # NoBytes => f <= through
    <3> SUFFICES ASSUME NEW f \in Frames, sent'[f] # NoBytes PROVE f <= through
      OBVIOUS
    <3>1. f \in Nat /\ (f <= clk.predicted \/ f <= b.last)
      BY <1>0, <2>9 DEF SampleInv, Frames
    <3> QED BY <3>1, <1>0, <2>1, <2>5
  <2>11. RingAsSent'
    BY <2>6, <2>9 DEF RingAsSent
  <2> QED BY <2>0, <2>5, <2>7, <2>8, <2>9, <2>10, <2>11 DEF SampleInv, NeverResampled
<1>5. ASSUME NEW p \in packets, ProcessInputPacket(p) PROVE SampleInv'
  BY <1>5 DEF ProcessInputPacket, SampleInv, RingAsSent, NeverResampled
<1>6. CASE ServerTick
  BY <1>6 DEF ServerTick, SampleInv, RingAsSent, NeverResampled
<1>7. CASE UNCHANGED vars
  BY <1>7 DEF vars, SampleInv, RingAsSent, NeverResampled
<1> QED BY <1>1, <1>2, <1>3, <1>4, <1>5, <1>6, <1>7 DEF Next

\* A client whose clock is never moved back and whose ticks may catch up in one
\* go never samples the input of a frame again that it has sent.
THEOREM NeverResampledAlways ==
    ASSUME MayRewind = FALSE, Predicting => MaxSteps = 0
    PROVE  Spec => []NeverResampled
<1>1. Init => SampleInv
  <2> SUFFICES ASSUME Init PROVE SampleInv
    OBVIOUS
  <2>1. \A f \in Frames : sent[f] = NoBytes
    BY DEF Init
  <2>2. inp.last = 0 /\ clk.predicted = 0 /\ clk.booted = FALSE /\ faults = {}
    BY DEF Init
  <2> QED BY <2>1, <2>2 DEF SampleInv, RingAsSent, NeverResampled
<1>2. InputInv /\ SampleInv /\ [Next]_vars => SampleInv'
  BY SampleNext
<1>3. SampleInv => NeverResampled
  BY DEF SampleInv
<1> QED BY <1>1, <1>2, <1>3, InputInvAlways, PTL DEF Spec

--------------------------------------------------------------------------------
(* The bytes of packets. *)

Weighed(t) == IsSeq(t) /\ \A i \in 1 .. Len(t) : t[i].bytes \in Nat

\* What is summed up.
LEMMA BytesOfPackets ==
  ASSUME NEW t, Weighed(t), NEW v, v = [i \in DOMAIN t |-> t[i].bytes]
  PROVE  /\ Numbers(v) /\ Len(v) = Len(t) /\ ChargedBytes(t) = Total(v)
         /\ \A i \in 1 .. Len(t) : v[i] = t[i].bytes
<1>1. DOMAIN t = 1 .. Len(t) /\ Len(t) \in Nat
  BY SeqOfElements DEF Weighed, IsSeq
<1>2. v = [i \in 1 .. Len(t) |-> v[i]] /\ \A i \in 1 .. Len(t) : v[i] = t[i].bytes
  BY <1>1
<1>3. Len(v) = Len(t)
  BY <1>1, <1>2, FunctionIsSeq
<1> QED BY <1>1, <1>2, <1>3 DEF Numbers, Weighed, ChargedBytes

\* No packet.
LEMMA ChargedEmpty == Weighed(<<>>) /\ ChargedBytes(<<>>) = 0
<1>1. Weighed(<<>>) /\ Len(<<>>) = 0
  BY EmptyIsSeq DEF Weighed
<1> DEFINE v == [i \in DOMAIN <<>> |-> <<>>[i].bytes]
<1>2. Len(v) = 0 /\ ChargedBytes(<<>>) = Total(v)
  BY <1>1, BytesOfPackets
<1> HIDE DEF v
<1> QED BY <1>1, <1>2, TotalEmpty

\* One more packet.
LEMMA ChargedAppend ==
  ASSUME NEW t, Weighed(t), NEW x, x.bytes \in Nat
  PROVE  /\ Weighed(Append(t, x)) /\ ChargedBytes(Append(t, x)) = ChargedBytes(t) + x.bytes
         /\ ChargedBytes(t) \in Nat
<1>0. PICK u : u = Append(t, x)
  OBVIOUS
<1>1. PICK n \in Nat : u = Append(t, x) /\ n = Len(t)
  BY <1>0 DEF Weighed, IsSeq
<1>2. IsSeq(u) /\ Len(u) = n + 1 /\ u[n + 1] = x /\ \A i \in 1 .. n : u[i] = t[i]
  BY <1>1, AppendIsSeq DEF Weighed
<1>3. \A i \in 1 .. (n + 1) : i = n + 1 \/ i \in 1 .. n
  OBVIOUS
<1>4. Weighed(u)
  BY <1>1, <1>2, <1>3 DEF Weighed
<1>5. PICK v : v = [i \in DOMAIN t |-> t[i].bytes]
  OBVIOUS
<1>6. PICK w : w = [i \in DOMAIN u |-> u[i].bytes]
  OBVIOUS
<1>7. /\ Numbers(v) /\ Len(v) = n /\ ChargedBytes(t) = Total(v)
      /\ \A i \in 1 .. n : v[i] = t[i].bytes
  BY <1>1, <1>5, BytesOfPackets
<1>8. /\ Len(w) = n + 1 /\ ChargedBytes(u) = Total(w)
      /\ \A i \in 1 .. (n + 1) : w[i] = u[i].bytes
  BY <1>2, <1>4, <1>6, BytesOfPackets
<1>9. Len(w) = Len(v) + 1 /\ w[Len(v) + 1] = x.bytes /\ \A i \in 1 .. Len(v) : w[i] = v[i]
  <2>1. n + 1 \in 1 .. (n + 1) /\ \A i \in 1 .. n : i \in 1 .. (n + 1)
    BY <1>1
  <2> QED BY <1>2, <1>7, <1>8, <2>1
<1>10. Total(w) = Total(v) + x.bytes
  BY <1>7, <1>9, TotalAppend
<1>11. Total(v) \in Nat
  BY <1>7, TotalSame
<1> QED BY <1>1, <1>4, <1>7, <1>8, <1>10, <1>11

\* Packets with the same bytes.
LEMMA ChargedSame ==
  ASSUME NEW t, Weighed(t), NEW u, IsSeq(u), Len(u) = Len(t),
         \A i \in 1 .. Len(t) : u[i].bytes = t[i].bytes
  PROVE  Weighed(u) /\ ChargedBytes(u) = ChargedBytes(t) /\ ChargedBytes(t) \in Nat
<1>1. Weighed(u)
  BY DEF Weighed
<1>5. PICK v : v = [i \in DOMAIN t |-> t[i].bytes]
  OBVIOUS
<1>6. PICK w : w = [i \in DOMAIN u |-> u[i].bytes]
  OBVIOUS
<1>7. /\ Numbers(v) /\ Len(v) = Len(t) /\ ChargedBytes(t) = Total(v)
      /\ \A i \in 1 .. Len(t) : v[i] = t[i].bytes
  BY <1>5, BytesOfPackets
<1>8. /\ Len(w) = Len(u) /\ ChargedBytes(u) = Total(w)
      /\ \A i \in 1 .. Len(u) : w[i] = u[i].bytes
  BY <1>1, <1>6, BytesOfPackets
<1>9. Total(w) = Total(v) /\ Total(v) \in Nat
  BY <1>7, <1>8, TotalSame
<1> QED BY <1>1, <1>7, <1>8, <1>9

\* The packets at some places and the others.
LEMMA ChargedSplit ==
  ASSUME NEW t, Weighed(t), NEW S
  PROVE  /\ Weighed(Chosen(t, S)) /\ Weighed(Chosen(t, DOMAIN t \ S))
         /\ ChargedBytes(Chosen(t, S)) \in Nat /\ ChargedBytes(Chosen(t, DOMAIN t \ S)) \in Nat
         /\ ChargedBytes(t) = ChargedBytes(Chosen(t, S)) + ChargedBytes(Chosen(t, DOMAIN t \ S))
<1>1. PICK n \in Nat : n = Len(t) /\ DOMAIN t = 1 .. n
  BY SeqOfElements DEF Weighed, IsSeq
<1>2. PICK R : R = DOMAIN t \ S
  OBVIOUS
<1>3a. PICK a : ChosenUpTo(a, t, S)
  BY <1>1, ChosenSteps
<1>3. /\ a[0] = <<>> /\ Chosen(t, S) = a[n]
      /\ \A i \in 1 .. n : i \in S => a[i] = Append(a[i - 1], t[i])
      /\ \A i \in 1 .. n : i \notin S => a[i] = a[i - 1]
  BY <1>1, <1>3a DEF ChosenUpTo
<1>4a. PICK b : ChosenUpTo(b, t, R)
  BY <1>1, ChosenSteps
<1>4. /\ b[0] = <<>> /\ Chosen(t, R) = b[n]
      /\ \A i \in 1 .. n : i \in R => b[i] = Append(b[i - 1], t[i])
      /\ \A i \in 1 .. n : i \notin R => b[i] = b[i - 1]
  BY <1>1, <1>4a DEF ChosenUpTo
<1>5. PICK v : v = [i \in DOMAIN t |-> t[i].bytes]
  OBVIOUS
<1>6. /\ Numbers(v) /\ Len(v) = n /\ ChargedBytes(t) = Total(v)
      /\ \A i \in 1 .. n : v[i] = t[i].bytes /\ t[i].bytes \in Nat
  BY <1>1, <1>5, BytesOfPackets DEF Weighed
<1>7. PICK c : Sums(c, v)
  BY <1>6, SumsExist
<1>8. c[0] = 0 /\ (\A i \in 1 .. n : c[i] = c[i - 1] + t[i].bytes) /\ Total(v) = c[n]
  BY <1>6, <1>7, TotalIsLast DEF Sums
<1> DEFINE P(i) == /\ Weighed(a[i]) /\ Weighed(b[i])
                   /\ ChargedBytes(a[i]) \in Nat /\ ChargedBytes(b[i]) \in Nat
                   /\ c[i] = ChargedBytes(a[i]) + ChargedBytes(b[i])
           K == {i \in Nat : i <= n => P(i)}
<1>9. P(0)
  BY <1>3, <1>4, <1>8, ChargedEmpty
<1>10. ASSUME NEW k \in Nat, k + 1 <= n, P(k) PROVE P(k + 1)
  <2>1. k + 1 \in 1 .. n /\ (k + 1) - 1 = k
    BY <1>1, <1>10
  <2>2. PICK x \in Nat : x = t[k + 1].bytes
    BY <1>6, <2>1
  <2>3. c[k + 1] = c[k] + x
    BY <1>8, <2>1, <2>2
  <2>4. CASE k + 1 \in S
    <3>1. a[k + 1] = Append(a[k], t[k + 1]) /\ b[k + 1] = b[k]
      BY <1>1, <1>2, <1>3, <1>4, <2>1, <2>4
    <3>2. Weighed(a[k + 1]) /\ ChargedBytes(a[k + 1]) = ChargedBytes(a[k]) + x
      BY <1>10, <2>2, <3>1, ChargedAppend
    <3> QED BY <1>10, <2>3, <3>1, <3>2
  <2>5. CASE k + 1 \notin S
    <3>1. b[k + 1] = Append(b[k], t[k + 1]) /\ a[k + 1] = a[k]
      BY <1>1, <1>2, <1>3, <1>4, <2>1, <2>5
    <3>2. Weighed(b[k + 1]) /\ ChargedBytes(b[k + 1]) = ChargedBytes(b[k]) + x
      BY <1>10, <2>2, <3>1, ChargedAppend
    <3> QED BY <1>10, <2>3, <3>1, <3>2
  <2> QED BY <2>4, <2>5
<1> HIDE DEF P
<1>11. K = Nat
  <2>1. 0 \in K /\ (\A k \in K : k + 1 \in K) /\ K \in SUBSET Nat
    BY <1>1, <1>9, <1>10
  <2> HIDE DEF K
  <2> QED BY <2>1, Induct
<1>12. P(n)
  BY <1>1, <1>11
<1> QED BY <1>2, <1>3, <1>4, <1>6, <1>8, <1>12 DEF P

--------------------------------------------------------------------------------
(* The books of a budget: what is available, what is in flight, and the clients. *)

\* Every participant has one place in the roster.
LEMMA RosterFacts ==
  /\ Cardinality(Participants) \in Nat
  /\ Roster \in [1 .. Cardinality(Participants) -> Participants]
  /\ \A i, j \in 1 .. Cardinality(Participants) : Roster[i] = Roster[j] => i = j
  /\ \A p \in Participants : \E i \in 1 .. Cardinality(Participants) : Roster[i] = p
<1> DEFINE n == Cardinality(Participants)
           Is(r) == /\ \A i, j \in DOMAIN r : r[i] = r[j] => i = j
                    /\ \A p \in Participants : \E i \in DOMAIN r : r[i] = p
<1>1. n \in Nat /\ ExistsBijection(1 .. n, Participants)
  BY BandwidthAssumption, FS_CardinalityType
<1>2. PICK f : f \in Bijection(1 .. n, Participants)
  BY <1>1 DEF ExistsBijection
<1>3. f \in [1 .. n -> Participants] /\ Is(f)
  BY <1>2 DEF Bijection, Injection, Surjection, IsInjective
<1>4. Roster \in [1 .. n -> Participants] /\ Is(Roster)
  BY <1>3 DEF Roster
<1>5. DOMAIN Roster = 1 .. n
  BY <1>4
<1> QED BY <1>1, <1>4, <1>5

\* The bytes in flight of all participants.
InFlight(c) == Total([i \in DOMAIN Roster |-> ChargedBytes(c[Roster[i]].tracked)])

AllWeighed(c) == \A q \in Participants : Weighed(c[q].tracked)

\* What is summed up.
LEMMA InFlightNumbers ==
  ASSUME NEW c, AllWeighed(c), NEW v, v = [i \in DOMAIN Roster |-> ChargedBytes(c[Roster[i]].tracked)]
  PROVE  /\ Numbers(v) /\ Len(v) = Cardinality(Participants) /\ InFlight(c) = Total(v)
         /\ \A i \in 1 .. Cardinality(Participants) : v[i] = ChargedBytes(c[Roster[i]].tracked)
<1>1. PICK n \in Nat : n = Cardinality(Participants)
  BY RosterFacts
<1>2. DOMAIN Roster = 1 .. n /\ \A i \in 1 .. n : Roster[i] \in Participants
  BY <1>1, RosterFacts
<1>3. v = [i \in 1 .. n |-> v[i]] /\ \A i \in 1 .. n : v[i] = ChargedBytes(c[Roster[i]].tracked)
  BY <1>2
<1>4. Len(v) = n
  BY <1>3, FunctionIsSeq
<1>5. \A i \in 1 .. n : v[i] \in Nat
  <2> SUFFICES ASSUME NEW i \in 1 .. n PROVE v[i] \in Nat
    OBVIOUS
  <2>1. PICK t : t = c[Roster[i]].tracked
    OBVIOUS
  <2>2. Weighed(t)
    BY <1>2, <2>1 DEF AllWeighed
  <2>3. ChargedBytes(t) \in Nat
    BY <2>2, ChargedSame DEF Weighed
  <2> QED BY <1>3, <2>1, <2>3
<1> QED BY <1>1, <1>3, <1>4, <1>5 DEF Numbers, InFlight

\* The packets of one participant change.
LEMMA InFlightChanged ==
  ASSUME NEW c, AllWeighed(c), NEW d, AllWeighed(d), NEW p \in Participants,
         \A q \in Participants \ {p} : ChargedBytes(d[q].tracked) = ChargedBytes(c[q].tracked)
  PROVE  /\ InFlight(d) + ChargedBytes(c[p].tracked) = InFlight(c) + ChargedBytes(d[p].tracked)
         /\ InFlight(c) \in Nat /\ InFlight(d) \in Nat
<1>1. PICK n \in Nat : n = Cardinality(Participants)
  BY RosterFacts
<1>2. PICK v : v = [i \in DOMAIN Roster |-> ChargedBytes(c[Roster[i]].tracked)]
  OBVIOUS
<1>3. PICK w : w = [i \in DOMAIN Roster |-> ChargedBytes(d[Roster[i]].tracked)]
  OBVIOUS
<1>4. /\ Numbers(v) /\ Len(v) = n /\ InFlight(c) = Total(v)
      /\ \A i \in 1 .. n : v[i] = ChargedBytes(c[Roster[i]].tracked)
  BY <1>1, <1>2, InFlightNumbers
<1>5. /\ Numbers(w) /\ Len(w) = n /\ InFlight(d) = Total(w)
      /\ \A i \in 1 .. n : w[i] = ChargedBytes(d[Roster[i]].tracked)
  BY <1>1, <1>3, InFlightNumbers
<1>6. PICK k \in 1 .. n : Roster[k] = p
  BY <1>1, RosterFacts
<1>7. \A i \in 1 .. n : i # k => Roster[i] \in Participants \ {p}
  BY <1>1, <1>6, RosterFacts
<1>8. k \in 1 .. Len(v) /\ w[k] \in Nat /\ \A i \in 1 .. Len(v) : i # k => w[i] = v[i]
  BY <1>4, <1>5, <1>6, <1>7 DEF Numbers
<1>9. Total(w) + v[k] = Total(v) + w[k] /\ Total(w) \in Nat /\ Total(v) \in Nat
  BY <1>4, <1>5, <1>8, TotalChanged
<1> QED BY <1>4, <1>5, <1>6, <1>9

IsPacket(r) ==
  /\ r = [id |-> r.id, bytes |-> r.bytes, fr |-> r.fr, records |-> r.records, latest |-> r.latest]
  /\ r.bytes \in Nat

Packets(t) == IsSeq(t) /\ \A i \in 1 .. Len(t) : IsPacket(t[i])

IsClient(cl) ==
  /\ cl = [list |-> cl.list, queued |-> cl.queued, acc |-> cl.acc,
           tracked |-> cl.tracked, next |-> cl.next]
  /\ IsSeq(cl.list) /\ (\A i \in 1 .. Len(cl.list) : cl.list[i] \in Entities)
  /\ cl.acc \in [Entities -> Nat] /\ Packets(cl.tracked)

AllClients(c) == c = [p \in Participants |-> c[p]] /\ \A p \in Participants : IsClient(c[p])

IsBooks(b) ==
  /\ b = [available |-> b.available, inflight |-> b.inflight, client |-> b.client]
  /\ b.available \in Nat /\ b.inflight \in Nat /\ AllClients(b.client)

\* The bytes in flight are those of the tracked packets and o more.
Accounted(b, o) == b.inflight = InFlight(b.client) + o

\* Some of the packets are packets.
LEMMA ChosenPackets ==
  ASSUME NEW t, Packets(t), NEW S, S \subseteq DOMAIN t
  PROVE  Packets(Chosen(t, S))
<1>1. IsSeq(t) /\ DOMAIN t = 1 .. Len(t)
  BY SeqOfElements DEF Packets
<1>2. PICK c : c = Chosen(t, S)
  OBVIOUS
<1>3. ChosenFrom(c, t, S)
  BY <1>1, <1>2, ChosenPlaces
<1>4. PICK at \in [1 .. Len(c) -> S] : \A k \in 1 .. Len(c) : c[k] = t[at[k]]
  BY <1>3 DEF ChosenFrom
<1>5. \A k \in 1 .. Len(c) : at[k] \in 1 .. Len(t)
  BY <1>1, <1>4
<1>6. IsSeq(c) /\ \A k \in 1 .. Len(c) : IsPacket(c[k])
  BY <1>3, <1>4, <1>5 DEF ChosenFrom, Packets
<1> QED BY <1>2, <1>6 DEF Packets

LEMMA PacketsWeighed ==
  ASSUME NEW t, Packets(t)
  PROVE  Weighed(t)
BY DEF Packets, Weighed, IsPacket

LEMMA ClientsWeighed ==
  ASSUME NEW c, AllClients(c)
  PROVE  AllWeighed(c)
BY PacketsWeighed DEF AllClients, AllWeighed, IsClient

\* The client of one participant.
LEMMA OneClient ==
  ASSUME NEW c, AllClients(c), NEW p \in Participants, NEW cl, IsClient(cl)
  PROVE  /\ AllClients([c EXCEPT ![p] = cl]) /\ [c EXCEPT ![p] = cl][p] = cl
         /\ \A q \in Participants \ {p} : [c EXCEPT ![p] = cl][q] = c[q]
BY DEF AllClients

\* What is in flight of one participant is in flight.
LEMMA InFlightHas ==
  ASSUME NEW c, AllClients(c), NEW p \in Participants
  PROVE  /\ ChargedBytes(c[p].tracked) <= InFlight(c)
         /\ ChargedBytes(c[p].tracked) \in Nat /\ InFlight(c) \in Nat
<1>0. PICK f : f = [c[p] EXCEPT !.tracked = <<>>]
  OBVIOUS
<1>1. PICK h : h = [c EXCEPT ![p] = f]
  OBVIOUS
<1>2. Packets(<<>>) /\ ChargedBytes(<<>>) = 0
  BY EmptyIsSeq, ChargedEmpty DEF Packets
<1>3. IsClient(f) /\ f.tracked = <<>>
  BY <1>0, <1>2 DEF IsClient, AllClients
<1>4. AllClients(h) /\ h[p] = f /\ \A q \in Participants \ {p} : h[q] = c[q]
  BY <1>1, <1>3 DEF AllClients
<1>5. /\ InFlight(h) + ChargedBytes(c[p].tracked) = InFlight(c) + ChargedBytes(h[p].tracked)
      /\ InFlight(h) \in Nat /\ InFlight(c) \in Nat
  <2>1. AllWeighed(h) /\ AllWeighed(c)
    BY <1>4, ClientsWeighed
  <2>2. \A q \in Participants \ {p} : ChargedBytes(h[q].tracked) = ChargedBytes(c[q].tracked)
    BY <1>4
  <2> QED BY <2>1, <2>2, InFlightChanged
<1>6. ChargedBytes(c[p].tracked) \in Nat
  <2>1. Weighed(c[p].tracked)
    BY ClientsWeighed DEF AllWeighed
  <2> QED BY <2>1, ChargedSame DEF Weighed
<1> QED BY <1>2, <1>3, <1>4, <1>5, <1>6

\* Part of what is in flight is gone.
LEMMA GoneBooks ==
  ASSUME NEW b, IsBooks(b), NEW t, Weighed(t), NEW g, g = AllGone(b, t)
  PROVE  g = [available |-> b.available, client |-> b.client,
              inflight |-> IF ChargedBytes(t) >= b.inflight THEN 0 ELSE b.inflight - ChargedBytes(t)]
<1>1. PICK x : x = ChargedBytes(t)
  OBVIOUS
<1>2. g = [b EXCEPT !.inflight = Minus(b.inflight, x)]
  BY <1>1 DEF AllGone, PacketGone
<1> QED BY <1>1, <1>2 DEF Minus, IsBooks

--------------------------------------------------------------------------------
(* Sending *)

\* The books keep their shape and account for what is in flight; n bytes were paid.
Paid(d, b, o, n) == IsBooks(d) /\ Accounted(d, o) /\ d.available = Minus(b.available, n)

\* A packet is sent.
LEMMA SendPacketBooks ==
  ASSUME NEW b, IsBooks(b), NEW o \in Nat, Accounted(b, o), NEW p \in Participants,
         NEW packet, packet.bytes \in Nat, NEW fr, NEW d, d = SendPacket(b, p, packet, fr)
  PROVE  Paid(d, b, o, packet.bytes)
<1> DEFINE cl   == b.client[p]
           id   == cl.next
           same == {i \in DOMAIN cl.tracked : cl.tracked[i].id = id}
           x    == [id |-> id, bytes |-> packet.bytes, fr |-> fr,
                    records |-> packet.records, latest |-> packet.records]
           keep == Chosen(cl.tracked, DOMAIN cl.tracked \ same)
           lost == Chosen(cl.tracked, same)
           all  == Append(keep, x)
           gone == AllGone(b, lost)
           paid == [gone EXCEPT !.inflight = @ + packet.bytes, !.available = Minus(@, packet.bytes)]
           drop == 1 .. Minus(Len(all), MaxTracked)
           left == Chosen(all, DOMAIN all \ drop)
           late == Chosen(all, drop)
           over == AllGone(paid, late)
           next == IF id = MaxPacketId THEN 1 ELSE id + 1
<1>1. d = [over EXCEPT !.client[p].tracked = left, !.client[p].next = next]
  BY DEF SendPacket
<1>2. IsClient(cl) /\ Packets(cl.tracked) /\ AllClients(b.client)
  BY DEF IsBooks, AllClients, IsClient
<1>3. /\ Packets(keep) /\ Packets(lost)
      /\ ChargedBytes(lost) \in Nat /\ ChargedBytes(keep) \in Nat
      /\ ChargedBytes(cl.tracked) = ChargedBytes(lost) + ChargedBytes(keep)
  <2>1. PICK t, S : t = cl.tracked /\ S = same
    OBVIOUS
  <2>2. S \subseteq DOMAIN t
    BY <2>1
  <2> HIDE DEF cl, same
  <2>3. Packets(t) /\ Weighed(t)
    BY <1>2, <2>1, PacketsWeighed
  <2>4. Packets(Chosen(t, S)) /\ Packets(Chosen(t, DOMAIN t \ S))
    BY <2>2, <2>3, ChosenPackets
  <2>5. /\ ChargedBytes(Chosen(t, S)) \in Nat /\ ChargedBytes(Chosen(t, DOMAIN t \ S)) \in Nat
        /\ ChargedBytes(t) = ChargedBytes(Chosen(t, S)) + ChargedBytes(Chosen(t, DOMAIN t \ S))
    BY <2>3, ChargedSplit
  <2> QED BY <2>1, <2>4, <2>5
<1>4. IsPacket(x) /\ x.bytes = packet.bytes
  BY DEF IsPacket
<1> HIDE DEF x, same, keep, lost
<1>5. Packets(all) /\ ChargedBytes(all) = ChargedBytes(keep) + packet.bytes
  <2>1. IsSeq(keep) /\ Len(keep) \in Nat
    BY <1>3 DEF Packets, IsSeq
  <2>2. /\ IsSeq(all) /\ Len(all) = Len(keep) + 1 /\ all[Len(keep) + 1] = x
        /\ \A i \in 1 .. Len(keep) : all[i] = keep[i]
    BY <2>1, AppendIsSeq
  <2>3. \A i \in 1 .. (Len(keep) + 1) : i = Len(keep) + 1 \/ i \in 1 .. Len(keep)
    BY <2>1
  <2>4. ChargedBytes(all) = ChargedBytes(keep) + x.bytes
    BY <1>3, <1>4, PacketsWeighed, ChargedAppend
  <2> HIDE DEF all
  <2> QED BY <1>3, <1>4, <2>2, <2>3, <2>4 DEF Packets
<1> HIDE DEF all
<1>6. /\ Packets(left) /\ Packets(late)
      /\ ChargedBytes(late) \in Nat /\ ChargedBytes(left) \in Nat
      /\ ChargedBytes(all) = ChargedBytes(late) + ChargedBytes(left)
  <2>1. PICK S : S = drop
    OBVIOUS
  <2>2. DOMAIN all = 1 .. Len(all) /\ Len(all) \in Nat
    BY <1>5, SeqOfElements DEF Packets, IsSeq
  <2>3. S \subseteq DOMAIN all
    <3>1. MaxTracked \in Nat
      BY BandwidthAssumption
    <3> QED BY <2>1, <2>2, <3>1 DEF Minus
  <2> HIDE DEF drop
  <2>4. Packets(Chosen(all, S)) /\ Packets(Chosen(all, DOMAIN all \ S)) /\ Weighed(all)
    BY <1>5, <2>3, ChosenPackets, PacketsWeighed
  <2>5. /\ ChargedBytes(Chosen(all, S)) \in Nat /\ ChargedBytes(Chosen(all, DOMAIN all \ S)) \in Nat
        /\ ChargedBytes(all) = ChargedBytes(Chosen(all, S)) + ChargedBytes(Chosen(all, DOMAIN all \ S))
    BY <2>4, ChargedSplit
  <2> QED BY <2>1, <2>4, <2>5
<1> HIDE DEF drop, left, late
<1>7. PICK n \in Nat, i \in Nat, m \in Nat :
        n = packet.bytes /\ i = b.inflight /\ m = InFlight(b.client) /\ i = m + o
  <2>1. InFlight(b.client) \in Nat
    BY <1>2, ClientsWeighed, InFlightChanged
  <2> QED BY <2>1 DEF IsBooks, Accounted
<1>8. PICK l \in Nat, k \in Nat, y \in Nat, z \in Nat :
        /\ l = ChargedBytes(lost) /\ k = ChargedBytes(keep)
        /\ y = ChargedBytes(late) /\ z = ChargedBytes(left)
        /\ ChargedBytes(cl.tracked) = l + k /\ k + n = y + z
  BY <1>3, <1>5, <1>6, <1>7
<1>9. gone = [available |-> b.available, client |-> b.client,
              inflight |-> IF l >= i THEN 0 ELSE i - l]
  BY <1>3, <1>7, <1>8, GoneBooks, PacketsWeighed
<1>10. PICK e : e = [cl EXCEPT !.tracked = left, !.next = next]
  OBVIOUS
<1>11. IsClient(e) /\ e.tracked = left
  BY <1>2, <1>6, <1>10 DEF IsClient
<1>12. PICK c : c = [b.client EXCEPT ![p] = e]
  OBVIOUS
<1>13. AllClients(c) /\ c[p] = e /\ \A q \in Participants \ {p} : c[q] = b.client[q]
  BY <1>2, <1>11, <1>12, OneClient
<1>14. InFlight(c) + (l + k) = m + z /\ InFlight(c) \in Nat
  <2>1. InFlight(c) + ChargedBytes(b.client[p].tracked) = InFlight(b.client) + ChargedBytes(c[p].tracked)
    <3>1. AllWeighed(c) /\ AllWeighed(b.client)
      BY <1>2, <1>13, ClientsWeighed
    <3>2. \A q \in Participants \ {p} : ChargedBytes(c[q].tracked) = ChargedBytes(b.client[q].tracked)
      BY <1>13
    <3> QED BY <3>1, <3>2, InFlightChanged
  <2>2. InFlight(c) \in Nat
    BY <1>13, ClientsWeighed, InFlightChanged
  <2> QED BY <1>7, <1>8, <1>11, <1>13, <2>1, <2>2
<1>15. l <= i /\ i - l \in Nat /\ (IF l >= i THEN 0 ELSE i - l) = i - l
  <2>1. l + k <= m
    BY <1>2, <1>7, <1>8, InFlightHas
  <2>2. i = m + o
    BY <1>7
  <2> QED BY <2>1, <2>2
<1>16. paid = [available |-> Minus(b.available, n), client |-> b.client, inflight |-> (i - l) + n]
  <2> HIDE DEF gone
  <2>1. gone = [available |-> b.available, client |-> b.client, inflight |-> i - l]
    BY <1>9, <1>15
  <2>2. PICK u, v : u = i - l /\ v = Minus(b.available, n)
    OBVIOUS
  <2>3. paid = [gone EXCEPT !.inflight = u + n, !.available = v]
    BY <1>7, <2>1, <2>2
  <2> HIDE DEF paid
  <2> QED BY <2>1, <2>2, <2>3
<1>17. IsBooks(paid)
  <2>1. Minus(b.available, n) \in Nat
    BY DEF IsBooks, Minus
  <2>2. (i - l) + n \in Nat
    BY <1>15
  <2> HIDE DEF paid
  <2> QED BY <1>2, <1>16, <2>1, <2>2 DEF IsBooks
<1>18. over = [available |-> Minus(b.available, n), client |-> b.client,
               inflight |-> IF y >= (i - l) + n THEN 0 ELSE ((i - l) + n) - y]
  BY <1>6, <1>8, <1>16, <1>17, GoneBooks, PacketsWeighed
<1>19. (IF y >= (i - l) + n THEN 0 ELSE ((i - l) + n) - y) = InFlight(c) + o
  BY <1>7, <1>8, <1>14, <1>15
<1>20. d = [available |-> Minus(b.available, n), client |-> c, inflight |-> InFlight(c) + o]
  <2>1. over = [available |-> Minus(b.available, n), client |-> b.client, inflight |-> InFlight(c) + o]
    BY <1>18, <1>19
  <2> HIDE DEF over
  <2>2. [over.client EXCEPT ![p].tracked = left, ![p].next = next] = c
    <3>1. PICK a : a = b.client
      OBVIOUS
    <3>2. a = [q \in Participants |-> a[q]] /\ a[p] = cl /\ over.client = a
      BY <1>2, <2>1, <3>1 DEF AllClients
    <3> HIDE DEF cl
    <3>3. c = [a EXCEPT ![p] = [cl EXCEPT !.tracked = left, !.next = next]]
      BY <1>10, <1>12, <3>1
    <3> HIDE DEF next
    <3> QED BY <3>2, <3>3
  <2>3. d = [over EXCEPT !.client = [over.client EXCEPT ![p].tracked = left, ![p].next = next]]
    BY <1>1, <2>1
  <2> QED BY <2>1, <2>2, <2>3
<1>21. Minus(b.available, n) \in Nat
  BY DEF IsBooks, Minus
<1> QED BY <1>7, <1>13, <1>14, <1>20, <1>21, SMTT(30) DEF Paid, IsBooks, Accounted

\* b after every packet of a list, up to the k-th.
SentUpTo(a, b, p, batch, fr, k) ==
  /\ a = [i \in 0 .. k |-> a[i]] /\ a[0] = b
  /\ \A i \in 1 .. k : a[i] = SendPacket(a[i - 1], p, batch[i], fr)

\* The books after every packet exist, by induction on the packets.
LEMMA SentExists ==
  ASSUME NEW b, NEW p, NEW batch, Len(batch) \in Nat, NEW fr
  PROVE  \E a : SentUpTo(a, b, p, batch, fr, Len(batch))
<1> DEFINE P(k) == \E a : SentUpTo(a, b, p, batch, fr, k)
           K == {k \in Nat : P(k)}
<1>1. P(0)
  <2> DEFINE z == [i \in 0 .. 0 |-> b]
  <2>1. z = [i \in 0 .. 0 |-> z[i]] /\ z[0] = b
    OBVIOUS
  <2> HIDE DEF z
  <2>2. SentUpTo(z, b, p, batch, fr, 0)
    BY <2>1 DEF SentUpTo
  <2> QED BY <2>2
<1>2. ASSUME NEW k \in Nat, P(k) PROVE P(k + 1)
  <2>1. PICK a : SentUpTo(a, b, p, batch, fr, k)
    BY <1>2
  <2>2. PICK v : v = SendPacket(a[k], p, batch[k + 1], fr)
    OBVIOUS
  <2> DEFINE c == [i \in 0 .. (k + 1) |-> IF i = k + 1 THEN v ELSE a[i]]
  <2>3. c = [i \in 0 .. (k + 1) |-> c[i]] /\ c[0] = b /\ c[k + 1] = v /\ c[k] = a[k]
    BY <2>1 DEF SentUpTo
  <2>4. \A i \in 1 .. k : c[i] = a[i] /\ c[i - 1] = a[i - 1]
    OBVIOUS
  <2> HIDE DEF c
  <2>5. \A i \in 1 .. (k + 1) : c[i] = SendPacket(c[i - 1], p, batch[i], fr)
    <3> SUFFICES ASSUME NEW i \in 1 .. (k + 1) PROVE c[i] = SendPacket(c[i - 1], p, batch[i], fr)
      OBVIOUS
    <3>1. CASE i = k + 1
      <4>1. i - 1 = k
        BY <3>1
      <4> QED BY <2>2, <2>3, <3>1, <4>1
    <3>2. CASE i \in 1 .. k
      BY <2>1, <2>4, <3>2 DEF SentUpTo
    <3> QED BY <3>1, <3>2
  <2>6. SentUpTo(c, b, p, batch, fr, k + 1)
    BY <2>3, <2>5 DEF SentUpTo
  <2> QED BY <2>6
<1> HIDE DEF P
<1>3. K = Nat
  <2>1. 0 \in K /\ (\A k \in K : k + 1 \in K) /\ K \in SUBSET Nat
    BY <1>1, <1>2
  <2> HIDE DEF K
  <2> QED BY <2>1, Induct
<1>4. P(Len(batch))
  BY <1>3
<1> QED BY <1>4 DEF P

\* They are what SendPackets goes through.
LEMMA SendPacketsSteps ==
  ASSUME NEW b, NEW p, NEW batch, Len(batch) \in Nat, NEW fr
  PROVE  \E a : /\ SentUpTo(a, b, p, batch, fr, Len(batch))
                /\ SendPackets(b, p, batch, fr) = a[Len(batch)]
<1> DEFINE n == Len(batch)
           Eq(a) == a = [i \in 0 .. n |-> IF i = 0 THEN b ELSE SendPacket(a[i - 1], p, batch[i], fr)]
           a == CHOOSE a : Eq(a)
<1>1. PICK c : SentUpTo(c, b, p, batch, fr, n)
  BY SentExists
<1>2. Eq(c)
  <2>1. \A i \in 0 .. n : c[i] = IF i = 0 THEN b ELSE SendPacket(c[i - 1], p, batch[i], fr)
    <3> SUFFICES ASSUME NEW i \in 0 .. n
                 PROVE  c[i] = IF i = 0 THEN b ELSE SendPacket(c[i - 1], p, batch[i], fr)
      OBVIOUS
    <3>1. CASE i = 0
      BY <1>1, <3>1 DEF SentUpTo
    <3>2. CASE i # 0
      <4>1. i \in 1 .. n
        BY <3>2
      <4> QED BY <1>1, <3>2, <4>1 DEF SentUpTo
    <3> QED BY <3>1, <3>2
  <2>2. c = [i \in 0 .. n |-> c[i]]
    BY <1>1 DEF SentUpTo
  <2> QED BY <2>1, <2>2
<1>3. Eq(a)
  BY <1>2, Zenon
<1>4. SendPackets(b, p, batch, fr) = a[n]
  BY Zenon DEF SendPackets
<1> HIDE DEF a, n
<1>5. SentUpTo(a, b, p, batch, fr, n)
  <2>1. n \in Nat
    BY DEF n
  <2>2. a[0] = b /\ a = [i \in 0 .. n |-> a[i]]
    BY <1>3, <2>1
  <2>3. \A i \in 1 .. n : a[i] = SendPacket(a[i - 1], p, batch[i], fr)
    BY <1>3, <2>1
  <2> HIDE DEF Eq
  <2> QED BY <2>2, <2>3 DEF SentUpTo
<1> QED BY <1>4, <1>5 DEF n

\* Several packets are sent.
LEMMA SendPacketsBooks ==
  ASSUME NEW b, IsBooks(b), NEW o \in Nat, Accounted(b, o), NEW p \in Participants,
         NEW batch, Weighed(batch), NEW fr, NEW d, d = SendPackets(b, p, batch, fr)
  PROVE  Paid(d, b, o, ChargedBytes(batch)) /\ ChargedBytes(batch) \in Nat
<1>1. PICK n \in Nat : n = Len(batch)
  BY DEF Weighed, IsSeq
<1>2. PICK a : SentUpTo(a, b, p, batch, fr, n) /\ d = a[n]
  BY <1>1, SendPacketsSteps
<1>3. PICK v : v = [i \in DOMAIN batch |-> batch[i].bytes]
  OBVIOUS
<1>4. /\ Numbers(v) /\ Len(v) = n /\ ChargedBytes(batch) = Total(v)
      /\ \A i \in 1 .. n : v[i] = batch[i].bytes /\ batch[i].bytes \in Nat
  BY <1>1, <1>3, BytesOfPackets DEF Weighed
<1>5. PICK c : Sums(c, v)
  BY <1>4, SumsExist
<1>6. /\ c[0] = 0 /\ (\A i \in 1 .. n : c[i] = c[i - 1] + batch[i].bytes)
      /\ Total(v) = c[n] /\ Total(v) \in Nat /\ \A i \in 0 .. n : c[i] \in Nat
  BY <1>4, <1>5, TotalIsLast DEF Sums
<1> DEFINE P(i) == Paid(a[i], b, o, c[i])
           K == {i \in Nat : i <= n => P(i)}
<1>7. P(0)
  BY <1>2, <1>6 DEF Paid, SentUpTo, IsBooks, Minus
<1>8. ASSUME NEW k \in Nat, k + 1 <= n, P(k) PROVE P(k + 1)
  <2>1. k + 1 \in 1 .. n /\ (k + 1) - 1 = k /\ k \in 0 .. n
    BY <1>1, <1>8
  <2>2. PICK x \in Nat : x = batch[k + 1].bytes
    BY <1>4, <2>1
  <2>3. c[k + 1] = c[k] + x /\ c[k] \in Nat
    BY <1>6, <2>1, <2>2
  <2>4. PICK e, f : e = a[k] /\ f = a[k + 1]
    OBVIOUS
  <2>5. f = SendPacket(e, p, batch[k + 1], fr)
    BY <1>2, <2>1, <2>4 DEF SentUpTo
  <2>6. IsBooks(e) /\ Accounted(e, o) /\ e.available = Minus(b.available, c[k])
    BY <1>8, <2>4 DEF Paid
  <2>7. Paid(f, e, o, x)
    BY <2>2, <2>5, <2>6, SendPacketBooks
  <2>8. Minus(e.available, x) = Minus(b.available, c[k + 1])
    <3>1. PICK y \in Nat, z \in Nat : y = b.available /\ z = c[k]
      BY <2>3 DEF IsBooks
    <3>2. Minus(Minus(y, z), x) = Minus(y, z + x)
      BY DEF Minus
    <3> QED BY <2>3, <2>6, <3>1, <3>2
  <2> QED BY <2>4, <2>7, <2>8 DEF Paid
<1> HIDE DEF P
<1>9. K = Nat
  <2>1. 0 \in K /\ (\A k \in K : k + 1 \in K) /\ K \in SUBSET Nat
    BY <1>1, <1>7, <1>8
  <2> HIDE DEF K
  <2> QED BY <2>1, Induct
<1>10. P(n)
  BY <1>1, <1>9
<1> QED BY <1>2, <1>4, <1>6, <1>10 DEF P

--------------------------------------------------------------------------------
(* Orders *)

\* R orders the numbers from 1 to n.
Orders(R, n) ==
  /\ \A i \in 1 .. n : <<i, i>> \notin R
  /\ \A i, j, k \in 1 .. n : <<i, j>> \in R /\ <<j, k>> \in R => <<i, k>> \in R
  /\ \A i, j \in 1 .. n : i # j => <<i, j>> \in R \/ <<j, i>> \in R

Places(place, R, n) ==
  place = [i \in 1 .. n |-> Cardinality({j \in 1 .. n : <<j, i>> \in R}) + 1]

\* Every number up to n is somebody's place in the order.
LEMMA EveryPlaceTaken ==
  ASSUME NEW n \in Nat, NEW R, Orders(R, n), NEW place, Places(place, R, n)
  PROVE  \A k \in 1 .. n : \E i \in 1 .. n : place[i] = k
<1> USE DEF Places
<1> DEFINE D == 1 .. n
           B(i) == {j \in D : <<j, i>> \in R}
<1>1. IsFiniteSet(D) /\ Cardinality(D) = n
  BY FS_Interval
<1>2. \A i \in D : /\ IsFiniteSet(B(i)) /\ Cardinality(B(i)) \in Nat /\ Cardinality(B(i)) < n
                   /\ place[i] = Cardinality(B(i)) + 1
  <2> SUFFICES ASSUME NEW i \in D
               PROVE  /\ IsFiniteSet(B(i)) /\ Cardinality(B(i)) \in Nat /\ Cardinality(B(i)) < n
                      /\ place[i] = Cardinality(B(i)) + 1
    OBVIOUS
  <2>1. place[i] = Cardinality(B(i)) + 1
    OBVIOUS
  <2>2. PICK S : S = B(i)
    OBVIOUS
  <2>3. S \in SUBSET D /\ i \notin S
    BY <2>2 DEF Orders
  <2> HIDE DEF B, D
  <2>4. IsFiniteSet(S) /\ Cardinality(S) <= Cardinality(D) /\ (Cardinality(D) = Cardinality(S) => D = S)
    BY <1>1, <2>3, FS_Subset
  <2>5. Cardinality(S) \in Nat
    BY <2>4, FS_CardinalityType
  <2> QED BY <1>1, <2>1, <2>2, <2>3, <2>4, <2>5
<1>3. ASSUME NEW i \in D, NEW j \in D, <<i, j>> \in R
      PROVE  Cardinality(B(i)) < Cardinality(B(j))
  <2>1. PICK S, T : S = B(i) /\ T = B(j)
    OBVIOUS
  <2>2. S \in SUBSET T /\ i \in T /\ i \notin S
    BY <1>3, <2>1 DEF Orders
  <2> HIDE DEF B, D
  <2>3. IsFiniteSet(T) /\ Cardinality(T) \in Nat /\ Cardinality(S) \in Nat
    BY <1>2, <2>1
  <2>4. Cardinality(S) <= Cardinality(T) /\ (Cardinality(T) = Cardinality(S) => T = S)
    BY <2>2, <2>3, FS_Subset
  <2>5. Cardinality(S) # Cardinality(T)
    BY <2>2, <2>4
  <2>6. Cardinality(S) < Cardinality(T)
    BY <2>3, <2>4, <2>5
  <2> QED BY <2>1, <2>6
<1> HIDE DEF B
<1>4. place \in [D -> D]
  <2>1. \A i \in D : place[i] \in D
    BY <1>2
  <2> QED BY <2>1
<1>5. \A i, j \in D : place[i] = place[j] => i = j
  <2> SUFFICES ASSUME NEW i \in D, NEW j \in D, i # j PROVE place[i] # place[j]
    OBVIOUS
  <2>1. Cardinality(B(i)) < Cardinality(B(j)) \/ Cardinality(B(j)) < Cardinality(B(i))
    BY <1>3 DEF Orders
  <2> HIDE DEF D
  <2>2. PICK x \in Nat, y \in Nat : x = Cardinality(B(i)) /\ y = Cardinality(B(j))
    BY <1>2
  <2>3. place[i] = x + 1 /\ place[j] = y + 1 /\ (x < y \/ y < x)
    BY <1>2, <2>1, <2>2
  <2> QED BY <2>3
<1> HIDE DEF D
<1>6. place \in Injection(D, D)
  BY <1>4, <1>5, ZenonT(60) DEF Injection, IsInjective
<1>7. place \in Surjection(D, D)
  BY <1>1, <1>6, FS_Injection
<1> QED BY <1>7 DEF Surjection, D

\* The greater key first, and of equal ones the first.
LEMMA KeysOrder ==
  ASSUME NEW n \in Nat, NEW u \in [1 .. n -> Nat], NEW R,
         \A i, j \in 1 .. n : <<i, j>> \in R <=> (u[i] > u[j] \/ (u[i] = u[j] /\ i < j))
  PROVE  Orders(R, n)
<1>1. \A i \in 1 .. n : <<i, i>> \notin R
  OBVIOUS
<1>2. \A i, j \in 1 .. n : i # j => <<i, j>> \in R \/ <<j, i>> \in R
  OBVIOUS
<1>3. ASSUME NEW i \in 1 .. n, NEW j \in 1 .. n, NEW k \in 1 .. n, <<i, j>> \in R, <<j, k>> \in R
      PROVE  <<i, k>> \in R
  <2>1. u[i] \in Nat /\ u[j] \in Nat /\ u[k] \in Nat
    OBVIOUS
  <2>2. u[i] > u[j] \/ (u[i] = u[j] /\ i < j)
    BY <1>3
  <2>3. u[j] > u[k] \/ (u[j] = u[k] /\ j < k)
    BY <1>3
  <2>4. u[i] > u[k] \/ (u[i] = u[k] /\ i < k)
    BY <2>1, <2>2, <2>3
  <2> QED BY <2>4
<1> QED BY <1>1, <1>2, <1>3 DEF Orders

\* The members in the order of a round are members.
LEMMA OrderOfMembers ==
  ASSUME NEW ms, IsSeq(ms), \A i \in 1 .. Len(ms) : ms[i] \in Participants, NEW o, o = Order(ms)
  PROVE  IsSeq(o) /\ Len(o) = Len(ms) /\ \A k \in 1 .. Len(ms) : o[k] \in Participants
<1>1. PICK n \in Nat : n = Len(ms) /\ DOMAIN ms = 1 .. n
  BY SeqOfElements DEF IsSeq
<1> DEFINE D == DOMAIN ms
           Before(i, j) == Urgency[ms[i]] > Urgency[ms[j]]
                             \/ (Urgency[ms[i]] = Urgency[ms[j]] /\ i < j)
           place == [i \in D |-> Cardinality({j \in D : Before(j, i)}) + 1]
           R == {x \in D \X D : Before(x[1], x[2])}
<1>2. o = [k \in D |-> ms[CHOOSE i \in D : place[i] = k]]
  BY DEF Order
<1>3. Orders(R, n)
  <2>1. PICK u : u = [i \in 1 .. n |-> Urgency[ms[i]]]
    OBVIOUS
  <2>2. u \in [1 .. n -> Nat]
    BY <1>1, <2>1, BandwidthAssumption
  <2>3. \A i, j \in 1 .. n : <<i, j>> \in R <=> Before(i, j)
    BY <1>1
  <2>4. \A i, j \in 1 .. n : <<i, j>> \in R <=> (u[i] > u[j] \/ (u[i] = u[j] /\ i < j))
    BY <2>1, <2>3
  <2> HIDE DEF R
  <2> QED BY <2>2, <2>4, KeysOrder
<1>4. Places(place, R, n)
  <2>1. ASSUME NEW i \in 1 .. n PROVE {j \in D : Before(j, i)} = {j \in 1 .. n : <<j, i>> \in R}
    BY <1>1
  <2> HIDE DEF Before, R
  <2> QED BY <1>1, <2>1 DEF Places
<1> HIDE DEF place, R
<1>5. \A k \in 1 .. n : \E i \in 1 .. n : place[i] = k
  BY <1>3, <1>4, EveryPlaceTaken
<1>6. \A k \in 1 .. n : (CHOOSE i \in D : place[i] = k) \in 1 .. n
  BY <1>1, <1>5
<1>7. o = [k \in 1 .. n |-> o[k]] /\ \A k \in 1 .. n : o[k] \in Participants
  BY <1>1, <1>2, <1>6
<1>8. IsSeq(o) /\ Len(o) = n
  BY <1>7, FunctionIsSeq
<1> QED BY <1>1, <1>7, <1>8

\* The candidates are entities.
LEMMA CandidatesAreEntities ==
  ASSUME NEW cl, IsSeq(cl.list), \A i \in 1 .. Len(cl.list) : cl.list[i] \in Entities,
         NEW eligible, NEW acc \in [Entities -> Nat], NEW o, o = Candidates(cl, eligible, acc)
  PROVE  IsSeq(o) /\ \A k \in 1 .. Len(o) : o[k] \in Entities
<1> DEFINE S == {i \in DOMAIN cl.list : cl.list[i] \in eligible}
           some == Chosen(cl.list, S)
<1>1. IsSeq(some) /\ \A k \in 1 .. Len(some) : some[k] \in Entities
  <2>1. PICK l : l = cl.list
    OBVIOUS
  <2>2. IsSeq(l) /\ DOMAIN l = 1 .. Len(l) /\ \A i \in 1 .. Len(l) : l[i] \in Entities
    BY <2>1, SeqOfElements
  <2>3. S \subseteq 1 .. Len(l)
    BY <2>1, <2>2
  <2> HIDE DEF S
  <2>4. ChosenFrom(Chosen(l, S), l, S)
    BY <2>2, <2>3, ChosenPlaces
  <2>5. PICK c : c = Chosen(l, S)
    OBVIOUS
  <2>6. ChosenFrom(c, l, S)
    BY <2>4, <2>5
  <2>7. PICK at \in [1 .. Len(c) -> S] : \A k \in 1 .. Len(c) : c[k] = l[at[k]]
    BY <2>6 DEF ChosenFrom
  <2>8. \A k \in 1 .. Len(c) : c[k] \in Entities
    BY <2>2, <2>3, <2>7
  <2> QED BY <2>1, <2>5, <2>6, <2>8 DEF ChosenFrom
<1>2. PICK n \in Nat : n = Len(some) /\ DOMAIN some = 1 .. n
  BY <1>1, SeqOfElements DEF IsSeq
<1> DEFINE D == DOMAIN some
           Before(i, j) == acc[some[i]] > acc[some[j]] \/ (acc[some[i]] = acc[some[j]] /\ i < j)
           place == [i \in D |-> Cardinality({j \in D : Before(j, i)}) + 1]
           R == {x \in D \X D : Before(x[1], x[2])}
<1>3. o = [k \in D |-> some[CHOOSE i \in D : place[i] = k]]
  BY DEF Candidates
<1> HIDE DEF some
<1>4. Orders(R, n)
  <2>1. PICK u : u = [i \in 1 .. n |-> acc[some[i]]]
    OBVIOUS
  <2>2. u \in [1 .. n -> Nat]
    BY <1>1, <1>2, <2>1
  <2>3. \A i, j \in 1 .. n : <<i, j>> \in R <=> Before(i, j)
    BY <1>2
  <2>4. \A i, j \in 1 .. n : <<i, j>> \in R <=> (u[i] > u[j] \/ (u[i] = u[j] /\ i < j))
    BY <2>1, <2>3
  <2> HIDE DEF R
  <2> QED BY <2>2, <2>4, KeysOrder
<1>5. Places(place, R, n)
  <2>1. ASSUME NEW i \in 1 .. n PROVE {j \in D : Before(j, i)} = {j \in 1 .. n : <<j, i>> \in R}
    BY <1>2
  <2> HIDE DEF Before, R
  <2> QED BY <1>2, <2>1 DEF Places
<1> HIDE DEF place, R
<1>6. \A k \in 1 .. n : \E i \in 1 .. n : place[i] = k
  BY <1>4, <1>5, EveryPlaceTaken
<1>7. \A k \in 1 .. n : (CHOOSE i \in D : place[i] = k) \in 1 .. n
  BY <1>2, <1>6
<1>8. o = [k \in 1 .. n |-> o[k]] /\ \A k \in 1 .. n : o[k] \in Entities
  BY <1>1, <1>2, <1>3, <1>7
<1>9. IsSeq(o) /\ Len(o) = n
  BY <1>8, FunctionIsSeq
<1> QED BY <1>8, <1>9

--------------------------------------------------------------------------------
(* One flush *)

\* What is left of the limit when the open packet is paid for.
LeftOf(o) == o.remaining - (IF o.records = {} THEN 0 ELSE Overhead + o.bytes)

\* A flush that started with r bytes: it has paid for its packets, can pay for the
\* open one, and has not enough left for what it refused.
FlushOK(o, r) ==
  /\ o = [remaining |-> o.remaining, bytes |-> o.bytes, records |-> o.records,
          packets |-> o.packets, refused |-> o.refused, stop |-> o.stop]
  /\ o.remaining \in Nat /\ o.bytes \in Nat /\ Weighed(o.packets)
  /\ ChargedBytes(o.packets) \in Nat /\ ChargedBytes(o.packets) + o.remaining = r
  /\ (o.records = {} => o.bytes = 0) /\ LeftOf(o) >= 0
  /\ o.refused \subseteq Entities /\ \A e \in o.refused : Overhead + Size[e] > LeftOf(o)

\* A flush begins.
LEMMA OpenOK ==
  ASSUME NEW r \in Nat
  PROVE  FlushOK(Open(r), r)
BY ChargedEmpty DEF Open, FlushOK, LeftOf

\* The open packet is closed.
LEMMA ClosedOK ==
  ASSUME NEW r \in Nat, NEW o, FlushOK(o, r), NEW c, c = Closed(o)
  PROVE  /\ FlushOK(c, r) /\ c.records = {} /\ LeftOf(c) = LeftOf(o)
         /\ c.refused = o.refused /\ c.stop = o.stop
<1>1. CASE o.records = {}
  BY <1>1 DEF Closed
<1>2. CASE o.records # {}
  <2>1. PICK n : n = Overhead + o.bytes
    OBVIOUS
  <2>2. Overhead \in Nat /\ n \in Nat /\ o.bytes \in Nat /\ o.remaining \in Nat
    BY <2>1, BandwidthAssumption DEF FlushOK
  <2>3. LeftOf(o) = o.remaining - n /\ o.remaining - n \in Nat
    BY <1>2, <2>1, <2>2 DEF LeftOf, FlushOK
  <2>4. PICK x : x = [bytes |-> n, records |-> o.records]
    OBVIOUS
  <2>5. PICK ps : ps = Append(o.packets, x)
    OBVIOUS
  <2>6. c = [remaining |-> o.remaining - n, bytes |-> 0, records |-> {},
             packets |-> ps, refused |-> o.refused, stop |-> o.stop]
    BY <1>2, <2>1, <2>4, <2>5 DEF Closed, FlushOK
  <2>7. x.bytes = n
    BY <2>4
  <2>8. Weighed(ps) /\ ChargedBytes(ps) = ChargedBytes(o.packets) + n
    BY <2>2, <2>5, <2>7, ChargedAppend DEF FlushOK
  <2>9. LeftOf(c) = o.remaining - n
    BY <2>3, <2>6 DEF LeftOf
  <2>10. ChargedBytes(ps) \in Nat /\ ChargedBytes(ps) + (o.remaining - n) = r
    BY <2>2, <2>3, <2>8 DEF FlushOK
  <2>11. FlushOK(c, r)
    <3>1. /\ c = [remaining |-> c.remaining, bytes |-> c.bytes, records |-> c.records,
                  packets |-> c.packets, refused |-> c.refused, stop |-> c.stop]
          /\ c.remaining = o.remaining - n /\ c.bytes = 0 /\ c.packets = ps /\ c.refused = o.refused
      BY <2>6
    <3> QED BY <2>3, <2>8, <2>9, <2>10, <3>1 DEF FlushOK
  <2> QED BY <2>3, <2>6, <2>9, <2>11
<1> QED BY <1>1, <1>2

\* A record is tried.
LEMMA AddRecordOK ==
  ASSUME NEW r \in Nat, NEW o, FlushOK(o, r), NEW e \in Entities, NEW d, d = AddRecord(o, e)
  PROVE  FlushOK(d, r)
<1> DEFINE full == o.records # {} /\ o.bytes + Size[e] > Mtu
           n == IF full THEN Closed(o) ELSE o
<1>1. FlushOK(n, r)
  BY ClosedOK
<1>2. d = IF o.stop THEN o
          ELSE IF n.bytes + Size[e] > Mtu THEN n
          ELSE IF ~Fits(n, e)
          THEN [n EXCEPT !.refused = @ \cup {e},
                         !.stop = Cardinality(n.refused) + 1 >= MaxRefusals]
          ELSE [n EXCEPT !.bytes = @ + Size[e], !.records = @ \cup {e}]
  BY Zenon DEF AddRecord
<1> HIDE DEF n
<1>3. Size[e] \in Nat \ {0} /\ Overhead \in Nat
  BY BandwidthAssumption
<1>4. n.bytes \in Nat /\ n.remaining \in Nat
  BY <1>1 DEF FlushOK
<1>5. CASE o.stop \/ n.bytes + Size[e] > Mtu
  BY <1>1, <1>2, <1>5
<1>6. CASE ~o.stop /\ ~(n.bytes + Size[e] > Mtu) /\ ~Fits(n, e)
  <2>1. PICK st : st = (Cardinality(n.refused) + 1 >= MaxRefusals)
    OBVIOUS
  <2>2. d = [n EXCEPT !.refused = @ \cup {e}, !.stop = st]
    BY <1>2, <1>6, <2>1
  <2>3. d = [remaining |-> n.remaining, bytes |-> n.bytes, records |-> n.records,
             packets |-> n.packets, refused |-> n.refused \cup {e}, stop |-> st]
    BY <1>1, <2>2 DEF FlushOK
  <2>4. LeftOf(d) = LeftOf(n)
    BY <2>3 DEF LeftOf
  <2>5. Overhead + n.bytes + Size[e] > n.remaining
    BY <1>3, <1>4, <1>6 DEF Fits
  <2>6. Overhead + Size[e] > LeftOf(n)
    <3>1. CASE n.records = {}
      BY <1>1, <1>3, <1>4, <2>5, <3>1 DEF LeftOf, FlushOK
    <3>2. CASE n.records # {}
      BY <1>3, <1>4, <2>5, <3>2 DEF LeftOf
    <3> QED BY <3>1, <3>2
  <2>7. /\ d = [remaining |-> d.remaining, bytes |-> d.bytes, records |-> d.records,
                 packets |-> d.packets, refused |-> d.refused, stop |-> d.stop]
        /\ d.remaining = n.remaining /\ d.bytes = n.bytes /\ d.records = n.records
        /\ d.packets = n.packets /\ d.refused = n.refused \cup {e}
    BY <2>3
  <2>8. /\ n.remaining \in Nat /\ n.bytes \in Nat /\ Weighed(n.packets)
        /\ ChargedBytes(n.packets) \in Nat /\ ChargedBytes(n.packets) + n.remaining = r
        /\ (n.records = {} => n.bytes = 0) /\ LeftOf(n) >= 0
        /\ n.refused \subseteq Entities /\ \A x \in n.refused : Overhead + Size[x] > LeftOf(n)
    BY <1>1 DEF FlushOK
  <2>9. \A x \in n.refused \cup {e} : x \in Entities /\ Overhead + Size[x] > LeftOf(d)
    BY <2>4, <2>6, <2>8
  <2> QED BY <2>4, <2>7, <2>8, <2>9 DEF FlushOK
<1>7. CASE ~o.stop /\ ~(n.bytes + Size[e] > Mtu) /\ Fits(n, e)
  <2>1. PICK y : y = n.bytes + Size[e]
    OBVIOUS
  <2>2. d = [n EXCEPT !.bytes = y, !.records = @ \cup {e}]
    BY <1>2, <1>7, <2>1
  <2>3. d = [remaining |-> n.remaining, bytes |-> y, records |-> n.records \cup {e},
             packets |-> n.packets, refused |-> n.refused, stop |-> n.stop]
    BY <1>1, <2>2 DEF FlushOK
  <2>4. y \in Nat /\ Overhead + y <= n.remaining /\ d.records # {}
    BY <1>3, <1>4, <1>7, <2>1, <2>3 DEF Fits
  <2>5. LeftOf(d) = n.remaining - (Overhead + y) /\ LeftOf(d) >= 0
    BY <1>3, <1>4, <2>3, <2>4 DEF LeftOf
  <2>6. LeftOf(d) <= LeftOf(n) /\ LeftOf(n) \in Int
    BY <1>3, <1>4, <2>1, <2>4, <2>5 DEF LeftOf
  <2>7. \A x \in n.refused : Overhead + Size[x] > LeftOf(d)
    <3> SUFFICES ASSUME NEW x \in n.refused PROVE Overhead + Size[x] > LeftOf(d)
      OBVIOUS
    <3>1. Size[x] \in Nat /\ Overhead + Size[x] > LeftOf(n)
      BY <1>1, BandwidthAssumption DEF FlushOK
    <3>2. LeftOf(d) \in Int
      BY <1>3, <1>4, <2>4, <2>5
    <3> QED BY <1>3, <2>6, <3>1, <3>2
  <2>8. /\ d = [remaining |-> d.remaining, bytes |-> d.bytes, records |-> d.records,
                 packets |-> d.packets, refused |-> d.refused, stop |-> d.stop]
        /\ d.remaining = n.remaining /\ d.bytes = y /\ d.packets = n.packets
        /\ d.refused = n.refused
    BY <2>3
  <2>9. /\ n.remaining \in Nat /\ Weighed(n.packets) /\ n.refused \subseteq Entities
        /\ ChargedBytes(n.packets) \in Nat /\ ChargedBytes(n.packets) + n.remaining = r
    BY <1>1 DEF FlushOK
  <2> QED BY <2>4, <2>5, <2>7, <2>8, <2>9 DEF FlushOK
<1> QED BY <1>5, <1>6, <1>7

\* The packet under construction after every candidate, up to the k-th.
TriedUpTo(a, open, todo, k) ==
  /\ a = [i \in 0 .. k |-> a[i]] /\ a[0] = open
  /\ \A i \in 1 .. k : a[i] = AddRecord(a[i - 1], todo[i])

\* It exists, by induction on the candidates.
LEMMA TriedExists ==
  ASSUME NEW open, NEW todo, Len(todo) \in Nat
  PROVE  \E a : TriedUpTo(a, open, todo, Len(todo))
<1> DEFINE P(k) == \E a : TriedUpTo(a, open, todo, k)
           K == {k \in Nat : P(k)}
<1>1. P(0)
  <2> DEFINE z == [i \in 0 .. 0 |-> open]
  <2>1. z = [i \in 0 .. 0 |-> z[i]] /\ z[0] = open
    OBVIOUS
  <2> HIDE DEF z
  <2>2. TriedUpTo(z, open, todo, 0)
    BY <2>1 DEF TriedUpTo
  <2> QED BY <2>2
<1>2. ASSUME NEW k \in Nat, P(k) PROVE P(k + 1)
  <2>1. PICK a : TriedUpTo(a, open, todo, k)
    BY <1>2
  <2>2. PICK v : v = AddRecord(a[k], todo[k + 1])
    OBVIOUS
  <2> DEFINE c == [i \in 0 .. (k + 1) |-> IF i = k + 1 THEN v ELSE a[i]]
  <2>3. c = [i \in 0 .. (k + 1) |-> c[i]] /\ c[0] = open /\ c[k + 1] = v /\ c[k] = a[k]
    BY <2>1 DEF TriedUpTo
  <2>4. \A i \in 1 .. k : c[i] = a[i] /\ c[i - 1] = a[i - 1]
    OBVIOUS
  <2> HIDE DEF c
  <2>5. \A i \in 1 .. (k + 1) : c[i] = AddRecord(c[i - 1], todo[i])
    <3> SUFFICES ASSUME NEW i \in 1 .. (k + 1) PROVE c[i] = AddRecord(c[i - 1], todo[i])
      OBVIOUS
    <3>1. CASE i = k + 1
      <4>1. i - 1 = k
        BY <3>1
      <4> QED BY <2>2, <2>3, <3>1, <4>1
    <3>2. CASE i \in 1 .. k
      BY <2>1, <2>4, <3>2 DEF TriedUpTo
    <3> QED BY <3>1, <3>2
  <2>6. TriedUpTo(c, open, todo, k + 1)
    BY <2>3, <2>5 DEF TriedUpTo
  <2> QED BY <2>6
<1> HIDE DEF P
<1>3. K = Nat
  <2>1. 0 \in K /\ (\A k \in K : k + 1 \in K) /\ K \in SUBSET Nat
    BY <1>1, <1>2
  <2> HIDE DEF K
  <2> QED BY <2>1, Induct
<1>4. P(Len(todo))
  BY <1>3
<1> QED BY <1>4 DEF P

\* All candidates are tried.
LEMMA TriedOK ==
  ASSUME NEW r \in Nat, NEW open, FlushOK(open, r), NEW todo, IsSeq(todo),
         \A k \in 1 .. Len(todo) : todo[k] \in Entities, NEW d, d = Tried(open, todo)
  PROVE  FlushOK(d, r)
<1> DEFINE n == Len(todo)
           Eq(a) == a = [i \in 0 .. n |-> IF i = 0 THEN open ELSE AddRecord(a[i - 1], todo[i])]
           a == CHOOSE a : Eq(a)
<1>0. n \in Nat
  BY DEF IsSeq
<1>1. PICK c : TriedUpTo(c, open, todo, n)
  BY <1>0, TriedExists
<1>2. Eq(c)
  <2>1. \A i \in 0 .. n : c[i] = IF i = 0 THEN open ELSE AddRecord(c[i - 1], todo[i])
    <3> SUFFICES ASSUME NEW i \in 0 .. n
                 PROVE  c[i] = IF i = 0 THEN open ELSE AddRecord(c[i - 1], todo[i])
      OBVIOUS
    <3>1. CASE i = 0
      BY <1>1, <3>1 DEF TriedUpTo
    <3>2. CASE i # 0
      <4>1. i \in 1 .. n
        BY <3>2
      <4> QED BY <1>1, <3>2, <4>1 DEF TriedUpTo
    <3> QED BY <3>1, <3>2
  <2>2. c = [i \in 0 .. n |-> c[i]]
    BY <1>1 DEF TriedUpTo
  <2> QED BY <2>1, <2>2
<1>3. Eq(a)
  BY <1>2, Zenon
<1>4. d = a[n]
  BY Zenon DEF Tried
<1> HIDE DEF a, n
<1>5. a[0] = open /\ \A i \in 1 .. n : a[i] = AddRecord(a[i - 1], todo[i])
  BY <1>0, <1>3
<1> HIDE DEF Eq
<1> DEFINE K == {i \in Nat : i <= n => FlushOK(a[i], r)}
<1>6. 0 \in K
  BY <1>5
<1>7. ASSUME NEW k \in K PROVE k + 1 \in K
  <2> SUFFICES ASSUME k + 1 <= n PROVE FlushOK(a[k + 1], r)
    OBVIOUS
  <2>1. k \in Nat /\ k + 1 \in 1 .. n /\ (k + 1) - 1 = k /\ FlushOK(a[k], r)
    BY <1>0
  <2>2. todo[k + 1] \in Entities
    BY <2>1 DEF n
  <2>3. a[k + 1] = AddRecord(a[k], todo[k + 1])
    BY <1>5, <2>1
  <2> QED BY <2>1, <2>2, <2>3, AddRecordOK
<1>8. K = Nat
  <2>1. K \in SUBSET Nat
    OBVIOUS
  <2> HIDE DEF K
  <2> QED BY <1>6, <1>7, <2>1, Induct
<1> QED BY <1>0, <1>4, <1>8

\* A client is replaced by one with as many bytes in flight.
LEMMA ClientReplaced ==
  ASSUME NEW b, IsBooks(b), NEW o \in Nat, Accounted(b, o), NEW p \in Participants,
         NEW cl, IsClient(cl), ChargedBytes(cl.tracked) = ChargedBytes(b.client[p].tracked),
         NEW d, d = [b EXCEPT !.client[p] = cl]
  PROVE  Paid(d, b, o, 0)
<1>1. PICK c : c = [b.client EXCEPT ![p] = cl]
  OBVIOUS
<1>2. AllClients(b.client) /\ AllClients(c) /\ c[p] = cl /\ \A q \in Participants \ {p} : c[q] = b.client[q]
  BY <1>1, OneClient DEF IsBooks
<1>3. d = [available |-> b.available, inflight |-> b.inflight, client |-> c]
  BY <1>1 DEF IsBooks
<1>4. /\ InFlight(c) + ChargedBytes(b.client[p].tracked) = InFlight(b.client) + ChargedBytes(c[p].tracked)
      /\ InFlight(b.client) \in Nat /\ InFlight(c) \in Nat
  <2>1. \A q \in Participants \ {p} : ChargedBytes(c[q].tracked) = ChargedBytes(b.client[q].tracked)
    BY <1>2
  <2> QED BY <1>2, <2>1, ClientsWeighed, InFlightChanged
<1>5. ChargedBytes(b.client[p].tracked) \in Nat
  BY <1>2, InFlightHas
<1>6. InFlight(c) = InFlight(b.client)
  BY <1>2, <1>4, <1>5
<1>7. Minus(b.available, 0) = b.available
  BY DEF Minus, IsBooks
<1> QED BY <1>2, <1>3, <1>6, <1>7 DEF Paid, IsBooks, Accounted

\* A flush within a limit: the books after it account for what is in flight, it
\* charges no more than there is, and has not enough left for what it refused.
Flushed(f, b, o, limit) ==
  /\ f = [books |-> f.books, charged |-> f.charged, sent |-> f.sent, refused |-> f.refused]
  /\ IsBooks(f.books) /\ Accounted(f.books, o)
  /\ f.charged \in Nat /\ f.charged <= Lesser(b.available, limit)
  /\ f.books.available = b.available - f.charged
  /\ f.refused \subseteq Entities
  /\ \A e \in f.refused : Overhead + Size[e] > Lesser(b.available, limit) - f.charged

\* A participant flushes.
LEMMA FlushBooks ==
  ASSUME NEW b, IsBooks(b), NEW o \in Nat, Accounted(b, o), NEW p \in Participants,
         NEW limit \in Nat, NEW fr, NEW f, f = Flush(b, p, limit, fr)
  PROVE  Flushed(f, b, o, limit)
<1> DEFINE cl   == b.client[p]
           some == {e \in cl.queued : Priority[p][e] > 0}
           acc  == [e \in Entities |->
                      IF e \in some THEN Accumulate(cl.acc[e], Priority[p][e]) ELSE cl.acc[e]]
           todo == Candidates(cl, some, acc)
           r    == Lesser(b.available, limit)
           done == Closed(Tried(Open(r), todo))
           went == Records(done.packets)
           list == Chosen(cl.list, {i \in DOMAIN cl.list : cl.list[i] \in cl.queued})
           zero == [e \in Entities |-> IF e \in went THEN 0 ELSE acc[e]]
           kept == [i \in DOMAIN cl.tracked |->
                      IF cl.tracked[i].fr = fr THEN cl.tracked[i]
                      ELSE Outdated(cl.tracked[i], went)]
           aged == [cl EXCEPT !.list = list, !.acc = zero, !.tracked = kept]
           swap == [b EXCEPT !.client[p] = aged]
<1>1. f = [books |-> SendPackets(swap, p, done.packets, fr), charged |-> ChargedBytes(done.packets),
           sent |-> went, refused |-> done.refused]
  BY Zenon DEF Flush
<1>2. IsClient(cl) /\ b.available \in Nat /\ r \in Nat
  BY DEF IsBooks, AllClients, Lesser
<1> HIDE DEF cl
<1>3. acc \in [Entities -> Nat]
  <2>1. \A e \in Entities : cl.acc[e] \in Nat /\ Priority[p][e] \in Nat /\ MaxPriority \in Nat
    BY <1>2, BandwidthAssumption DEF IsClient
  <2>2. \A e \in Entities : Accumulate(cl.acc[e], Priority[p][e]) \in Nat
    BY <2>1 DEF Accumulate, Lesser
  <2> QED BY <2>1, <2>2
<1> HIDE DEF acc, r
<1>4. IsSeq(todo) /\ \A k \in 1 .. Len(todo) : todo[k] \in Entities
  BY <1>2, <1>3, CandidatesAreEntities DEF IsClient
<1> HIDE DEF todo
<1>5. FlushOK(done, r) /\ done.records = {}
  <2>1. FlushOK(Tried(Open(r), todo), r)
    BY <1>2, <1>4, OpenOK, TriedOK
  <2> QED BY <1>2, <2>1, ClosedOK
<1> HIDE DEF done, went
<1>6. IsSeq(list) /\ \A i \in 1 .. Len(list) : list[i] \in Entities
  <2>1. PICK l, S : l = cl.list /\ S = {i \in DOMAIN cl.list : cl.list[i] \in cl.queued}
    OBVIOUS
  <2>2. IsSeq(l) /\ DOMAIN l = 1 .. Len(l) /\ \A i \in 1 .. Len(l) : l[i] \in Entities
    BY <1>2, <2>1, SeqOfElements DEF IsClient
  <2>3. S \subseteq 1 .. Len(l)
    BY <2>1, <2>2
  <2>4. PICK c : c = Chosen(l, S)
    OBVIOUS
  <2>5. ChosenFrom(c, l, S)
    BY <2>2, <2>3, <2>4, ChosenPlaces
  <2>6. PICK at \in [1 .. Len(c) -> S] : \A k \in 1 .. Len(c) : c[k] = l[at[k]]
    BY <2>5 DEF ChosenFrom
  <2>7. \A k \in 1 .. Len(c) : c[k] \in Entities
    BY <2>2, <2>3, <2>6
  <2> QED BY <2>1, <2>4, <2>5, <2>7 DEF ChosenFrom
<1> HIDE DEF list
<1>7. zero \in [Entities -> Nat]
  BY <1>3
<1> HIDE DEF zero
<1>8. Packets(kept) /\ ChargedBytes(kept) = ChargedBytes(cl.tracked)
  <2>1. PICK t : t = cl.tracked
    OBVIOUS
  <2>2. Packets(t) /\ DOMAIN t = 1 .. Len(t) /\ Len(t) \in Nat
    BY <1>2, <2>1, SeqOfElements DEF IsClient, Packets, IsSeq
  <2>3. PICK k : k = kept
    OBVIOUS
  <2>4. /\ k = [i \in 1 .. Len(t) |-> k[i]]
        /\ \A i \in 1 .. Len(t) : k[i] = IF t[i].fr = fr THEN t[i] ELSE Outdated(t[i], went)
    BY <2>1, <2>2, <2>3
  <2>5. IsSeq(k) /\ Len(k) = Len(t)
    BY <2>2, <2>4, FunctionIsSeq
  <2>6. ASSUME NEW i \in 1 .. Len(t) PROVE IsPacket(k[i]) /\ k[i].bytes = t[i].bytes
    <3>1. IsPacket(t[i])
      BY <2>2 DEF Packets
    <3>2. k[i] = IF t[i].fr = fr THEN t[i] ELSE Outdated(t[i], went)
      BY <2>4
    <3>3. PICK x, y : x = t[i] /\ y = k[i]
      OBVIOUS
    <3>4. CASE x.fr = fr
      BY <3>1, <3>2, <3>3, <3>4
    <3>5. CASE x.fr # fr
      <4>1. y = [x EXCEPT !.latest = @ \ went] /\ IsPacket(x)
        BY <3>1, <3>2, <3>3, <3>5 DEF Outdated
      <4>2. IsPacket(y) /\ y.bytes = x.bytes
        BY <4>1 DEF IsPacket
      <4> QED BY <3>3, <4>2
    <3> QED BY <3>3, <3>4, <3>5
  <2>7. Packets(k)
    BY <2>5, <2>6 DEF Packets
  <2>8. Weighed(t)
    BY <2>2, PacketsWeighed
  <2>9. ChargedBytes(k) = ChargedBytes(t)
    BY <2>5, <2>6, <2>8, ChargedSame
  <2> QED BY <2>1, <2>3, <2>7, <2>9
<1> HIDE DEF kept
<1>9. IsClient(aged) /\ aged.tracked = kept
  <2>1. aged = [list |-> list, queued |-> cl.queued, acc |-> zero, tracked |-> kept, next |-> cl.next]
    <3>1. PICK x, z, k : x = list /\ z = zero /\ k = kept
      OBVIOUS
    <3>2. aged = [cl EXCEPT !.list = x, !.acc = z, !.tracked = k]
      BY <3>1
    <3> HIDE DEF aged
    <3> QED BY <1>2, <3>1, <3>2 DEF IsClient
  <2> HIDE DEF aged
  <2>2. /\ aged = [list |-> aged.list, queued |-> aged.queued, acc |-> aged.acc,
                   tracked |-> aged.tracked, next |-> aged.next]
        /\ aged.list = list /\ aged.acc = zero /\ aged.tracked = kept
    BY <2>1
  <2> QED BY <1>6, <1>7, <1>8, <2>2 DEF IsClient
<1> HIDE DEF aged
<1>10. Paid(swap, b, o, 0)
  BY <1>8, <1>9, ClientReplaced DEF cl
<1> HIDE DEF swap
<1>11. Weighed(done.packets) /\ ChargedBytes(done.packets) \in Nat
  BY <1>5 DEF FlushOK
<1>12. PICK n \in Nat : n = ChargedBytes(done.packets)
  BY <1>11
<1>13. PICK s : s = SendPackets(swap, p, done.packets, fr)
  OBVIOUS
<1>14. Paid(s, swap, o, n)
  BY <1>10, <1>11, <1>12, <1>13, SendPacketsBooks DEF Paid
<1>15. PICK left \in Nat : n + left = r /\ LeftOf(done) = left
  BY <1>5, <1>12 DEF FlushOK, LeftOf
<1>16. n <= r /\ n <= b.available /\ left = r - n
  BY <1>2, <1>15 DEF r, Lesser
<1>17. s.available = b.available - n
  <2>1. swap.available = b.available
    BY <1>2, <1>10 DEF Paid, Minus
  <2> QED BY <1>2, <1>14, <1>16, <2>1 DEF Paid, Minus
<1>18. done.refused \subseteq Entities /\ \A e \in done.refused : Overhead + Size[e] > r - n
  BY <1>5, <1>15, <1>16 DEF FlushOK
<1>19. /\ f.books = s /\ f.charged = n /\ f.refused = done.refused
       /\ f = [books |-> f.books, charged |-> f.charged, sent |-> f.sent, refused |-> f.refused]
  BY <1>1, <1>12, <1>13
<1> QED BY <1>14, <1>16, <1>17, <1>18, <1>19 DEF Flushed, Paid, r

--------------------------------------------------------------------------------
(* The parts of a budget *)

\* Division rounds down.
LEMMA Division ==
  ASSUME NEW x \in Nat, NEW w \in Nat, w > 0
  PROVE  x \div w \in Nat /\ (x \div w) * w <= x /\ x < (x \div w) * w + w
OBVIOUS

\* A common factor does not change the order.
LEMMA SmallerFactor ==
  ASSUME NEW x \in Int, NEW y \in Int, NEW w \in Nat, x * w < y * w
  PROVE  x < y
<1> SUFFICES ASSUME y <= x PROVE FALSE
  OBVIOUS
<1>1. PICK z \in Nat : x = y + z
  <2>1. x - y \in Nat /\ x = y + (x - y)
    OBVIOUS
  <2> QED BY <2>1
<1>2. x * w = y * w + z * w /\ z * w >= 0 /\ y * w \in Int /\ z * w \in Int
  BY <1>1
<1> QED BY <1>2

\* Parts by weight, rounded down, leave less than one for everybody.
LEMMA PartsSum ==
  ASSUME NEW w, Numbers(w), NEW n \in Nat, n = Len(w), n >= 1, \A i \in 1 .. n : w[i] > 0,
         NEW total \in Nat, NEW q, Len(q) = n,
         \A i \in 1 .. n : q[i] = (total * w[i]) \div Total(w)
  PROVE  Numbers(q) /\ Total(q) \in Nat /\ Total(q) <= total /\ total < Total(q) + n
<1>1. PICK a : Sums(a, w)
  BY SumsExist
<1>2. /\ a[0] = 0 /\ (\A i \in 0 .. n : a[i] \in Nat) /\ Total(w) = a[n]
      /\ \A i \in 1 .. n : a[i] = a[i - 1] + w[i]
  BY <1>1, TotalIsLast DEF Sums
<1>3. PICK all \in Nat : all = Total(w)
  BY <1>2
<1>4. all > 0
  <2>1. n \in 1 .. n /\ n - 1 \in 0 .. n
    OBVIOUS
  <2>2. PICK x \in Nat, y \in Nat : x = a[n - 1] /\ y = w[n]
    BY <1>2, <2>1 DEF Numbers
  <2>3. all = x + y /\ y > 0
    BY <1>2, <1>3, <2>1, <2>2
  <2> QED BY <2>3
<1>5. \A i \in 1 .. n : /\ q[i] \in Nat /\ q[i] * all <= total * w[i]
                        /\ total * w[i] < q[i] * all + all
  <2> SUFFICES ASSUME NEW i \in 1 .. n
               PROVE  q[i] \in Nat /\ q[i] * all <= total * w[i] /\ total * w[i] < q[i] * all + all
    OBVIOUS
  <2>1. PICK x \in Nat : x = total * w[i]
    BY DEF Numbers
  <2>2. q[i] = x \div all
    BY <1>3, <2>1
  <2>3. x \div all \in Nat /\ (x \div all) * all <= x /\ x < (x \div all) * all + all
    BY <1>4, Division
  <2> QED BY <2>1, <2>2, <2>3
<1>6. Numbers(q)
  BY <1>5 DEF Numbers
<1>7. PICK b : Sums(b, q)
  BY <1>6, SumsExist
<1>8. /\ b[0] = 0 /\ (\A i \in 0 .. n : b[i] \in Nat) /\ Total(q) = b[n]
      /\ \A i \in 1 .. n : b[i] = b[i - 1] + q[i]
  BY <1>6, <1>7, TotalIsLast DEF Sums
<1> DEFINE P(i) == /\ b[i] * all <= total * a[i] /\ total * a[i] <= (b[i] + i) * all
                   /\ (i > 0 => total * a[i] < (b[i] + i) * all)
           K == {i \in Nat : i <= n => P(i)}
<1>9. P(0)
  BY <1>2, <1>8
<1>10. ASSUME NEW k \in Nat, k + 1 <= n, P(k) PROVE P(k + 1)
  <2>1. k + 1 \in 1 .. n /\ (k + 1) - 1 = k /\ k \in 0 .. n /\ k + 1 \in 0 .. n
    BY <1>10
  <2>2. PICK ak \in Nat, bk \in Nat, wk \in Nat, qk \in Nat :
          ak = a[k] /\ bk = b[k] /\ wk = w[k + 1] /\ qk = q[k + 1]
    BY <1>2, <1>5, <1>8, <2>1 DEF Numbers
  <2>3. a[k + 1] = ak + wk /\ b[k + 1] = bk + qk
    BY <1>2, <1>8, <2>1, <2>2
  <2>4. qk * all <= total * wk /\ total * wk < qk * all + all
    BY <1>5, <2>1, <2>2
  <2>5. bk * all <= total * ak /\ total * ak <= (bk + k) * all
    BY <1>10, <2>2
  <2>6. PICK c1 \in Nat, c2 \in Nat, c3 \in Nat, c4 \in Nat, c5 \in Nat :
          /\ c1 = total * ak /\ c2 = total * wk /\ c3 = bk * all /\ c4 = qk * all /\ c5 = k * all
    OBVIOUS
  <2>7. /\ total * (ak + wk) = c1 + c2 /\ (bk + qk) * all = c3 + c4
        /\ ((bk + qk) + (k + 1)) * all = c3 + c4 + c5 + all /\ (bk + k) * all = c3 + c5
    BY <2>6
  <2>8. c4 <= c2 /\ c2 < c4 + all /\ c3 <= c1 /\ c1 <= c3 + c5
    BY <2>4, <2>5, <2>6, <2>7
  <2>9. c3 + c4 <= c1 + c2 /\ c1 + c2 < c3 + c4 + c5 + all
    BY <2>8
  <2> QED BY <2>3, <2>7, <2>9
<1> HIDE DEF P
<1>11. K = Nat
  <2>1. 0 \in K /\ (\A k \in K : k + 1 \in K) /\ K \in SUBSET Nat
    BY <1>9, <1>10
  <2> HIDE DEF K
  <2> QED BY <2>1, Induct
<1>12. P(n)
  BY <1>11
<1>13. PICK s \in Nat : s = b[n]
  BY <1>8
<1>14. s * all <= total * all /\ total * all < (s + n) * all
  BY <1>2, <1>3, <1>12, <1>13 DEF P
<1>15. total < s + n
  BY <1>14, SmallerFactor
<1>16. s < total + 1
  <2>1. (total + 1) * all = total * all + all /\ total * all \in Nat /\ s * all \in Nat
    OBVIOUS
  <2>2. s * all < (total + 1) * all
    BY <1>4, <1>14, <2>1
  <2> QED BY <2>2, SmallerFactor
<1> QED BY <1>6, <1>8, <1>13, <1>15, <1>16

\* The allowances of a round are what is available.
LEMMA AllowancesSum ==
  ASSUME NEW order, IsSeq(order), NEW n \in Nat, n = Len(order), n >= 1,
         \A i \in 1 .. n : order[i] \in Participants,
         NEW total \in Nat, NEW part, part = Allowances(order, total)
  PROVE  Numbers(part) /\ Len(part) = n /\ Total(part) = total
<1>1. PICK w : w = [i \in DOMAIN order |-> Weight[order[i]]]
  OBVIOUS
<1>2. PICK q : q = [i \in DOMAIN order |-> (total * Weight[order[i]]) \div Total(w)]
  OBVIOUS
<1>3. part = [i \in DOMAIN order |-> q[i] + IF i <= total - Total(q) THEN 1 ELSE 0]
  BY <1>1, <1>2 DEF Allowances
<1>4. DOMAIN order = 1 .. n
  BY SeqOfElements
<1>5. /\ w = [i \in 1 .. n |-> w[i]] /\ q = [i \in 1 .. n |-> q[i]] /\ part = [i \in 1 .. n |-> part[i]]
      /\ \A i \in 1 .. n : w[i] = Weight[order[i]]
  BY <1>1, <1>2, <1>3, <1>4
<1>6. Len(w) = n /\ Len(q) = n /\ Len(part) = n
  BY <1>5, FunctionIsSeq
<1>7. Numbers(w) /\ \A i \in 1 .. n : w[i] > 0
  BY <1>5, <1>6, BandwidthAssumption, SMTT(30) DEF Numbers
<1>8. \A i \in 1 .. n : q[i] = (total * w[i]) \div Total(w)
  BY <1>2, <1>4, <1>5
<1>9. Numbers(q) /\ Total(q) \in Nat /\ Total(q) <= total /\ total < Total(q) + n
  BY <1>6, <1>7, <1>8, PartsSum
<1>10. PICK rest \in Nat : rest = total - Total(q) /\ rest <= n
  <2>1. PICK s \in Nat : s = Total(q)
    BY <1>9
  <2> QED BY <1>9, <2>1
<1>11. /\ \A i \in 1 .. n : q[i] \in Nat /\ part[i] = q[i] + IF i <= rest THEN 1 ELSE 0
       /\ Numbers(part)
  <2>1. \A i \in 1 .. n : q[i] \in Nat
    BY <1>6, <1>9 DEF Numbers
  <2>2. \A i \in 1 .. n : part[i] = q[i] + IF i <= rest THEN 1 ELSE 0
    BY <1>3, <1>4, <1>10
  <2> QED BY <1>6, <2>1, <2>2 DEF Numbers
<1>12. PICK a : Sums(a, q)
  BY <1>9, SumsExist
<1>13. PICK b : Sums(b, part)
  BY <1>11, SumsExist
<1>14. /\ a[0] = 0 /\ (\A i \in 0 .. n : a[i] \in Nat) /\ Total(q) = a[n]
       /\ \A i \in 1 .. n : a[i] = a[i - 1] + q[i]
  BY <1>6, <1>9, <1>12, TotalIsLast DEF Sums
<1>15. /\ b[0] = 0 /\ (\A i \in 0 .. n : b[i] \in Nat) /\ Total(part) = b[n]
       /\ \A i \in 1 .. n : b[i] = b[i - 1] + part[i]
  BY <1>6, <1>11, <1>13, TotalIsLast DEF Sums
<1> DEFINE P(i) == b[i] = a[i] + Lesser(i, rest)
           K == {i \in Nat : i <= n => P(i)}
<1>16. P(0)
  BY <1>14, <1>15 DEF Lesser
<1>17. ASSUME NEW k \in Nat, k + 1 <= n, P(k) PROVE P(k + 1)
  <2>1. k + 1 \in 1 .. n /\ (k + 1) - 1 = k /\ k \in 0 .. n
    BY <1>17
  <2>2. PICK x \in Nat, y \in Nat : x = q[k + 1] /\ y = a[k]
    BY <1>11, <1>14, <2>1
  <2>3. a[k + 1] = y + x /\ b[k + 1] = b[k] + part[k + 1] /\ b[k] = y + Lesser(k, rest)
    BY <1>14, <1>15, <1>17, <2>1, <2>2
  <2>4. part[k + 1] = x + IF k + 1 <= rest THEN 1 ELSE 0
    BY <1>11, <2>1, <2>2
  <2> QED BY <2>3, <2>4 DEF Lesser
<1> HIDE DEF P
<1>18. K = Nat
  <2>1. 0 \in K /\ (\A k \in K : k + 1 \in K) /\ K \in SUBSET Nat
    BY <1>16, <1>17
  <2> HIDE DEF K
  <2> QED BY <2>1, Induct
<1>19. P(n)
  BY <1>18
<1>20. Total(part) = Total(q) + rest
  BY <1>10, <1>14, <1>15, <1>19 DEF P, Lesser
<1> QED BY <1>6, <1>9, <1>10, <1>11, <1>20

--------------------------------------------------------------------------------
(* A round *)

\* Before the first member's flush.
NoFlush(b) == [books |-> b, charged |-> 0, leftover |-> 0, sent |-> Nothing, refused |-> Nothing]

\* The first pass over the members, up to the k-th.
FirstUpTo(a, b, order, part, k) ==
  /\ a = [i \in 0 .. k |-> a[i]] /\ a[0] = NoFlush(b)
  /\ \A i \in 1 .. k : a[i] = FirstFlush(a[i - 1], order[i], part[i], NextFr(b.client[order[i]]))

\* It exists, by induction on the members.
LEMMA FirstExists ==
  ASSUME NEW b, NEW order, NEW part, NEW n \in Nat
  PROVE  \E a : FirstUpTo(a, b, order, part, n)
<1> DEFINE P(k) == \E a : FirstUpTo(a, b, order, part, k)
           K == {k \in Nat : P(k)}
<1>1. P(0)
  <2> DEFINE z == [i \in 0 .. 0 |-> NoFlush(b)]
  <2>1. z = [i \in 0 .. 0 |-> z[i]] /\ z[0] = NoFlush(b)
    OBVIOUS
  <2> HIDE DEF z
  <2>2. FirstUpTo(z, b, order, part, 0)
    BY <2>1 DEF FirstUpTo
  <2> QED BY <2>2
<1>2. ASSUME NEW k \in Nat, P(k) PROVE P(k + 1)
  <2>1. PICK a : FirstUpTo(a, b, order, part, k)
    BY <1>2
  <2>2. PICK v : v = FirstFlush(a[k], order[k + 1], part[k + 1], NextFr(b.client[order[k + 1]]))
    OBVIOUS
  <2> DEFINE c == [i \in 0 .. (k + 1) |-> IF i = k + 1 THEN v ELSE a[i]]
  <2>3. c = [i \in 0 .. (k + 1) |-> c[i]] /\ c[0] = NoFlush(b) /\ c[k + 1] = v /\ c[k] = a[k]
    BY <2>1 DEF FirstUpTo
  <2>4. \A i \in 1 .. k : c[i] = a[i] /\ c[i - 1] = a[i - 1]
    OBVIOUS
  <2> HIDE DEF c
  <2>5. \A i \in 1 .. (k + 1) : c[i] = FirstFlush(c[i - 1], order[i], part[i], NextFr(b.client[order[i]]))
    <3> SUFFICES ASSUME NEW i \in 1 .. (k + 1) PROVE c[i] = FirstFlush(c[i - 1], order[i], part[i], NextFr(b.client[order[i]]))
      OBVIOUS
    <3>1. CASE i = k + 1
      <4>1. i - 1 = k
        BY <3>1
      <4> QED BY <2>2, <2>3, <3>1, <4>1
    <3>2. CASE i \in 1 .. k
      BY <2>1, <2>4, <3>2 DEF FirstUpTo
    <3> QED BY <3>1, <3>2
  <2>6. FirstUpTo(c, b, order, part, k + 1)
    BY <2>3, <2>5 DEF FirstUpTo
  <2> QED BY <2>6
<1> HIDE DEF P
<1>3. K = Nat
  <2>1. 0 \in K /\ (\A k \in K : k + 1 \in K) /\ K \in SUBSET Nat
    BY <1>1, <1>2
  <2> HIDE DEF K
  <2> QED BY <2>1, Induct
<1>4. P(n)
  BY <1>3
<1> QED BY <1>4 DEF P

\* That is what FirstPass goes through.
LEMMA FirstSteps ==
  ASSUME NEW b, NEW order, NEW part, part = Allowances(order, b.available), NEW n \in Nat, n = Len(order)
  PROVE  \E a : FirstUpTo(a, b, order, part, n) /\ FirstPass(b, order) = a[n]
<1> DEFINE Eq(a) == a = [i \in 0 .. n |-> IF i = 0 THEN NoFlush(b) ELSE FirstFlush(a[i - 1], order[i], part[i], NextFr(b.client[order[i]]))]
           a == CHOOSE a : Eq(a)
<1>1. PICK c : FirstUpTo(c, b, order, part, n)
  BY FirstExists
<1>2. Eq(c)
  <2>1. \A i \in 0 .. n : c[i] = IF i = 0 THEN NoFlush(b) ELSE FirstFlush(c[i - 1], order[i], part[i], NextFr(b.client[order[i]]))
    <3> SUFFICES ASSUME NEW i \in 0 .. n
                 PROVE  c[i] = IF i = 0 THEN NoFlush(b) ELSE FirstFlush(c[i - 1], order[i], part[i], NextFr(b.client[order[i]]))
      OBVIOUS
    <3>1. CASE i = 0
      BY <1>1, <3>1 DEF FirstUpTo
    <3>2. CASE i # 0
      <4>1. i \in 1 .. n
        BY <3>2
      <4> QED BY <1>1, <3>2, <4>1 DEF FirstUpTo
    <3> QED BY <3>1, <3>2
  <2>2. c = [i \in 0 .. n |-> c[i]]
    BY <1>1 DEF FirstUpTo
  <2> QED BY <2>1, <2>2
<1>3. Eq(a)
  BY <1>2, Zenon
<1>4. FirstPass(b, order) = a[n]
  BY Zenon DEF FirstPass, NoFlush
<1> HIDE DEF a
<1>5. FirstUpTo(a, b, order, part, n)
  <2>1. a[0] = NoFlush(b) /\ a = [i \in 0 .. n |-> a[i]]
    BY <1>3
  <2>2. \A i \in 1 .. n : a[i] = FirstFlush(a[i - 1], order[i], part[i], NextFr(b.client[order[i]]))
    BY <1>3
  <2> HIDE DEF Eq
  <2> QED BY <2>1, <2>2 DEF FirstUpTo
<1> QED BY <1>4, <1>5

\* The second pass over the members, up to the k-th.
SecondUpTo(a, first, b, order, k) ==
  /\ a = [i \in 0 .. k |-> a[i]] /\ a[0] = first
  /\ \A i \in 1 .. k : a[i] = SecondFlush(a[i - 1], order[i], first.refused[order[i]] # {}, NextFr(b.client[order[i]]))

\* It exists, by induction on the members.
LEMMA SecondExists ==
  ASSUME NEW first, NEW b, NEW order, NEW n \in Nat
  PROVE  \E a : SecondUpTo(a, first, b, order, n)
<1> DEFINE P(k) == \E a : SecondUpTo(a, first, b, order, k)
           K == {k \in Nat : P(k)}
<1>1. P(0)
  <2> DEFINE z == [i \in 0 .. 0 |-> first]
  <2>1. z = [i \in 0 .. 0 |-> z[i]] /\ z[0] = first
    OBVIOUS
  <2> HIDE DEF z
  <2>2. SecondUpTo(z, first, b, order, 0)
    BY <2>1 DEF SecondUpTo
  <2> QED BY <2>2
<1>2. ASSUME NEW k \in Nat, P(k) PROVE P(k + 1)
  <2>1. PICK a : SecondUpTo(a, first, b, order, k)
    BY <1>2
  <2>2. PICK v : v = SecondFlush(a[k], order[k + 1], first.refused[order[k + 1]] # {}, NextFr(b.client[order[k + 1]]))
    OBVIOUS
  <2> DEFINE c == [i \in 0 .. (k + 1) |-> IF i = k + 1 THEN v ELSE a[i]]
  <2>3. c = [i \in 0 .. (k + 1) |-> c[i]] /\ c[0] = first /\ c[k + 1] = v /\ c[k] = a[k]
    BY <2>1 DEF SecondUpTo
  <2>4. \A i \in 1 .. k : c[i] = a[i] /\ c[i - 1] = a[i - 1]
    OBVIOUS
  <2> HIDE DEF c
  <2>5. \A i \in 1 .. (k + 1) : c[i] = SecondFlush(c[i - 1], order[i], first.refused[order[i]] # {}, NextFr(b.client[order[i]]))
    <3> SUFFICES ASSUME NEW i \in 1 .. (k + 1) PROVE c[i] = SecondFlush(c[i - 1], order[i], first.refused[order[i]] # {}, NextFr(b.client[order[i]]))
      OBVIOUS
    <3>1. CASE i = k + 1
      <4>1. i - 1 = k
        BY <3>1
      <4> QED BY <2>2, <2>3, <3>1, <4>1
    <3>2. CASE i \in 1 .. k
      BY <2>1, <2>4, <3>2 DEF SecondUpTo
    <3> QED BY <3>1, <3>2
  <2>6. SecondUpTo(c, first, b, order, k + 1)
    BY <2>3, <2>5 DEF SecondUpTo
  <2> QED BY <2>6
<1> HIDE DEF P
<1>3. K = Nat
  <2>1. 0 \in K /\ (\A k \in K : k + 1 \in K) /\ K \in SUBSET Nat
    BY <1>1, <1>2
  <2> HIDE DEF K
  <2> QED BY <2>1, Induct
<1>4. P(n)
  BY <1>3
<1> QED BY <1>4 DEF P

\* That is what SecondPass goes through.
LEMMA SecondSteps ==
  ASSUME NEW first, NEW b, NEW order, NEW n \in Nat, n = Len(order)
  PROVE  \E a : SecondUpTo(a, first, b, order, n) /\ SecondPass(first, b, order) = a[n]
<1> DEFINE Eq(a) == a = [i \in 0 .. n |-> IF i = 0 THEN first ELSE SecondFlush(a[i - 1], order[i], first.refused[order[i]] # {}, NextFr(b.client[order[i]]))]
           a == CHOOSE a : Eq(a)
<1>1. PICK c : SecondUpTo(c, first, b, order, n)
  BY SecondExists
<1>2. Eq(c)
  <2>1. \A i \in 0 .. n : c[i] = IF i = 0 THEN first ELSE SecondFlush(c[i - 1], order[i], first.refused[order[i]] # {}, NextFr(b.client[order[i]]))
    <3> SUFFICES ASSUME NEW i \in 0 .. n
                 PROVE  c[i] = IF i = 0 THEN first ELSE SecondFlush(c[i - 1], order[i], first.refused[order[i]] # {}, NextFr(b.client[order[i]]))
      OBVIOUS
    <3>1. CASE i = 0
      BY <1>1, <3>1 DEF SecondUpTo
    <3>2. CASE i # 0
      <4>1. i \in 1 .. n
        BY <3>2
      <4> QED BY <1>1, <3>2, <4>1 DEF SecondUpTo
    <3> QED BY <3>1, <3>2
  <2>2. c = [i \in 0 .. n |-> c[i]]
    BY <1>1 DEF SecondUpTo
  <2> QED BY <2>1, <2>2
<1>3. Eq(a)
  BY <1>2, Zenon
<1>4. SecondPass(first, b, order) = a[n]
  BY Zenon DEF SecondPass
<1> HIDE DEF a
<1>5. SecondUpTo(a, first, b, order, n)
  <2>1. a[0] = first /\ a = [i \in 0 .. n |-> a[i]]
    BY <1>3
  <2>2. ASSUME NEW i \in 1 .. n
        PROVE  a[i] = SecondFlush(a[i - 1], order[i], first.refused[order[i]] # {}, NextFr(b.client[order[i]]))
    <3>1. i \in 0 .. n /\ i # 0
      OBVIOUS
    <3> QED BY <1>3, <3>1, Zenon
  <2> HIDE DEF Eq
  <2> QED BY <2>1, <2>2 DEF SecondUpTo
<1> QED BY <1>4, <1>5

\* Sums grow.
LEMMA SumsGrow ==
  ASSUME NEW v, Numbers(v), NEW a, Sums(a, v), NEW n \in Nat, n = Len(v)
  PROVE  \A i \in 0 .. n : a[i] <= a[n]
<1> DEFINE K == {i \in Nat : i <= n => a[n - i] <= a[n]}
<1>1. (\A i \in 0 .. n : a[i] \in Nat) /\ \A i \in 1 .. n : a[i] = a[i - 1] + v[i] /\ v[i] \in Nat
  BY DEF Sums, Numbers
<1>2. 0 \in K
  BY <1>1
<1>3. ASSUME NEW k \in K PROVE k + 1 \in K
  <2> SUFFICES ASSUME k + 1 <= n PROVE a[n - (k + 1)] <= a[n]
    OBVIOUS
  <2>1. /\ k \in Nat /\ n - k \in 1 .. n /\ (n - k) - 1 = n - (k + 1) /\ n - (k + 1) \in 0 .. n
        /\ n - k \in 0 .. n /\ n \in 0 .. n
    OBVIOUS
  <2>2. PICK x \in Nat, y \in Nat, z \in Nat, l \in Nat :
          x = a[n - k] /\ y = a[n - (k + 1)] /\ z = v[n - k] /\ l = a[n]
    BY <1>1, <2>1
  <2>3. x = y + z /\ x <= l
    <3>1. k <= n /\ a[n - k] <= a[n]
      BY <2>1
    <3> QED BY <1>1, <2>1, <2>2, <3>1
  <2> QED BY <2>2, <2>3
<1>4. K = Nat
  <2>1. K \in SUBSET Nat
    OBVIOUS
  <2> HIDE DEF K
  <2> QED BY <1>2, <1>3, <2>1, Induct
<1> SUFFICES ASSUME NEW i \in 0 .. n PROVE a[i] <= a[n]
  OBVIOUS
<1>5. n - i \in Nat /\ n - i <= n /\ n - (n - i) = i
  OBVIOUS
<1> QED BY <1>4, <1>5

\* A round in progress that began with had bytes, s of which are still to be given
\* to somebody: it charged what is missing, and what is left over is there.
PassOK(r, o, had, s) ==
  /\ IsBooks(r.books) /\ Accounted(r.books, o)
  /\ r.charged \in Nat /\ r.charged + r.books.available = had
  /\ r.leftover \in Nat /\ r.leftover + s = r.books.available
  /\ r.refused \in [Participants -> SUBSET Entities]

\* A member flushes with its part.
LEMMA FirstFlushOK ==
  ASSUME NEW o \in Nat, NEW had \in Nat, NEW s \in Nat, NEW r, PassOK(r, o, had, s),
         NEW p \in Participants, NEW part \in Nat, part <= s, NEW fr,
         NEW d, d = FirstFlush(r, p, part, fr)
  PROVE  /\ PassOK(d, o, had, s - part)
         /\ \A q \in Participants \ {p} : d.refused[q] = r.refused[q]
<1>1. PICK f : f = Flush(r.books, p, part, fr)
  OBVIOUS
<1>2. d = [books |-> f.books, charged |-> r.charged + f.charged,
           leftover |-> r.leftover + Minus(part, f.charged),
           sent |-> [r.sent EXCEPT ![p] = f.sent], refused |-> [r.refused EXCEPT ![p] = f.refused]]
  BY <1>1 DEF FirstFlush
<1>3. Flushed(f, r.books, o, part)
  BY <1>1, FlushBooks DEF PassOK
<1>4. PICK x \in Nat, c \in Nat, rc \in Nat, rl \in Nat :
        x = r.books.available /\ c = f.charged /\ rc = r.charged /\ rl = r.leftover
  BY <1>3 DEF PassOK, IsBooks, Flushed
<1>5. rc + x = had /\ rl + s = x
  BY <1>4 DEF PassOK
<1>6. c <= part /\ f.books.available = x - c
  BY <1>3, <1>4, <1>5 DEF Flushed, Lesser
<1>7. d.books = f.books /\ d.charged = rc + c /\ d.leftover = rl + Minus(part, c)
      /\ d.refused = [r.refused EXCEPT ![p] = f.refused]
  BY <1>2, <1>4
<1>8. Minus(part, c) = part - c
  BY <1>6 DEF Minus
<1>9. /\ d.charged \in Nat /\ d.charged + d.books.available = had
      /\ d.leftover \in Nat /\ d.leftover + (s - part) = d.books.available
  BY <1>5, <1>6, <1>7, <1>8
<1>10. d.refused \in [Participants -> SUBSET Entities]
  BY <1>3, <1>7 DEF PassOK, Flushed
<1>11. \A q \in Participants \ {p} : d.refused[q] = r.refused[q]
  BY <1>7 DEF PassOK
<1>12. IsBooks(d.books) /\ Accounted(d.books, o)
  BY <1>3, <1>7 DEF Flushed
<1> QED BY <1>9, <1>10, <1>11, <1>12 DEF PassOK

\* The first pass gives all there is, and refuses only members.
LEMMA FirstPassOK ==
  ASSUME NEW b, IsBooks(b), NEW o \in Nat, Accounted(b, o), NEW order, IsSeq(order),
         NEW n \in Nat, n = Len(order), n >= 1, \A i \in 1 .. n : order[i] \in Participants,
         NEW r, r = FirstPass(b, order)
  PROVE  /\ PassOK(r, o, b.available, 0)
         /\ \A q \in Participants : r.refused[q] # {} => \E j \in 1 .. n : order[j] = q
<1>1. PICK had \in Nat : had = b.available
  BY DEF IsBooks
<1>2. PICK part : part = Allowances(order, b.available)
  OBVIOUS
<1>3. Numbers(part) /\ Len(part) = n /\ Total(part) = had
  BY <1>1, <1>2, AllowancesSum
<1>4. PICK a : FirstUpTo(a, b, order, part, n) /\ r = a[n]
  BY <1>2, FirstSteps
<1>5. /\ a[0] = NoFlush(b)
      /\ \A i \in 1 .. n : a[i] = FirstFlush(a[i - 1], order[i], part[i], NextFr(b.client[order[i]]))
  BY <1>4 DEF FirstUpTo
<1>6. PICK c : Sums(c, part)
  BY <1>3, SumsExist
<1>7. /\ c[0] = 0 /\ (\A i \in 0 .. n : c[i] \in Nat) /\ c[n] = had
      /\ \A i \in 1 .. n : c[i] = c[i - 1] + part[i]
  BY <1>3, <1>6, TotalIsLast DEF Sums
<1>8. \A i \in 0 .. n : c[i] <= had
  BY <1>3, <1>6, <1>7, SumsGrow
<1> DEFINE P(i) == /\ PassOK(a[i], o, had, had - c[i])
                   /\ \A q \in Participants : a[i].refused[q] # {} => \E j \in 1 .. i : order[j] = q
           K == {i \in Nat : i <= n => P(i)}
<1>9. P(0)
  <2>1. PICK z : z = a[0]
    OBVIOUS
  <2>2. z.books = b /\ z.charged = 0 /\ z.leftover = 0 /\ z.refused = [p \in Participants |-> {}]
    BY <1>5, <2>1 DEF NoFlush, Nothing
  <2>3. z.refused \in [Participants -> SUBSET Entities] /\ \A q \in Participants : z.refused[q] = {}
    BY <2>2
  <2>4. had - c[0] = had
    BY <1>7
  <2> QED BY <1>1, <2>1, <2>2, <2>3, <2>4 DEF PassOK
<1>10. ASSUME NEW k \in Nat, k + 1 <= n, P(k) PROVE P(k + 1)
  <2>1. k + 1 \in 1 .. n /\ (k + 1) - 1 = k /\ k \in 0 .. n /\ k + 1 \in 0 .. n
    BY <1>10
  <2>2. PICK x : x = a[k]
    OBVIOUS
  <2>3. PICK y : y = a[k + 1]
    OBVIOUS
  <2>4. PICK p \in Participants : p = order[k + 1]
    BY <2>1
  <2>5. PICK m \in Nat, t \in Nat, u \in Nat : m = part[k + 1] /\ t = c[k] /\ u = c[k + 1]
    BY <1>3, <1>7, <2>1 DEF Numbers
  <2>6. PICK fr : fr = NextFr(b.client[order[k + 1]])
    OBVIOUS
  <2>7. y = FirstFlush(x, p, m, fr)
    BY <1>5, <2>1, <2>2, <2>3, <2>4, <2>5, <2>6
  <2>8. u = t + m /\ u <= had
    BY <1>7, <1>8, <2>1, <2>5
  <2>9. PICK s \in Nat : s = had - t
    BY <2>8
  <2>10. m <= s /\ s - m = had - u
    BY <2>8, <2>9
  <2>11. PassOK(x, o, had, s) /\ \A q \in Participants : x.refused[q] # {} => \E j \in 1 .. k : order[j] = q
    BY <1>10, <2>2, <2>5, <2>9
  <2>12. PassOK(y, o, had, s - m) /\ \A q \in Participants \ {p} : y.refused[q] = x.refused[q]
    BY <2>7, <2>10, <2>11, FirstFlushOK
  <2>13. ASSUME NEW q \in Participants, y.refused[q] # {} PROVE \E j \in 1 .. (k + 1) : order[j] = q
    <3>1. CASE q = p
      BY <2>1, <2>4, <3>1
    <3>2. CASE q # p
      <4>1. x.refused[q] # {}
        BY <2>12, <2>13, <3>2
      <4>2. PICK j \in 1 .. k : order[j] = q
        BY <2>11, <4>1
      <4>3. j \in 1 .. (k + 1)
        OBVIOUS
      <4> QED BY <4>2, <4>3
    <3> QED BY <3>1, <3>2
  <2>14. PassOK(a[k + 1], o, had, had - c[k + 1])
    BY <2>3, <2>5, <2>10, <2>12
  <2> QED BY <2>3, <2>13, <2>14
<1> HIDE DEF P
<1>11. K = Nat
  <2>1. 0 \in K /\ (\A k \in K : k + 1 \in K) /\ K \in SUBSET Nat
    BY <1>9, <1>10
  <2> HIDE DEF K
  <2> QED BY <2>1, Induct
<1>12. P(n)
  BY <1>11
<1>13. had - c[n] = 0
  BY <1>7
<1> QED BY <1>1, <1>4, <1>12, <1>13 DEF P

\* Nothing that was refused q would fit what is available.
Short(r, q) == \A e \in r.refused[q] : Overhead + Size[e] > r.books.available

\* A member tries again: it and those that are short stay so.
LEMMA SecondFlushOK ==
  ASSUME NEW o \in Nat, NEW had \in Nat, NEW r, PassOK(r, o, had, 0),
         NEW p \in Participants, NEW again \in BOOLEAN, NEW fr, NEW d, d = SecondFlush(r, p, again, fr)
  PROVE  /\ PassOK(d, o, had, 0) /\ (~again => d = r) /\ (again => Short(d, p))
         /\ \A q \in Participants \ {p} : d.refused[q] = r.refused[q] /\ (Short(r, q) => Short(d, q))
<1>1. PICK f : f = Flush(r.books, p, r.leftover, fr)
  OBVIOUS
<1>2. d = IF r.leftover = 0 \/ ~again THEN r
          ELSE [books |-> f.books, charged |-> r.charged + f.charged,
                leftover |-> Minus(r.leftover, f.charged),
                sent |-> [r.sent EXCEPT ![p] = @ \cup f.sent],
                refused |-> [r.refused EXCEPT ![p] = f.refused]]
  BY <1>1, Zenon DEF SecondFlush
<1>3. PICK x \in Nat, rc \in Nat :
        x = r.books.available /\ rc = r.charged /\ x = r.leftover /\ rc + x = had
  BY DEF PassOK, IsBooks
<1>4. CASE ~again
  <2>1. d = r
    BY <1>2, <1>4
  <2> QED BY <1>4, <2>1
<1>5. CASE again /\ r.leftover = 0
  <2>1. d = r
    BY <1>2, <1>5
  <2>2. \A e \in Entities : Overhead + Size[e] > 0
    BY BandwidthAssumption
  <2>3. r.refused[p] \subseteq Entities
    BY DEF PassOK
  <2>4. Short(r, p)
    BY <1>3, <1>5, <2>2, <2>3 DEF Short
  <2> QED BY <1>5, <2>1, <2>4
<1>6. CASE again /\ r.leftover # 0
  <2>1. d = [books |-> f.books, charged |-> r.charged + f.charged,
             leftover |-> Minus(r.leftover, f.charged),
             sent |-> [r.sent EXCEPT ![p] = @ \cup f.sent],
             refused |-> [r.refused EXCEPT ![p] = f.refused]]
    BY <1>2, <1>6
  <2>2. IsBooks(r.books) /\ Accounted(r.books, o) /\ r.leftover \in Nat
    BY DEF PassOK
  <2>3. Flushed(f, r.books, o, r.leftover)
    BY <1>1, <2>2, FlushBooks
  <2>4. PICK c \in Nat : c = f.charged
    BY <2>3 DEF Flushed
  <2>5. Lesser(r.books.available, r.leftover) = x
    BY <1>3 DEF Lesser
  <2>6. c <= x /\ f.books.available = x - c /\ \A e \in f.refused : Overhead + Size[e] > x - c
    BY <1>3, <2>3, <2>4, <2>5 DEF Flushed
  <2>7. /\ d.books = f.books /\ d.charged = rc + c /\ d.leftover = Minus(x, c)
        /\ d.refused = [r.refused EXCEPT ![p] = f.refused]
    BY <1>3, <2>1, <2>4
  <2>8. Minus(x, c) = x - c
    BY <2>6 DEF Minus
  <2>9. /\ d.charged \in Nat /\ d.charged + d.books.available = had
        /\ d.leftover \in Nat /\ d.leftover + 0 = d.books.available
    BY <1>3, <2>6, <2>7, <2>8
  <2>10. r.refused \in [Participants -> SUBSET Entities] /\ f.refused \in SUBSET Entities
    BY <2>3 DEF PassOK, Flushed
  <2>11. d.refused \in [Participants -> SUBSET Entities] /\ d.refused[p] = f.refused
         /\ \A q \in Participants \ {p} : d.refused[q] = r.refused[q]
    BY <2>7, <2>10
  <2>12. IsBooks(d.books) /\ Accounted(d.books, o)
    BY <2>3, <2>7 DEF Flushed
  <2>13. PassOK(d, o, had, 0)
    BY <2>9, <2>11, <2>12 DEF PassOK
  <2>14. Short(d, p)
    BY <2>6, <2>7, <2>11 DEF Short
  <2>15. ASSUME NEW q \in Participants \ {p}, Short(r, q) PROVE Short(d, q)
    <3>1. d.refused[q] = r.refused[q] /\ r.refused[q] \subseteq Entities
      BY <2>10, <2>11
    <3>2. ASSUME NEW e \in r.refused[q] PROVE Overhead + Size[e] > x - c
      <4>1. Overhead + Size[e] > x
        BY <1>3, <2>15 DEF Short
      <4>2. Overhead \in Nat /\ Size[e] \in Nat
        BY <3>1, BandwidthAssumption
      <4> QED BY <4>1, <4>2
    <3> QED BY <2>6, <2>7, <3>1, <3>2 DEF Short
  <2> QED BY <1>6, <2>11, <2>13, <2>14, <2>15
<1> QED BY <1>4, <1>5, <1>6

\* After the second pass everybody that was refused something is short.
LEMMA SecondPassOK ==
  ASSUME NEW o \in Nat, NEW had \in Nat, NEW first, PassOK(first, o, had, 0), NEW b, NEW order, IsSeq(order),
         NEW n \in Nat, n = Len(order), \A i \in 1 .. n : order[i] \in Participants,
         \A q \in Participants : first.refused[q] # {} => \E j \in 1 .. n : order[j] = q,
         NEW r, r = SecondPass(first, b, order)
  PROVE  PassOK(r, o, had, 0) /\ \A q \in Participants : Short(r, q)
<1>1. PICK a : SecondUpTo(a, first, b, order, n) /\ r = a[n]
  BY SecondSteps
<1>2. a[0] = first
  BY <1>1 DEF SecondUpTo
<1> DEFINE P(i) == /\ PassOK(a[i], o, had, 0)
                   /\ \A q \in Participants : a[i].refused[q] # {} => first.refused[q] # {}
                   /\ \A q \in Participants : (\E j \in 1 .. i : order[j] = q) => Short(a[i], q)
           K == {i \in Nat : i <= n => P(i)}
<1>3. P(0)
  BY <1>2
<1>4. ASSUME NEW k \in Nat, k + 1 <= n, P(k) PROVE P(k + 1)
  <2>1. k + 1 \in 1 .. n /\ (k + 1) - 1 = k
    BY <1>4, SMTT(30)
  <2>2. PICK x : x = a[k]
    OBVIOUS
  <2>3. PICK y : y = a[k + 1]
    OBVIOUS
  <2>4. PICK p \in Participants : p = order[k + 1]
    BY <2>1
  <2>5. PICK again \in BOOLEAN : again <=> first.refused[p] # {}
    OBVIOUS
  <2>6. PICK fr : fr = NextFr(b.client[order[k + 1]])
    OBVIOUS
  <2>7. y = SecondFlush(x, p, again, fr)
    <3>1. a[k + 1] = SecondFlush(a[k], order[k + 1], first.refused[order[k + 1]] # {},
                                 NextFr(b.client[order[k + 1]]))
      <4>1. \A i \in 1 .. n :
              a[i] = SecondFlush(a[i - 1], order[i], first.refused[order[i]] # {}, NextFr(b.client[order[i]]))
        BY <1>1, Zenon DEF SecondUpTo
      <4> QED BY <2>1, <4>1, Zenon
    <3>2. again = (first.refused[order[k + 1]] # {})
      BY <2>4, <2>5
    <3> QED BY <2>2, <2>3, <2>4, <2>6, <3>1, <3>2, Zenon
  <2>8. /\ PassOK(x, o, had, 0)
        /\ \A q \in Participants : x.refused[q] # {} => first.refused[q] # {}
        /\ \A q \in Participants : (\E j \in 1 .. k : order[j] = q) => Short(x, q)
    BY <1>4, <2>2
  <2>9. /\ PassOK(y, o, had, 0) /\ (~again => y = x) /\ (again => Short(y, p))
        /\ \A q \in Participants \ {p} : y.refused[q] = x.refused[q] /\ (Short(x, q) => Short(y, q))
    BY <2>7, <2>8, SecondFlushOK
  <2>10. ASSUME NEW q \in Participants, y.refused[q] # {} PROVE first.refused[q] # {}
    <3>1. CASE q = p
      <4>1. CASE again
        BY <2>5, <3>1, <4>1
      <4>2. CASE ~again
        BY <2>8, <2>9, <2>10, <4>2
      <4> QED BY <4>1, <4>2
    <3>2. CASE q # p
      BY <2>8, <2>9, <2>10, <3>2
    <3> QED BY <3>1, <3>2
  <2>11. ASSUME NEW q \in Participants, \E j \in 1 .. (k + 1) : order[j] = q PROVE Short(y, q)
    <3>1. CASE q = p /\ again
      BY <2>9, <3>1
    <3>2. CASE q = p /\ ~again
      <4>1. y.refused[q] = {}
        BY <2>5, <2>8, <2>9, <3>2
      <4> QED BY <4>1 DEF Short
    <3>3. CASE q # p
      <4>1. PICK j \in 1 .. (k + 1) : order[j] = q
        BY <2>11
      <4>2. j \in 1 .. k
        BY <2>4, <3>3, <4>1
      <4>3. Short(x, q)
        BY <2>8, <4>1, <4>2
      <4> QED BY <2>9, <3>3, <4>3
    <3> QED BY <3>1, <3>2, <3>3
  <2> QED BY <2>3, <2>9, <2>10, <2>11
<1> HIDE DEF P
<1>5. K = Nat
  <2>1. 0 \in K /\ (\A k \in K : k + 1 \in K) /\ K \in SUBSET Nat
    BY <1>3, <1>4
  <2> HIDE DEF K
  <2> QED BY <2>1, Induct
<1>6. P(n)
  BY <1>5
<1>7. ASSUME NEW q \in Participants PROVE Short(r, q)
  <2>1. CASE r.refused[q] = {}
    BY <2>1 DEF Short
  <2>2. CASE r.refused[q] # {}
    BY <1>1, <1>6, <2>2 DEF P
  <2> QED BY <2>1, <2>2
<1> QED BY <1>1, <1>6, <1>7 DEF P

\* A round of some members keeps the accounts, charges what is missing from what
\* it had, and leaves everybody short that was refused something.
RoundOK(r, b, o) ==
  /\ IsBooks(r.books) /\ Accounted(r.books, o)
  /\ r.charged \in Nat /\ r.charged + r.books.available = b.available
  /\ \A q \in Participants : \A e \in r.refused[q] : Overhead + Size[e] > r.books.available

LEMMA RoundKeepsBudget ==
  ASSUME NEW b, IsBooks(b), NEW o \in Nat, Accounted(b, o), NEW ms, IsSeq(ms), ms # <<>>,
         \A i \in 1 .. Len(ms) : ms[i] \in Participants, NEW r, r = Round(b, ms)
  PROVE  RoundOK(r, b, o)
<1>1. PICK n \in Nat : n = Len(ms) /\ n >= 1
  <2>1. Len(ms) \in Nat
    BY DEF IsSeq
  <2>2. Len(ms) # 0
    BY EmptyIsSeq, ms # <<>> DEF IsSeq
  <2> QED BY <2>1, <2>2
<1>2. CASE n = 1
  <2>1. PICK p \in Participants : p = ms[1]
    BY <1>1, <1>2
  <2>2. PICK f : f = Flush(b, p, b.available, NextFr(b.client[p]))
    OBVIOUS
  <2>3. r = [books |-> f.books, charged |-> f.charged, sent |-> [Nothing EXCEPT ![p] = f.sent],
             refused |-> [Nothing EXCEPT ![p] = f.refused]]
    BY <1>1, <1>2, <2>1, <2>2 DEF Round, Alone
  <2>4. PICK x \in Nat : x = b.available /\ Lesser(b.available, b.available) = x
    BY DEF IsBooks, Lesser
  <2>5. Flushed(f, b, o, x)
    BY <2>2, <2>4, FlushBooks
  <2>6. PICK c \in Nat : c = f.charged /\ c <= x /\ f.books.available = x - c
    BY <2>4, <2>5 DEF Flushed
  <2>7. r.books = f.books /\ r.charged = c /\ r.refused = [Nothing EXCEPT ![p] = f.refused]
    BY <2>3, <2>6
  <2>8. \A q \in Participants : \A e \in r.refused[q] : e \in f.refused
    <3>1. PICK g, h : g = r.refused /\ h = f.refused
      OBVIOUS
    <3>2. g = [Nothing EXCEPT ![p] = h]
      BY <2>7, <3>1
    <3>3. \A q \in Participants : g[q] = IF q = p THEN h ELSE {}
      BY <3>2 DEF Nothing
    <3> QED BY <3>1, <3>3
  <2>9. \A e \in f.refused : Overhead + Size[e] > x - c
    BY <2>4, <2>5, <2>6 DEF Flushed
  <2> QED BY <2>4, <2>5, <2>6, <2>7, <2>8, <2>9 DEF RoundOK, Flushed
<1>3. CASE n # 1 /\ b.available = 0
  <2>1. r = [books |-> b, charged |-> 0, sent |-> Nothing, refused |-> Nothing]
    BY <1>1, <1>3 DEF Round
  <2>2. r.books = b /\ r.charged = 0 /\ \A q \in Participants : r.refused[q] = {}
    BY <2>1 DEF Nothing
  <2> QED BY <1>3, <2>2 DEF RoundOK
<1>4. CASE n # 1 /\ b.available # 0
  <2>1. PICK order : order = Order(ms)
    OBVIOUS
  <2>2. PICK first : first = FirstPass(b, order)
    OBVIOUS
  <2>3. r = SecondPass(first, b, order)
    BY <1>1, <1>4, <2>1, <2>2 DEF Round
  <2>4. IsSeq(order) /\ Len(order) = n /\ \A k \in 1 .. n : order[k] \in Participants
    BY <1>1, <2>1, OrderOfMembers
  <2>5. PICK had \in Nat : had = b.available
    BY DEF IsBooks
  <2>6. /\ PassOK(first, o, had, 0)
        /\ \A q \in Participants : first.refused[q] # {} => \E j \in 1 .. n : order[j] = q
    BY <1>1, <2>2, <2>4, <2>5, FirstPassOK
  <2>7. PassOK(r, o, had, 0) /\ \A q \in Participants : Short(r, q)
    BY <2>3, <2>4, <2>6, SecondPassOK
  <2> QED BY <2>5, <2>7 DEF RoundOK, PassOK, Short
<1> QED BY <1>2, <1>3, <1>4

--------------------------------------------------------------------------------
(* What the operations do with the books *)

\* Clients with the same bytes in flight.
LEMMA InFlightSame ==
  ASSUME NEW c, NEW d, \A q \in Participants : ChargedBytes(d[q].tracked) = ChargedBytes(c[q].tracked)
  PROVE  InFlight(d) = InFlight(c)
<1>1. \A i \in DOMAIN Roster : Roster[i] \in Participants
  BY RosterFacts
<1>2. [i \in DOMAIN Roster |-> ChargedBytes(d[Roster[i]].tracked)]
        = [i \in DOMAIN Roster |-> ChargedBytes(c[Roster[i]].tracked)]
  BY <1>1
<1> QED BY <1>2 DEF InFlight

\* Other numbers for the frames of the packets.
LEMMA RenumberedSame ==
  ASSUME NEW t, Packets(t), NEW u, u = Renumbered(t)
  PROVE  Packets(u) /\ ChargedBytes(u) = ChargedBytes(t)
<1>1. PICK n \in Nat : n = Len(t) /\ DOMAIN t = 1 .. n
  BY SeqOfElements DEF Packets, IsSeq
<1>2. PICK g : g = [i \in 1 .. n |->
                      Cardinality({f \in {t[j].fr : j \in DOMAIN t} : f < t[i].fr}) + 1]
  OBVIOUS
<1>3. u = [i \in 1 .. n |-> [t[i] EXCEPT !.fr = g[i]]]
  BY <1>1, <1>2 DEF Renumbered
<1>4. u = [i \in 1 .. n |-> u[i]]
  BY <1>3
<1>5. IsSeq(u) /\ Len(u) = n
  BY <1>4, FunctionIsSeq
<1>6. ASSUME NEW i \in 1 .. n PROVE IsPacket(u[i]) /\ u[i].bytes = t[i].bytes
  <2>1. PICK x, y, z : x = t[i] /\ y = u[i] /\ z = g[i]
    OBVIOUS
  <2>2. IsPacket(x) /\ y = [x EXCEPT !.fr = z]
    BY <1>1, <1>3, <2>1 DEF Packets
  <2>3. IsPacket(y) /\ y.bytes = x.bytes
    BY <2>2 DEF IsPacket
  <2> QED BY <2>1, <2>3
<1>7. Packets(u)
  BY <1>5, <1>6 DEF Packets
<1>8. ChargedBytes(u) = ChargedBytes(t)
  BY <1>1, <1>5, <1>6, PacketsWeighed, ChargedSame
<1> QED BY <1>7, <1>8

\* A client with other packets.
LEMMA OtherPackets ==
  ASSUME NEW cl, IsClient(cl), NEW t, Packets(t), NEW d, d = [cl EXCEPT !.tracked = t]
  PROVE  IsClient(d) /\ d.tracked = t
<1>1. d = [list |-> cl.list, queued |-> cl.queued, acc |-> cl.acc, tracked |-> t, next |-> cl.next]
  BY DEF IsClient
<1> QED BY <1>1 DEF IsClient

\* The packets of all clients are renumbered.
LEMMA RenumberedClients ==
  ASSUME NEW c, AllClients(c),
         NEW d, d = [p \in Participants |-> [c[p] EXCEPT !.tracked = Renumbered(@)]]
  PROVE  AllClients(d) /\ InFlight(d) = InFlight(c)
<1>1. ASSUME NEW p \in Participants
      PROVE  IsClient(d[p]) /\ ChargedBytes(d[p].tracked) = ChargedBytes(c[p].tracked)
  <2>1. PICK cl : cl = c[p]
    OBVIOUS
  <2>2. PICK t : t = Renumbered(cl.tracked)
    OBVIOUS
  <2>3. d[p] = [cl EXCEPT !.tracked = t]
    BY <2>1, <2>2
  <2>4. IsClient(cl) /\ Packets(cl.tracked)
    BY <2>1 DEF AllClients, IsClient
  <2>5. Packets(t) /\ ChargedBytes(t) = ChargedBytes(cl.tracked)
    BY <2>2, <2>4, RenumberedSame
  <2> QED BY <2>1, <2>3, <2>4, <2>5, OtherPackets
<1>2. d = [p \in Participants |-> d[p]]
  OBVIOUS
<1>3. InFlight(d) = InFlight(c)
  BY <1>1, InFlightSame
<1> QED BY <1>1, <1>2, <1>3 DEF AllClients

\* A client without some of its packets, which are no longer in flight.
LEMMA PacketsGone ==
  ASSUME NEW b, IsBooks(b), NEW o \in Nat, Accounted(b, o), NEW p \in Participants,
         NEW cl, IsClient(cl), NEW x \in Nat, ChargedBytes(cl.tracked) \in Nat,
         ChargedBytes(b.client[p].tracked) = x + ChargedBytes(cl.tracked),
         NEW d, d = [available |-> b.available, inflight |-> Minus(b.inflight, x),
                     client |-> [b.client EXCEPT ![p] = cl]]
  PROVE  IsBooks(d) /\ Accounted(d, o)
<1>1. PICK c : c = [b.client EXCEPT ![p] = cl]
  OBVIOUS
<1>2. AllClients(b.client) /\ AllClients(c) /\ c[p] = cl /\ \A q \in Participants \ {p} : c[q] = b.client[q]
  BY <1>1, OneClient DEF IsBooks
<1>3. /\ InFlight(c) + ChargedBytes(b.client[p].tracked) = InFlight(b.client) + ChargedBytes(c[p].tracked)
      /\ InFlight(b.client) \in Nat /\ InFlight(c) \in Nat
  <2>1. \A q \in Participants \ {p} : ChargedBytes(c[q].tracked) = ChargedBytes(b.client[q].tracked)
    BY <1>2
  <2> QED BY <1>2, <2>1, ClientsWeighed, InFlightChanged
<1>4. PICK y \in Nat, i \in Nat, j \in Nat :
        y = ChargedBytes(cl.tracked) /\ i = InFlight(b.client) /\ j = InFlight(c)
  BY <1>3
<1>5. j + (x + y) = i + y
  BY <1>2, <1>3, <1>4
<1>6. b.inflight = i + o
  BY <1>4 DEF Accounted
<1>7. Minus(b.inflight, x) = j + o
  BY <1>5, <1>6 DEF Minus
<1>8. d = [available |-> b.available, inflight |-> j + o, client |-> c]
  BY <1>1, <1>7
<1>9. d.available = b.available /\ d.inflight = j + o /\ d.client = c
      /\ d = [available |-> d.available, inflight |-> d.inflight, client |-> d.client]
  BY <1>8
<1> QED BY <1>2, <1>4, <1>9 DEF IsBooks, Accounted

\* The packet at one place.
LEMMA ChosenOne ==
  ASSUME NEW t, Packets(t), NEW k \in DOMAIN t
  PROVE  ChargedBytes(Chosen(t, {k})) = t[k].bytes
<1>1. IsSeq(t) /\ DOMAIN t = 1 .. Len(t) /\ t[k].bytes \in Nat
  BY SeqOfElements DEF Packets, IsPacket
<1>2. PICK c : c = Chosen(t, {k})
  OBVIOUS
<1>3. ChosenFrom(c, t, {k})
  BY <1>1, <1>2, ChosenPlaces
<1>4. PICK n \in Nat : n = Len(c)
  BY <1>3 DEF ChosenFrom, IsSeq
<1>5. PICK at \in [1 .. n -> {k}] :
        /\ \A i \in 1 .. n : c[i] = t[at[i]]
        /\ \A i, j \in 1 .. n : i < j => at[i] < at[j]
        /\ \A i \in {k} : \E j \in 1 .. n : at[j] = i
  BY <1>3, <1>4 DEF ChosenFrom
<1>6. n = 1
  <2>1. n >= 1
    BY <1>5
  <2>2. ~ n > 1
    <3> SUFFICES ASSUME n > 1 PROVE FALSE
      OBVIOUS
    <3>1. 1 \in 1 .. n /\ 2 \in 1 .. n /\ 1 < 2
      OBVIOUS
    <3>2. at[1] < at[2] /\ at[1] = k /\ at[2] = k /\ k \in Int
      BY <1>1, <1>5, <3>1
    <3> QED BY <3>2
  <2> QED BY <2>1, <2>2
<1>7. c[1] = t[k] /\ IsSeq(c) /\ Len(c) = 1
  BY <1>3, <1>4, <1>5, <1>6 DEF ChosenFrom
<1>8. PICK x : x = t[k]
  OBVIOUS
<1>9. PICK u : u = Append(<<>>, x)
  OBVIOUS
<1>10. Weighed(u) /\ ChargedBytes(u) = x.bytes
  <2>1. PICK none : none = <<>>
    OBVIOUS
  <2>2. Weighed(none) /\ ChargedBytes(none) = 0 /\ u = Append(none, x) /\ x.bytes \in Nat
    BY <1>1, <1>8, <1>9, <2>1, ChargedEmpty
  <2>3. Weighed(u) /\ ChargedBytes(u) = ChargedBytes(none) + x.bytes
    BY <2>2, ChargedAppend
  <2> QED BY <2>2, <2>3
<1>11. Len(u) = 1 /\ u[1] = x
  BY <1>9, EmptyIsSeq, AppendIsSeq
<1>12. ChargedBytes(c) = ChargedBytes(u)
  BY <1>7, <1>8, <1>10, <1>11, ChargedSame
<1> QED BY <1>2, <1>8, <1>10, <1>12

\* Entities changed.
LEMMA MarkedClient ==
  ASSUME NEW cl, IsClient(cl), NEW changed \in SUBSET Entities, NEW d, d = Marked(cl, changed)
  PROVE  IsClient(d) /\ ChargedBytes(d.tracked) = ChargedBytes(cl.tracked)
<1> DEFINE listed == {cl.list[i] : i \in DOMAIN cl.list}
           slots  == [e \in 1 .. Cardinality(Entities) |-> e]
           new    == Chosen(slots, changed \ listed)
           list   == cl.list \o new
           queued == cl.queued \cup changed
           acc    == [e \in Entities |-> IF e \in changed \ cl.queued THEN 0 ELSE cl.acc[e]]
           kept   == [i \in DOMAIN cl.tracked |-> Outdated(cl.tracked[i], changed)]
<1>1. d = [cl EXCEPT !.list = list, !.queued = queued, !.acc = acc, !.tracked = kept]
  BY Zenon DEF Marked
<1>2. PICK n \in Nat : n = Cardinality(Entities) /\ Entities = 1 .. n
  BY BandwidthAssumption, FS_CardinalityType
<1>3. IsSeq(slots) /\ Len(slots) = n /\ \A i \in 1 .. n : slots[i] \in Entities
  <2>1. slots = [i \in 1 .. n |-> slots[i]] /\ \A i \in 1 .. n : slots[i] = i
    BY <1>2
  <2> QED BY <1>2, <2>1, FunctionIsSeq
<1> HIDE DEF slots, listed
<1>4. IsSeq(new) /\ \A i \in 1 .. Len(new) : new[i] \in Entities
  <2>1. PICK S : S = changed \ listed
    OBVIOUS
  <2>2. S \subseteq 1 .. Len(slots)
    BY <1>2, <1>3, <2>1
  <2>3. PICK c : c = Chosen(slots, S)
    OBVIOUS
  <2>4. ChosenFrom(c, slots, S)
    BY <1>3, <2>2, <2>3, ChosenPlaces
  <2>5. PICK at \in [1 .. Len(c) -> S] : \A k \in 1 .. Len(c) : c[k] = slots[at[k]]
    BY <2>4 DEF ChosenFrom
  <2>6. \A k \in 1 .. Len(c) : c[k] \in Entities
    BY <1>3, <2>2, <2>5
  <2> QED BY <2>1, <2>3, <2>4, <2>6 DEF ChosenFrom
<1> HIDE DEF new
<1>5. IsSeq(list) /\ \A i \in 1 .. Len(list) : list[i] \in Entities
  <2>1. PICK l : l = cl.list
    OBVIOUS
  <2>2. IsSeq(l) /\ \A i \in 1 .. Len(l) : l[i] \in Entities
    BY <2>1 DEF IsClient
  <2>3. PICK j : j = l \o new
    OBVIOUS
  <2>4. Joined(j, l, new)
    BY <1>4, <2>2, <2>3, ConcatIsSeq
  <2>5. PICK x \in Nat, y \in Nat : x = Len(l) /\ y = Len(new)
    BY <1>4, <2>2 DEF IsSeq
  <2>6. /\ IsSeq(j) /\ Len(j) = x + y /\ (\A i \in 1 .. x : j[i] = l[i])
        /\ \A i \in 1 .. y : j[x + i] = new[i]
    BY <2>4, <2>5 DEF Joined
  <2>7. ASSUME NEW i \in 1 .. (x + y) PROVE j[i] \in Entities
    <3>1. CASE i <= x
      BY <2>2, <2>5, <2>6, <3>1
    <3>2. CASE i > x
      <4>1. i - x \in 1 .. y /\ x + (i - x) = i
        BY <3>2
      <4> QED BY <1>4, <2>5, <2>6, <4>1
    <3> QED BY <3>1, <3>2
  <2> QED BY <2>1, <2>3, <2>6, <2>7
<1> HIDE DEF list, queued
<1>6. acc \in [Entities -> Nat]
  BY DEF IsClient
<1> HIDE DEF acc
<1>7. Packets(kept) /\ ChargedBytes(kept) = ChargedBytes(cl.tracked)
  <2>1. PICK t : t = cl.tracked
    OBVIOUS
  <2>2. Packets(t) /\ DOMAIN t = 1 .. Len(t) /\ Len(t) \in Nat
    BY <2>1, SeqOfElements DEF IsClient, Packets, IsSeq
  <2>3. PICK k : k = kept
    OBVIOUS
  <2>4. k = [i \in 1 .. Len(t) |-> k[i]] /\ \A i \in 1 .. Len(t) : k[i] = Outdated(t[i], changed)
    BY <2>1, <2>2, <2>3
  <2>5. IsSeq(k) /\ Len(k) = Len(t)
    BY <2>2, <2>4, FunctionIsSeq
  <2>6. ASSUME NEW i \in 1 .. Len(t) PROVE IsPacket(k[i]) /\ k[i].bytes = t[i].bytes
    <3>1. PICK x, y : x = t[i] /\ y = k[i]
      OBVIOUS
    <3>2. y = [x EXCEPT !.latest = @ \ changed] /\ IsPacket(x)
      BY <2>2, <2>4, <3>1 DEF Outdated, Packets
    <3>3. IsPacket(y) /\ y.bytes = x.bytes
      BY <3>2 DEF IsPacket
    <3> QED BY <3>1, <3>3
  <2>7. Packets(k)
    BY <2>5, <2>6 DEF Packets
  <2>8. ChargedBytes(k) = ChargedBytes(t)
    BY <2>2, <2>5, <2>6, PacketsWeighed, ChargedSame
  <2> QED BY <2>1, <2>3, <2>7, <2>8
<1> HIDE DEF kept
<1>8. d = [list |-> list, queued |-> queued, acc |-> acc, tracked |-> kept, next |-> cl.next]
  <2>1. PICK x, z, k, q : x = list /\ z = acc /\ k = kept /\ q = queued
    OBVIOUS
  <2>2. d = [cl EXCEPT !.list = x, !.queued = q, !.acc = z, !.tracked = k]
    BY <1>1, <2>1
  <2> QED BY <2>1, <2>2 DEF IsClient
<1>9. /\ d = [list |-> d.list, queued |-> d.queued, acc |-> d.acc, tracked |-> d.tracked, next |-> d.next]
      /\ d.list = list /\ d.acc = acc /\ d.tracked = kept
  BY <1>8
<1> QED BY <1>5, <1>6, <1>7, <1>9 DEF IsClient

\* A packet is acknowledged.
LEMMA AcknowledgeBooks ==
  ASSUME NEW b, IsBooks(b), NEW o \in Nat, Accounted(b, o), NEW p \in Participants,
         NEW k \in DOMAIN b.client[p].tracked, NEW d, d = AcknowledgeOne(b, p, k)
  PROVE  IsBooks(d) /\ Accounted(d, o)
<1> DEFINE cl   == b.client[p]
           pk   == cl.tracked[k]
           left == [i \in DOMAIN cl.tracked |->
                      IF cl.tracked[i].fr <= pk.fr
                      THEN [cl.tracked[i] EXCEPT !.records = @ \ pk.records] ELSE cl.tracked[i]]
           rest == Chosen(left, DOMAIN left \ {k})
           que  == cl.queued \ Settled(pk)
           acc  == [e \in Entities |-> IF e \in Settled(pk) THEN 0 ELSE cl.acc[e]]
           new  == [cl EXCEPT !.tracked = rest, !.queued = que, !.acc = acc]
<1>1. IsClient(cl) /\ AllClients(b.client) /\ Packets(cl.tracked) /\ cl.acc \in [Entities -> Nat]
  BY DEF IsBooks, AllClients, IsClient
<1>2. d = [PacketGone(b, pk.bytes) EXCEPT !.client[p].tracked = rest, !.client[p].queued = que,
                                          !.client[p].acc = acc]
  BY DEF AcknowledgeOne, PacketGone
<1>3. PICK x \in Nat : x = pk.bytes
  BY <1>1, SeqOfElements DEF Packets, IsPacket
<1> HIDE DEF cl
<1>4. Packets(left) /\ DOMAIN left = DOMAIN cl.tracked /\ left[k].bytes = x
      /\ ChargedBytes(left) = ChargedBytes(cl.tracked)
  <2>1. PICK t : t = cl.tracked
    OBVIOUS
  <2>2. Packets(t) /\ DOMAIN t = 1 .. Len(t) /\ Len(t) \in Nat /\ k \in 1 .. Len(t)
    BY <1>1, <2>1, SeqOfElements DEF Packets, IsSeq, cl
  <2>3. PICK l : l = left
    OBVIOUS
  <2>4. /\ l = [i \in 1 .. Len(t) |-> l[i]]
        /\ \A i \in 1 .. Len(t) :
             l[i] = t[i] \/ l[i] = [t[i] EXCEPT !.records = @ \ pk.records]
    BY <2>1, <2>2, <2>3
  <2>5. IsSeq(l) /\ Len(l) = Len(t)
    BY <2>2, <2>4, FunctionIsSeq
  <2>6. ASSUME NEW i \in 1 .. Len(t) PROVE IsPacket(l[i]) /\ l[i].bytes = t[i].bytes
    <3>1. PICK u, v : u = t[i] /\ v = l[i]
      OBVIOUS
    <3>2. IsPacket(u) /\ (v = u \/ v = [u EXCEPT !.records = @ \ pk.records])
      BY <2>2, <2>4, <3>1 DEF Packets
    <3> HIDE DEF pk
    <3>3. IsPacket(v) /\ v.bytes = u.bytes
      BY <3>2 DEF IsPacket
    <3> QED BY <3>1, <3>3
  <2>7. Packets(l)
    BY <2>5, <2>6 DEF Packets
  <2>8. ChargedBytes(l) = ChargedBytes(t)
    BY <2>2, <2>5, <2>6, PacketsWeighed, ChargedSame
  <2>9. l[k].bytes = x
    BY <1>3, <2>1, <2>2, <2>6
  <2>10. DOMAIN l = DOMAIN t
    BY <2>2, <2>4
  <2> QED BY <2>1, <2>3, <2>7, <2>8, <2>9, <2>10
<1> HIDE DEF left, pk
<1>5. /\ Packets(rest) /\ ChargedBytes(rest) \in Nat
      /\ ChargedBytes(cl.tracked) = x + ChargedBytes(rest)
  <2>1. k \in DOMAIN left
    BY <1>4 DEF cl
  <2>2. Packets(rest)
    BY <1>4, ChosenPackets
  <2>3. ChargedBytes(Chosen(left, {k})) = x
    BY <1>4, <2>1, ChosenOne
  <2>4. ChargedBytes(rest) \in Nat /\ ChargedBytes(left) = ChargedBytes(Chosen(left, {k})) + ChargedBytes(rest)
    BY <1>4, PacketsWeighed, ChargedSplit
  <2> QED BY <1>4, <2>2, <2>3, <2>4
<1> HIDE DEF rest
<1>6. acc \in [Entities -> Nat]
  BY <1>1
<1> HIDE DEF acc, que
<1>7. IsClient(new) /\ new.tracked = rest
  <2>1. PICK c, t, q, a : c = cl /\ t = rest /\ q = que /\ a = acc
    OBVIOUS
  <2>2. PICK e : e = new
    OBVIOUS
  <2>3. e = [c EXCEPT !.tracked = t, !.queued = q, !.acc = a]
    BY <2>1, <2>2
  <2>4. IsClient(c) /\ Packets(t) /\ a \in [Entities -> Nat]
    BY <1>1, <1>5, <1>6, <2>1
  <2> HIDE DEF new
  <2>5. IsClient(e) /\ e.tracked = t
    <3>1. e = [list |-> c.list, queued |-> q, acc |-> a, tracked |-> t, next |-> c.next]
      BY <2>3, <2>4 DEF IsClient
    <3>2. /\ e = [list |-> e.list, queued |-> e.queued, acc |-> e.acc, tracked |-> e.tracked, next |-> e.next]
          /\ e.list = c.list /\ e.acc = a /\ e.tracked = t
      BY <3>1
    <3> QED BY <2>4, <3>2 DEF IsClient
  <2> QED BY <2>1, <2>2, <2>5
<1>8. d = [available |-> b.available, inflight |-> Minus(b.inflight, x), client |-> [b.client EXCEPT ![p] = new]]
  <2>1. PICK g : g = PacketGone(b, pk.bytes)
    OBVIOUS
  <2>2. g = [b EXCEPT !.inflight = Minus(b.inflight, x)]
    BY <1>3, <2>1 DEF PacketGone
  <2>3. g = [available |-> b.available, inflight |-> Minus(b.inflight, x), client |-> b.client]
    BY <2>2 DEF IsBooks
  <2>4. PICK t, q, a : t = rest /\ q = que /\ a = acc
    OBVIOUS
  <2>5. d = [g EXCEPT !.client[p].tracked = t, !.client[p].queued = q, !.client[p].acc = a]
    BY <1>2, <2>1, <2>4
  <2>6. PICK c : c = b.client
    OBVIOUS
  <2>7. g.client = c /\ c = [r \in Participants |-> c[r]] /\ c[p] = cl
    BY <1>1, <2>3, <2>6 DEF AllClients, cl
  <2>8. [c EXCEPT ![p].tracked = t, ![p].queued = q, ![p].acc = a] = [c EXCEPT ![p] = new]
    <3>1. new = [cl EXCEPT !.tracked = t, !.queued = q, !.acc = a]
      BY <2>4
    <3> HIDE DEF new
    <3>2. cl = [list |-> cl.list, queued |-> cl.queued, acc |-> cl.acc, tracked |-> cl.tracked, next |-> cl.next]
      BY <1>1 DEF IsClient
    <3> QED BY <2>7, <3>1, <3>2
  <2>9. d = [g EXCEPT !.client = [c EXCEPT ![p].tracked = t, ![p].queued = q, ![p].acc = a]]
    BY <2>3, <2>5, <2>7
  <2> HIDE DEF new
  <2> QED BY <2>3, <2>6, <2>8, <2>9
<1> HIDE DEF new
<1> QED BY <1>1, <1>5, <1>7, <1>8, PacketsGone DEF cl

\* Packets of which nothing is pending are lost.
LEMMA CleanedBooks ==
  ASSUME NEW b, IsBooks(b), NEW o \in Nat, Accounted(b, o), NEW p \in Participants,
         NEW d, d = CleanedUp(b, p)
  PROVE  IsBooks(d) /\ Accounted(d, o)
<1> DEFINE cl   == b.client[p]
           lost == {i \in DOMAIN cl.tracked : cl.tracked[i].records = {}}
           rest == Chosen(cl.tracked, DOMAIN cl.tracked \ lost)
           gone == Chosen(cl.tracked, lost)
           new  == [cl EXCEPT !.tracked = rest]
<1>1. d = [AllGone(b, gone) EXCEPT !.client[p].tracked = rest]
  BY DEF CleanedUp
<1>2. IsClient(cl) /\ AllClients(b.client) /\ Packets(cl.tracked)
  BY DEF IsBooks, AllClients, IsClient
<1> HIDE DEF cl
<1>3. /\ Packets(rest) /\ ChargedBytes(rest) \in Nat /\ Weighed(gone) /\ ChargedBytes(gone) \in Nat
      /\ ChargedBytes(cl.tracked) = ChargedBytes(gone) + ChargedBytes(rest)
  <2>1. Packets(rest)
    BY <1>2, ChosenPackets
  <2> HIDE DEF lost
  <2> QED BY <1>2, <2>1, PacketsWeighed, ChargedSplit
<1> HIDE DEF rest, gone
<1>4. PICK x \in Nat : x = ChargedBytes(gone)
  BY <1>3
<1>5. IsClient(new) /\ new.tracked = rest
  BY <1>2, <1>3, OtherPackets
<1>6. d = [available |-> b.available, inflight |-> Minus(b.inflight, x), client |-> [b.client EXCEPT ![p] = new]]
  <2>1. PICK g : g = AllGone(b, gone)
    OBVIOUS
  <2>2. g = [b EXCEPT !.inflight = Minus(b.inflight, x)]
    BY <1>4, <2>1 DEF AllGone, PacketGone
  <2>3. g = [available |-> b.available, inflight |-> Minus(b.inflight, x), client |-> b.client]
    BY <2>2 DEF IsBooks
  <2>4. PICK t : t = rest
    OBVIOUS
  <2>5. d = [g EXCEPT !.client[p].tracked = t]
    BY <1>1, <2>1, <2>4
  <2>6. PICK c : c = b.client
    OBVIOUS
  <2>7. g.client = c /\ c = [r \in Participants |-> c[r]] /\ c[p] = cl
    BY <1>2, <2>3, <2>6 DEF AllClients, cl
  <2>8. [c EXCEPT ![p].tracked = t] = [c EXCEPT ![p] = new]
    <3>1. new = [cl EXCEPT !.tracked = t]
      BY <2>4
    <3> HIDE DEF new
    <3> QED BY <2>7, <3>1
  <2>9. d = [g EXCEPT !.client = [c EXCEPT ![p].tracked = t]]
    BY <2>3, <2>5, <2>7
  <2> HIDE DEF new
  <2> QED BY <2>3, <2>6, <2>8, <2>9
<1> HIDE DEF new
<1> QED BY <1>2, <1>3, <1>4, <1>5, <1>6, PacketsGone DEF cl

--------------------------------------------------------------------------------
(* The invariant *)

\* The accounts of the budget and of every client are right, and those of the last round.
BudgetOK ==
  /\ IsBooks(Books) /\ orphaned \in Nat /\ Accounted(Books, orphaned)
  /\ IsSeq(members) /\ \A i \in 1 .. Len(members) : members[i] \in Participants
  /\ RoundUsesBudget

\* No round.
LEMMA NoRoundOK ==
  ASSUME NEW r, r = NoRound
  PROVE  /\ r.charged <= r.had /\ r.left = r.had - r.charged
         /\ \A p \in Participants : \A e \in r.refused[p] : Overhead + Size[e] > r.left
<1>1. r.charged = 0 /\ r.had = 0 /\ r.left = 0 /\ \A p \in Participants : r.refused[p] = {}
  BY DEF NoRound, Nothing
<1> QED BY <1>1

\* A request runs the round, or waits.
LEMMA TryRunOK ==
  ASSUME NEW b, IsBooks(b), NEW o \in Nat, Accounted(b, o), NEW ms, IsSeq(ms),
         \A i \in 1 .. Len(ms) : ms[i] \in Participants, NEW requests, TryRun(b, ms, requests)
  PROVE  IsBooks(Books') /\ Accounted(Books', o) /\ RoundUsesBudget'
<1>1. CASE ms # <<>> /\ requests = {ms[i] : i \in DOMAIN ms}
  <2>1. PICK r : r = Round(b, ms)
    OBVIOUS
  <2>2. /\ available' = r.books.available /\ inflight' = r.books.inflight
        /\ client' = [p \in Participants |-> [r.books.client[p] EXCEPT !.tracked = Renumbered(@)]]
        /\ round' = [had |-> b.available, charged |-> r.charged,
                     left |-> r.books.available, sent |-> r.sent, refused |-> r.refused]
    BY <1>1, <2>1 DEF TryRun
  <2>3. RoundOK(r, b, o)
    BY <1>1, <2>1, RoundKeepsBudget
  <2>4. PICK c : c = client'
    OBVIOUS
  <2>5. AllClients(c) /\ InFlight(c) = InFlight(r.books.client)
    BY <2>2, <2>3, <2>4, RenumberedClients DEF RoundOK, IsBooks
  <2>6. PICK d : d = Books'
    OBVIOUS
  <2>7. d = [available |-> r.books.available, inflight |-> r.books.inflight, client |-> c]
    BY <2>2, <2>4, <2>6 DEF Books
  <2>8. d.available = r.books.available /\ d.inflight = r.books.inflight /\ d.client = c
        /\ d = [available |-> d.available, inflight |-> d.inflight, client |-> d.client]
    BY <2>7
  <2>9. IsBooks(d) /\ Accounted(d, o)
    BY <2>3, <2>5, <2>8 DEF RoundOK, IsBooks, Accounted
  <2>10. RoundUsesBudget'
    <3>1. PICK x \in Nat, y \in Nat : x = r.charged /\ y = r.books.available /\ x + y = b.available
      BY <2>3 DEF RoundOK, IsBooks
    <3>2. round'.had = x + y /\ round'.charged = x /\ round'.left = y /\ round'.refused = r.refused
      BY <2>2, <3>1
    <3>3. round'.charged <= round'.had /\ round'.left = round'.had - round'.charged
      BY <3>2
    <3>4. \A p \in Participants : \A e \in r.refused[p] : Overhead + Size[e] > y
      BY <2>3, <3>1 DEF RoundOK
    <3> QED BY <3>2, <3>3, <3>4 DEF RoundUsesBudget
  <2> QED BY <2>6, <2>9, <2>10
<1>2. CASE ~(ms # <<>> /\ requests = {ms[i] : i \in DOMAIN ms})
  <2>1. available' = b.available /\ inflight' = b.inflight /\ client' = b.client /\ round' = NoRound
    BY <1>2 DEF TryRun
  <2>2. Books' = b
    BY <2>1 DEF Books, IsBooks
  <2>3. RoundUsesBudget'
    BY <2>1, NoRoundOK DEF RoundUsesBudget
  <2> QED BY <2>2, <2>3
<1> QED BY <1>1, <1>2

\* A client without packets.
LEMMA NewIsClient ==
  ASSUME NEW cl, cl = NewClient
  PROVE  IsClient(cl) /\ cl.tracked = <<>> /\ ChargedBytes(cl.tracked) = 0
<1>1. /\ cl = [list |-> cl.list, queued |-> cl.queued, acc |-> cl.acc, tracked |-> cl.tracked, next |-> cl.next]
      /\ cl.list = <<>> /\ cl.tracked = <<>> /\ cl.acc = [e \in Entities |-> 0]
  BY DEF NewClient
<1>2. IsSeq(<<>>) /\ Len(<<>>) = 0 /\ ChargedBytes(<<>>) = 0
  BY EmptyIsSeq, ChargedEmpty
<1>3. cl.acc \in [Entities -> Nat]
  BY <1>1
<1> QED BY <1>1, <1>2, <1>3 DEF IsClient, Packets

\* Nobody has a packet.
LEMMA NoneInFlight ==
  ASSUME NEW c, AllClients(c), \A q \in Participants : ChargedBytes(c[q].tracked) = 0
  PROVE  InFlight(c) = 0
<1>1. PICK n \in Nat : n = Cardinality(Participants)
  BY RosterFacts
<1>2. PICK v : v = [i \in DOMAIN Roster |-> ChargedBytes(c[Roster[i]].tracked)]
  OBVIOUS
<1>3. /\ Numbers(v) /\ Len(v) = n /\ InFlight(c) = Total(v)
      /\ \A i \in 1 .. n : v[i] = ChargedBytes(c[Roster[i]].tracked)
  BY <1>1, <1>2, InFlightNumbers, ClientsWeighed
<1>4. \A i \in 1 .. n : v[i] = 0
  BY <1>1, <1>3, RosterFacts
<1>5. PICK a : a = [i \in 0 .. n |-> 0]
  OBVIOUS
<1>6. Sums(a, v)
  <2>1. a \in [0 .. n -> Nat] /\ a[0] = 0 /\ (\A i \in 0 .. n : a[i] = 0)
    BY <1>5
  <2>2. \A i \in 1 .. n : i \in 0 .. n /\ i - 1 \in 0 .. n
    OBVIOUS
  <2> QED BY <1>3, <1>4, <2>1, <2>2 DEF Sums
<1>7. Total(v) = a[n]
  BY <1>3, <1>6, TotalIsLast
<1> QED BY <1>3, <1>5, <1>7

\* A budget begins.
LEMMA BudgetStarts == BudgetInit => BudgetOK
<1> SUFFICES ASSUME BudgetInit PROVE BudgetOK
  OBVIOUS
<1>1. /\ available = Burst /\ inflight = 0 /\ members = <<>> /\ orphaned = 0 /\ round = NoRound
      /\ client = [p \in Participants |-> NewClient]
  BY DEF BudgetInit
<1>2. PICK cl : cl = NewClient
  OBVIOUS
<1>3. IsClient(cl) /\ ChargedBytes(cl.tracked) = 0
  BY <1>2, NewIsClient
<1>4. PICK c : c = client
  OBVIOUS
<1>5. c = [p \in Participants |-> cl]
  BY <1>1, <1>2, <1>4
<1>6. AllClients(c) /\ \A q \in Participants : c[q] = cl
  BY <1>3, <1>5 DEF AllClients
<1>7. InFlight(c) = 0
  BY <1>3, <1>6, NoneInFlight
<1>8. PICK b : b = Books
  OBVIOUS
<1>9. b = [available |-> Burst, inflight |-> 0, client |-> c]
  BY <1>1, <1>4, <1>8 DEF Books
<1>10. /\ b = [available |-> b.available, inflight |-> b.inflight, client |-> b.client]
       /\ b.available = Burst /\ b.inflight = 0 /\ b.client = c
  BY <1>9
<1>11. IsBooks(b) /\ Accounted(b, 0)
  BY <1>6, <1>7, <1>10, BandwidthAssumption DEF IsBooks, Accounted
<1>12. IsSeq(members) /\ \A i \in 1 .. Len(members) : members[i] \in Participants
  BY <1>1, EmptyIsSeq
<1>13. RoundUsesBudget
  BY <1>1, NoRoundOK DEF RoundUsesBudget
<1> QED BY <1>1, <1>8, <1>11, <1>12, <1>13 DEF BudgetOK

\* The batch of a member is complete.
LEMMA BatchOK ==
  ASSUME BudgetOK, NEW p \in Participants, NEW changed \in SUBSET Entities, NEW refill \in Refills,
         BatchComplete(p, changed, refill)
  PROVE  BudgetOK'
<1>1. PICK b : b = [available |-> IF waiting = {} THEN Refilled(refill) ELSE available,
                    inflight |-> inflight, client |-> [client EXCEPT ![p] = Marked(@, changed)]]
  OBVIOUS
<1>2. TryRun(b, members, waiting \cup {p}) /\ UNCHANGED <<members, orphaned>>
  BY <1>1 DEF BatchComplete
<1>3. PICK k : k = Books
  OBVIOUS
<1>4. /\ IsBooks(k) /\ Accounted(k, orphaned) /\ orphaned \in Nat
      /\ k.available = available /\ k.inflight = inflight /\ k.client = client
  BY <1>3 DEF BudgetOK, Books
<1>5. PICK a \in Nat : a = IF waiting = {} THEN Refilled(refill) ELSE available
  <2>1. available \in Nat /\ Burst \in Nat /\ refill \in Nat
    BY <1>4, BandwidthAssumption DEF IsBooks
  <2> QED BY <2>1 DEF Refilled, Lesser
<1>6. PICK cl : cl = Marked(client[p], changed)
  OBVIOUS
<1>7. PICK d : d = [k EXCEPT !.client[p] = cl]
  OBVIOUS
<1>8. IsClient(client[p])
  BY <1>4 DEF IsBooks, AllClients
<1>9. IsClient(cl) /\ ChargedBytes(cl.tracked) = ChargedBytes(client[p].tracked)
  BY <1>6, <1>8, MarkedClient
<1>10. IsBooks(d) /\ Accounted(d, orphaned)
  BY <1>4, <1>7, <1>9, ClientReplaced DEF Paid
<1>11. d = [available |-> available, inflight |-> inflight, client |-> [client EXCEPT ![p] = cl]]
  BY <1>4, <1>7 DEF IsBooks
<1>12. b = [available |-> a, inflight |-> inflight, client |-> [client EXCEPT ![p] = cl]]
  BY <1>1, <1>5, <1>6
<1>13. /\ b = [available |-> b.available, inflight |-> b.inflight, client |-> b.client]
       /\ b.available = a /\ b.inflight = d.inflight /\ b.client = d.client
  BY <1>11, <1>12
<1>14. IsBooks(b) /\ Accounted(b, orphaned)
  BY <1>10, <1>13 DEF IsBooks, Accounted
<1>15. PICK o \in Nat : o = orphaned
  BY <1>4
<1>16. PICK ms : ms = members
  OBVIOUS
<1>17. PICK rq : rq = waiting \cup {p}
  OBVIOUS
<1>18. TryRun(b, ms, rq)
  BY <1>2, <1>16, <1>17
<1>19. IsSeq(ms) /\ \A i \in 1 .. Len(ms) : ms[i] \in Participants
  BY <1>16 DEF BudgetOK
<1>20. IsBooks(Books') /\ Accounted(Books', o) /\ RoundUsesBudget'
  BY <1>14, <1>15, <1>18, <1>19, TryRunOK
<1> QED BY <1>2, <1>4, <1>15, <1>16, <1>19, <1>20 DEF BudgetOK

\* A packet of a member is acknowledged.
LEMMA AckOK ==
  ASSUME BudgetOK, NEW p \in Participants, NEW k, ReceiveAck(p, k)
  PROVE  BudgetOK'
<1>1. PICK b : b = Books
  OBVIOUS
<1>2. PICK o \in Nat : o = orphaned
  BY DEF BudgetOK
<1>3. PICK c : c = AcknowledgeOne(b, p, k)
  OBVIOUS
<1>4. PICK d : d = CleanedUp(c, p)
  OBVIOUS
<1>5. /\ k \in DOMAIN client[p].tracked
      /\ inflight' = d.inflight /\ client' = [d.client EXCEPT ![p].tracked = Renumbered(@)]
      /\ round' = NoRound /\ UNCHANGED <<available, members, waiting, orphaned, beat>>
  BY <1>1, <1>3, <1>4 DEF ReceiveAck
<1>6. IsBooks(b) /\ Accounted(b, o) /\ b.client = client /\ b.available = available
  BY <1>1, <1>2 DEF BudgetOK, Books
<1>7. IsBooks(c) /\ Accounted(c, o)
  BY <1>3, <1>5, <1>6, AcknowledgeBooks
<1>8. IsBooks(d) /\ Accounted(d, o)
  BY <1>4, <1>7, CleanedBooks
<1>9. PICK cl : cl = d.client[p]
  OBVIOUS
<1>10. PICK t : t = Renumbered(cl.tracked)
  OBVIOUS
<1>11. IsClient(cl) /\ Packets(cl.tracked) /\ AllClients(d.client)
  BY <1>8, <1>9 DEF IsBooks, AllClients, IsClient
<1>12. Packets(t) /\ ChargedBytes(t) = ChargedBytes(cl.tracked)
  BY <1>10, <1>11, RenumberedSame
<1>13. PICK new : new = [cl EXCEPT !.tracked = t]
  OBVIOUS
<1>14. IsClient(new) /\ new.tracked = t
  BY <1>11, <1>12, <1>13, OtherPackets
<1>15. client' = [d.client EXCEPT ![p] = new]
  <2>1. PICK e : e = d.client
    OBVIOUS
  <2>2. e = [r \in Participants |-> e[r]] /\ e[p] = cl
    BY <1>9, <1>11, <2>1 DEF AllClients
  <2>3. client' = [e EXCEPT ![p].tracked = t]
    BY <1>5, <1>9, <1>10, <2>1
  <2> QED BY <1>13, <2>1, <2>2, <2>3
<1>16. PICK f : f = [d EXCEPT !.client[p] = new]
  OBVIOUS
<1>17. IsBooks(f) /\ Accounted(f, o)
  BY <1>8, <1>9, <1>12, <1>14, <1>16, ClientReplaced DEF Paid
<1>18. f = [available |-> d.available, inflight |-> d.inflight, client |-> [d.client EXCEPT ![p] = new]]
  BY <1>8, <1>16 DEF IsBooks
<1>19. PICK g : g = Books'
  OBVIOUS
<1>20. g = [available |-> available, inflight |-> d.inflight, client |-> [d.client EXCEPT ![p] = new]]
  BY <1>5, <1>15, <1>19 DEF Books
<1>21. /\ g = [available |-> g.available, inflight |-> g.inflight, client |-> g.client]
       /\ g.available = b.available /\ g.inflight = f.inflight /\ g.client = f.client
  BY <1>6, <1>18, <1>20
<1>22. IsBooks(g) /\ Accounted(g, o)
  BY <1>6, <1>17, <1>21 DEF IsBooks, Accounted
<1>23. RoundUsesBudget'
  BY <1>5, NoRoundOK DEF RoundUsesBudget
<1> QED BY <1>2, <1>5, <1>19, <1>22, <1>23 DEF BudgetOK

\* Some of the members are members.
LEMMA FewerMembers ==
  ASSUME NEW ms, IsSeq(ms), \A i \in 1 .. Len(ms) : ms[i] \in Participants,
         NEW S, S \subseteq DOMAIN ms, NEW c, c = Chosen(ms, S)
  PROVE  IsSeq(c) /\ \A i \in 1 .. Len(c) : c[i] \in Participants
<1>1. DOMAIN ms = 1 .. Len(ms) /\ S \subseteq 1 .. Len(ms)
  BY SeqOfElements
<1>2. ChosenFrom(c, ms, S)
  BY <1>1, ChosenPlaces
<1>3. PICK at \in [1 .. Len(c) -> S] : \A k \in 1 .. Len(c) : c[k] = ms[at[k]]
  BY <1>2 DEF ChosenFrom
<1>4. \A k \in 1 .. Len(c) : c[k] \in Participants
  BY <1>1, <1>3
<1> QED BY <1>2, <1>4 DEF ChosenFrom

\* A member leaves.
LEMMA DetachOK ==
  ASSUME BudgetOK, NEW p \in Participants, Detach(p)
  PROVE  BudgetOK'
<1>1. PICK k : k = Books
  OBVIOUS
<1>2. PICK o \in Nat : o = orphaned
  BY DEF BudgetOK
<1>3. IsBooks(k) /\ Accounted(k, o) /\ k.client = client
  BY <1>1, <1>2 DEF BudgetOK, Books
<1>4. PICK cl : cl = NewClient
  OBVIOUS
<1>5. PICK b : b = [k EXCEPT !.client[p] = cl]
  OBVIOUS
<1>6. PICK x \in Nat : x = ChargedBytes(k.client[p].tracked)
  BY <1>3, InFlightHas DEF IsBooks
<1>7. PICK ms : ms = members'
  OBVIOUS
<1>8. PICK rq : rq = waiting \ {p}
  OBVIOUS
<1>9. TryRun(b, ms, rq)
  <2>1. TryRun([Books EXCEPT !.client[p] = NewClient], members', waiting \ {p})
    BY DEF Detach
  <2> QED BY <1>1, <1>4, <1>5, <1>7, <1>8, <2>1
<1>10. ms = Chosen(members, {i \in DOMAIN members : members[i] # p}) /\ orphaned' = o + x
  BY <1>2, <1>3, <1>6, <1>7 DEF Detach
<1>11. IsSeq(ms) /\ \A i \in 1 .. Len(ms) : ms[i] \in Participants
  <2>1. PICK old : old = members
    OBVIOUS
  <2>2. IsSeq(old) /\ \A i \in 1 .. Len(old) : old[i] \in Participants
    BY <2>1 DEF BudgetOK
  <2>3. PICK S : S = {i \in DOMAIN old : old[i] # p}
    OBVIOUS
  <2>4. S \subseteq DOMAIN old /\ ms = Chosen(old, S)
    BY <1>10, <2>1, <2>3
  <2> QED BY <2>2, <2>4, FewerMembers
<1>12. IsClient(cl) /\ ChargedBytes(cl.tracked) = 0
  BY <1>4, NewIsClient
<1>13. PICK c : c = [k.client EXCEPT ![p] = cl]
  OBVIOUS
<1>14. /\ AllClients(k.client) /\ AllClients(c) /\ c[p] = cl
       /\ \A q \in Participants \ {p} : c[q] = k.client[q]
  <2>1. PICK e : e = k.client
    OBVIOUS
  <2>2. AllClients(e)
    BY <1>3, <2>1 DEF IsBooks
  <2>3. c = [e EXCEPT ![p] = cl]
    BY <1>13, <2>1
  <2>4. AllClients(c) /\ c[p] = cl /\ \A q \in Participants \ {p} : c[q] = e[q]
    BY <1>12, <2>2, <2>3 DEF AllClients
  <2> QED BY <2>1, <2>2, <2>4
<1>15. /\ InFlight(c) + ChargedBytes(k.client[p].tracked) = InFlight(k.client) + ChargedBytes(c[p].tracked)
       /\ InFlight(k.client) \in Nat /\ InFlight(c) \in Nat
  <2>1. \A q \in Participants \ {p} : ChargedBytes(c[q].tracked) = ChargedBytes(k.client[q].tracked)
    BY <1>14
  <2> QED BY <1>14, <2>1, ClientsWeighed, InFlightChanged
<1>16. InFlight(c) + x = InFlight(k.client)
  BY <1>6, <1>12, <1>14, <1>15
<1>17. /\ b = [available |-> b.available, inflight |-> b.inflight, client |-> b.client]
       /\ b.available = k.available /\ b.inflight = k.inflight /\ b.client = c
  BY <1>3, <1>5, <1>13 DEF IsBooks
<1>18. k.inflight = InFlight(c) + (o + x)
  BY <1>3, <1>15, <1>16 DEF Accounted
<1>19. PICK s \in Nat : s = o + x
  OBVIOUS
<1>20. IsBooks(b) /\ Accounted(b, s)
  BY <1>3, <1>14, <1>17, <1>18, <1>19 DEF IsBooks, Accounted
<1>21. IsBooks(Books') /\ Accounted(Books', s) /\ RoundUsesBudget'
  BY <1>9, <1>11, <1>19, <1>20, TryRunOK
<1> QED BY <1>7, <1>10, <1>11, <1>19, <1>21 DEF BudgetOK

\* A member joins.
LEMMA AttachOK ==
  ASSUME BudgetOK, NEW p \in Participants, Attach(p)
  PROVE  BudgetOK'
<1>1. /\ members' = Append(members, p) /\ round' = NoRound
      /\ available' = available /\ inflight' = inflight /\ client' = client /\ orphaned' = orphaned
  BY DEF Attach
<1>2. PICK ms : ms = members
  OBVIOUS
<1>3. PICK n \in Nat : n = Len(ms)
  BY <1>2 DEF BudgetOK, IsSeq
<1>4. PICK c : c = Append(ms, p)
  OBVIOUS
<1>5. IsSeq(c) /\ Len(c) = n + 1 /\ c[n + 1] = p /\ \A i \in 1 .. n : c[i] = ms[i]
  BY <1>2, <1>3, <1>4, AppendIsSeq DEF BudgetOK
<1>6. \A i \in 1 .. (n + 1) : i = n + 1 \/ i \in 1 .. n
  OBVIOUS
<1>7. IsSeq(c) /\ \A i \in 1 .. Len(c) : c[i] \in Participants
  BY <1>2, <1>3, <1>5, <1>6 DEF BudgetOK
<1>8. RoundUsesBudget'
  BY <1>1, NoRoundOK DEF RoundUsesBudget
<1>9. Books' = Books
  BY <1>1 DEF Books
<1>10. IsBooks(Books') /\ orphaned' \in Nat /\ Accounted(Books', orphaned')
  BY <1>1, <1>9 DEF BudgetOK
<1> QED BY <1>1, <1>2, <1>4, <1>7, <1>8, <1>10 DEF BudgetOK

\* Every step keeps the accounts.
LEMMA BudgetSteps == BudgetOK /\ [BudgetNext]_budgetVars => BudgetOK'
<1> SUFFICES ASSUME BudgetOK, [BudgetNext]_budgetVars PROVE BudgetOK'
  OBVIOUS
<1>1. CASE UNCHANGED budgetVars
  <2>1. Books' = Books /\ members' = members /\ orphaned' = orphaned /\ round' = round
    BY <1>1 DEF budgetVars, Books
  <2>2. RoundUsesBudget'
    BY <2>1 DEF BudgetOK, RoundUsesBudget
  <2>3. IsBooks(Books') /\ orphaned' \in Nat /\ Accounted(Books', orphaned')
    BY <2>1 DEF BudgetOK
  <2>4. IsSeq(members') /\ \A i \in 1 .. Len(members') : members'[i] \in Participants
    BY <2>1 DEF BudgetOK
  <2> QED BY <2>2, <2>3, <2>4 DEF BudgetOK
<1>2. CASE BudgetNext
  <2>1. PICK p \in Participants :
          \/ Batch(p)
          \/ \E k \in 1 .. MaxTracked : ReceiveAck(p, k)
          \/ Detach(p)
          \/ Attach(p)
    BY <1>2 DEF BudgetNext
  <2>2. CASE Batch(p)
    <3>1. PICK changed \in SUBSET Entities, refill \in Refills : BatchComplete(p, changed, refill)
      BY <2>2 DEF Batch
    <3> QED BY <3>1, BatchOK
  <2>3. CASE \E k \in 1 .. MaxTracked : ReceiveAck(p, k)
    BY <2>3, AckOK
  <2>4. CASE Detach(p)
    BY <2>4, DetachOK
  <2>5. CASE Attach(p)
    BY <2>5, AttachOK
  <2> QED BY <2>1, <2>2, <2>3, <2>4, <2>5
<1> QED BY <1>1, <1>2

\* No round charges more than the budget had, and nobody is refused a record that
\* what the round leaves would pay for, for any number of members, weights, sizes
\* and refills (ReplicationBandwidthShare::run, UpdateScheduler::send_client).
THEOREM RoundsUseTheBudget == BudgetSpec => []RoundUsesBudget
<1>1. BudgetOK => RoundUsesBudget
  BY DEF BudgetOK
<1> QED BY <1>1, BudgetStarts, BudgetSteps, PTL DEF BudgetSpec

\* The bytes in flight are those of the packets that are tracked and of the
\* participants that left, for any number of participants, packet ids and limits
\* (track_packet_ack, acknowledge_packet, cleanup_packet_acks, remove_client).
THEOREM InFlightAlwaysAccounted == BudgetSpec => []InFlightAccounted
<1>1. BudgetOK => InFlightAccounted
  <2> SUFFICES ASSUME BudgetOK PROVE InFlightAccounted
    OBVIOUS
  <2>1. inflight = InFlight(client) + orphaned
    BY DEF BudgetOK, Accounted, Books
  <2>2. TrackedBytes = InFlight(client)
    BY DEF TrackedBytes, InFlight, Tracked
  <2> QED BY <2>1, <2>2 DEF InFlightAccounted
<1> QED BY <1>1, BudgetStarts, BudgetSteps, PTL DEF BudgetSpec

================================================================================
