---------------------------- MODULE RecordingProofs ----------------------------
(* Theorems about what is recorded of a running server: the trace writer, for   *)
(* every number of threads, every record size, every capacity and every         *)
(* interleaving (TraceWriter), and the replay frames and what is played back of *)
(* them, for every number of entities and frames, every interval between full   *)
(* frames and every size of the ring (Replay). They share no state.             *)
EXTENDS TraceWriter, Replay, NaturalFacts, FiniteSetTheorems, SequenceTheorems, TLAPS

--------------------------------------------------------------------------------
(* The trace writer: types *)

\* Appending to the second part of a sequence appends to the whole.
LEMMA ConcatAppend ==
    ASSUME NEW S, NEW s \in Seq(S), NEW q \in Seq(S), NEW e \in S
    PROVE  s \o Append(q, e) = Append(s \o q, e)
<1> DEFINE u == <<e>>
<1>1. u \in Seq(S)
  OBVIOUS
<1>2. Append(q, e) = q \o u
  BY AppendIsConcat
<1>3. s \o q \in Seq(S)
  BY ConcatProperties
<1>4. Append(s \o q, e) = (s \o q) \o u
  BY <1>3, AppendIsConcat
<1> HIDE DEF u
<1>5. (s \o q) \o u = s \o (q \o u)
  BY <1>1, ConcatAssociative
<1> QED BY <1>2, <1>4, <1>5

\* A thread's next record is a record.
LEMMA NewRecordType ==
    ASSUME TraceTypeOK, NEW t \in Threads, NEW size \in Sizes, made[t] < MaxRecords
    PROVE  [by |-> t, nr |-> made[t] + 1, size |-> size] \in Record
BY TraceAssumption DEF TraceTypeOK, Record

\* The writer takes the oldest record and leaves the others in order.
LEMMA TakeType ==
    ASSUME TraceTypeOK, WriterTake
    PROVE  /\ queue[1] \in Record
           /\ taken' = << queue[1] >>
           /\ queue' \in Seq(Record)
           /\ queue = << queue[1] >> \o queue'
<1>1. queue \in Seq(Record) /\ queue # <<>>
  BY DEF TraceTypeOK, WriterTake
<1>2. Len(queue) \in Nat \ {0}
  BY <1>1, EmptySeq
<1>3. queue[1] \in Record
  BY <1>1, <1>2, ElementOfSeq
<1>4. SubSeq(queue, 2, Len(queue)) \in Seq(Record)
  <2>1. \A i \in 2 .. Len(queue) : queue[i] \in Record
    BY <1>1, <1>2, ElementOfSeq
  <2> QED BY <1>2, <2>1, SubSeqProperties
<1>5. SubSeq(queue, 1, 0) = <<>>
  BY SubSeqEmpty
<1>6. queue' = SubSeq(queue, 2, Len(queue))
  <2>1. queue' = SubSeq(queue, 1, 0) \o SubSeq(queue, 2, Len(queue))
    BY DEF WriterTake, NextRecord
  <2> QED BY <2>1, <1>4, <1>5, ConcatEmptySeq
<1>7. queue = << queue[1] >> \o SubSeq(queue, 2, Len(queue))
  <2>1. queue = SubSeq(queue, 1, Len(queue))
    BY <1>1, SubSeqFull
  <2>2. SubSeq(queue, 1, Len(queue)) = << queue[1] >> \o SubSeq(queue, 1 + 1, Len(queue))
    BY <1>1, <1>2, SubSeqRecursiveFirst
  <2> QED BY <2>1, <2>2
<1>8. taken' = << queue[1] >>
  BY DEF WriterTake, NextRecord
<1> QED BY <1>3, <1>4, <1>6, <1>7, <1>8

\* A notification only takes sleepers away.
LEMMA NotifyOneShrinks ==
    ASSUME NEW s, NEW rest, NotifyOne(s, rest)
    PROVE  rest \subseteq s
BY DEF NotifyOne

\* The critical section of record keeps the types.
LEMMA TryRecordType ==
    ASSUME TraceTypeOK, NEW t \in Threads, NEW size \in Sizes, made[t] < MaxRecords,
           TryRecord(t, size),
           UNCHANGED <<closing, drowsy, wpc, taken, after, file, durable, flushes>>
    PROVE  TraceTypeOK'
<1> DEFINE r == [by |-> t, nr |-> made[t] + 1, size |-> size]
<1>1. r \in Record
  BY NewRecordType
<1> HIDE DEF r
<1>2. queue' \in Seq(Record) /\ accepted' \in Seq(Record)
  <2>1. \/ queue' = queue /\ accepted' = accepted
        \/ queue' = Append(queue, r) /\ accepted' = Append(accepted, r)
    BY Zenon DEF TryRecord, r
  <2>2. queue \in Seq(Record) /\ accepted \in Seq(Record)
    BY DEF TraceTypeOK
  <2>3. Append(queue, r) \in Seq(Record)
    BY <1>1, <2>2, AppendProperties
  <2>4. Append(accepted, r) \in Seq(Record)
    BY <1>1, <2>2, AppendProperties
  <2> QED BY <2>1, <2>2, <2>3, <2>4
<1>3. flushing' \in BOOLEAN
  <2>1. flushing \in BOOLEAN
    BY DEF TraceTypeOK
  <2>2. flushing' = flushing \/ flushing' = (flushing \/ QueuedBytes + size >= Threshold)
    BY Zenon DEF TryRecord
  <2> QED BY <2>1, <2>2
<1>4. pc' \in [Threads -> {"idle", "space", "notify", "drained", "join", "closed"}]
  BY DEF TryRecord, TraceTypeOK
<1>5. want' \in [Threads -> Sizes \cup {0}]
  BY ZenonT(60) DEF TryRecord, TraceTypeOK
<1>6. asleep' \subseteq Threads \cup {Writer}
  BY DEF TryRecord, TraceTypeOK
<1>7. made' \in [Threads -> 0 .. MaxRecords]
  <2>1. made' = made \/ made' = [made EXCEPT ![t] = @ + 1]
    BY Zenon DEF TryRecord
  <2>2. made \in [Threads -> 0 .. MaxRecords] /\ MaxRecords \in Nat
    BY TraceAssumption DEF TraceTypeOK
  <2> QED BY <2>1, <2>2
<1> QED BY <1>2, <1>3, <1>4, <1>5, <1>6, <1>7 DEF TraceTypeOK

\* A thread that waits for space holds the size of its record, and may make it.
Waiting == \A t \in Threads : pc[t] = "space" => want[t] \in Sizes /\ made[t] < MaxRecords

\* Every step keeps the types; what waits for space goes on holding its record.
LEMMA TypeStep ==
    ASSUME TraceTypeOK, Waiting, [TraceNext]_traceVars
    PROVE  TraceTypeOK' /\ Waiting'
<1>1. ASSUME NEW t \in Threads, NEW size \in Sizes, RecordEnter(t, size)
      PROVE  TraceTypeOK' /\ Waiting'
  <2>1. TraceTypeOK'
    BY <1>1, TryRecordType DEF RecordEnter
  <2>2. Waiting'
    BY <1>1 DEF RecordEnter, TryRecord, Waiting, TraceTypeOK
  <2> QED BY <2>1, <2>2
<1>2. ASSUME NEW t \in Threads, RecordWake(t)
      PROVE  TraceTypeOK' /\ Waiting'
  <2>1. want[t] \in Sizes /\ made[t] < MaxRecords
    BY <1>2 DEF RecordWake, Waiting
  <2>2. TraceTypeOK'
    BY <1>2, <2>1, TryRecordType DEF RecordWake
  <2>3. Waiting'
    BY <1>2, <2>1 DEF RecordWake, TryRecord, Waiting, TraceTypeOK
  <2> QED BY <2>2, <2>3
<1>3. ASSUME NEW t \in Threads, RecordNotify(t)
      PROVE  TraceTypeOK' /\ Waiting'
  <2>1. asleep' \subseteq asleep
    BY <1>3, NotifyOneShrinks DEF RecordNotify
  <2> QED BY <1>3, <2>1 DEF RecordNotify, TraceTypeOK, Waiting
<1>4. ASSUME NEW t \in Threads, FlushEnter(t)
      PROVE  TraceTypeOK' /\ Waiting'
  <2>1. asleep' \subseteq asleep
    BY <1>4, NotifyOneShrinks DEF FlushEnter
  <2>2. flushes' \in [Threads -> 0 .. MaxFlushes]
    BY <1>4, TraceAssumption DEF FlushEnter, TraceTypeOK
  <2>3. Waiting'
    BY <1>4 DEF FlushEnter, TraceTypeOK, Waiting
  <2> QED BY <1>4, <2>1, <2>2, <2>3 DEF FlushEnter, TraceTypeOK
<1>5. ASSUME NEW t \in Threads, FlushWake(t)
      PROVE  TraceTypeOK' /\ Waiting'
  BY <1>5 DEF FlushWake, TraceTypeOK, Waiting
<1>6. ASSUME NEW t \in Threads, Close(t)
      PROVE  TraceTypeOK' /\ Waiting'
  BY <1>6 DEF Close, TraceTypeOK, Waiting
<1>7. ASSUME NEW t \in Threads, Join(t)
      PROVE  TraceTypeOK' /\ Waiting'
  BY <1>7 DEF Join, TraceTypeOK, Waiting
<1>8. CASE WriterSleep
  BY <1>8 DEF WriterSleep, TraceTypeOK, Waiting
<1>9. CASE WriterDrain
  <2>1. flushing' \in BOOLEAN
    BY <1>9 DEF WriterDrain, TraceTypeOK
  <2>2. Len(file) \in Nat
    BY LenProperties DEF TraceTypeOK
  <2> QED BY <1>9, <2>1, <2>2 DEF WriterDrain, TraceTypeOK, Waiting
<1>10. CASE WriterTake
  <2>1. taken' \in Seq(Record) /\ Len(taken') <= 1
    <3>1. queue[1] \in Record /\ taken' = << queue[1] >>
      BY <1>10, TakeType
    <3> QED BY <3>1
  <2>2. queue' \in Seq(Record)
    BY <1>10, TakeType
  <2>3. after' \in BOOLEAN
    BY <1>10 DEF WriterTake, TraceTypeOK
  <2> QED BY <1>10, <2>1, <2>2, <2>3 DEF WriterTake, TraceTypeOK, Waiting
<1>11. CASE WriterWrite
  <2>1. file' \in Seq(Record) /\ Len(file') = Len(file) + Len(taken)
    BY <1>11, ConcatProperties DEF WriterWrite, TraceTypeOK
  <2>2. Len(file) \in Nat /\ Len(taken) \in Nat
    BY LenProperties DEF TraceTypeOK
  <2>3. durable' \in 0 .. Len(file')
    BY <1>11, <2>1, <2>2 DEF WriterWrite, TraceTypeOK
  <2>4. taken' \in Seq(Record) /\ Len(taken') <= 1
    BY <1>11 DEF WriterWrite
  <2> QED BY <1>11, <2>1, <2>3, <2>4 DEF WriterWrite, TraceTypeOK, Waiting
<1>12. CASE WriterReset
  BY <1>12 DEF WriterReset, TraceTypeOK, Waiting
<1>13. CASE UNCHANGED traceVars
  BY <1>13 DEF traceVars, TraceTypeOK, Waiting
<1> QED BY <1>1, <1>2, <1>3, <1>4, <1>5, <1>6, <1>7, <1>8, <1>9, <1>10, <1>11, <1>12,
           <1>13 DEF TraceNext, Resume, WriterStep

--------------------------------------------------------------------------------
(* No record is lost, doubled or reordered. *)

\* The writer holds a record only between its two critical sections.
HandsEmpty == wpc # "write" => taken = <<>>

\* A writer that ended was told to close and has everything on disk.
EndedIsDurable == wpc = "ended" => closing /\ queue = <<>> /\ durable = Len(file)

\* close returns after the writer's end.
ClosedAfterEnd == \A t \in Threads : pc[t] = "closed" => wpc = "ended"

\* The inductive invariant.
TraceInv ==
  /\ TraceTypeOK /\ Waiting
  /\ NothingLost
  /\ HandsEmpty /\ EndedIsDurable /\ ClosedAfterEnd

\* The critical section of record, for what is not a matter of types.
LEMMA TryRecordSafe ==
    ASSUME TraceInv, NEW t \in Threads, NEW size \in Sizes, made[t] < MaxRecords,
           TryRecord(t, size), pc[t] # "closed",
           UNCHANGED <<closing, drowsy, wpc, taken, after, file, durable, flushes>>
    PROVE  NothingLost' /\ HandsEmpty' /\ EndedIsDurable' /\ ClosedAfterEnd'
<1> DEFINE r == [by |-> t, nr |-> made[t] + 1, size |-> size]
<1>1. r \in Record
  BY NewRecordType DEF TraceInv
<1>2. \/ queue' = queue /\ accepted' = accepted
      \/ ~closing /\ queue' = Append(queue, r) /\ accepted' = Append(accepted, r)
  BY Zenon DEF TryRecord
<1> HIDE DEF r
<1>3. queue \in Seq(Record) /\ file \in Seq(Record) /\ taken \in Seq(Record)
      /\ accepted \in Seq(Record) /\ file \o taken \o queue = accepted
  BY DEF TraceInv, TraceTypeOK, NothingLost
<1>4. file \o taken \o Append(queue, r) = Append(accepted, r)
  <2>1. file \o taken \in Seq(Record)
    BY <1>3, ConcatProperties
  <2> QED BY <1>1, <1>3, <2>1, ConcatAppend
<1>5. NothingLost'
  BY <1>2, <1>3, <1>4 DEF NothingLost
<1>6. HandsEmpty' /\ EndedIsDurable'
  BY <1>2 DEF TraceInv, HandsEmpty, EndedIsDurable
<1>7. pc' \in {[pc EXCEPT ![t] = v] : v \in {"idle", "notify", "space"}}
  BY Zenon DEF TryRecord
<1>8. ClosedAfterEnd'
  BY <1>7 DEF TraceInv, ClosedAfterEnd, TraceTypeOK
<1> QED BY <1>5, <1>6, <1>8

\* Every step keeps the inductive invariant.
LEMMA TraceStep ==
    ASSUME TraceInv, [TraceNext]_traceVars
    PROVE  TraceInv'
<1>0. TraceTypeOK' /\ Waiting'
  BY TypeStep DEF TraceInv
<1> SUFFICES NothingLost' /\ HandsEmpty' /\ EndedIsDurable' /\ ClosedAfterEnd'
  BY <1>0 DEF TraceInv
<1>1. ASSUME NEW t \in Threads, NEW size \in Sizes, RecordEnter(t, size)
      PROVE  NothingLost' /\ HandsEmpty' /\ EndedIsDurable' /\ ClosedAfterEnd'
  BY <1>1, TryRecordSafe DEF RecordEnter
<1>2. ASSUME NEW t \in Threads, RecordWake(t)
      PROVE  NothingLost' /\ HandsEmpty' /\ EndedIsDurable' /\ ClosedAfterEnd'
  <2>1. want[t] \in Sizes /\ made[t] < MaxRecords
    BY <1>2 DEF RecordWake, Waiting, TraceInv
  <2> QED BY <1>2, <2>1, TryRecordSafe DEF RecordWake
<1>3. ASSUME NEW t \in Threads, RecordNotify(t)
      PROVE  NothingLost' /\ HandsEmpty' /\ EndedIsDurable' /\ ClosedAfterEnd'
  BY <1>3 DEF RecordNotify, TraceInv, TraceTypeOK, NothingLost, HandsEmpty, EndedIsDurable,
              ClosedAfterEnd
<1>4. ASSUME NEW t \in Threads, FlushEnter(t)
      PROVE  NothingLost' /\ HandsEmpty' /\ EndedIsDurable' /\ ClosedAfterEnd'
  BY <1>4 DEF FlushEnter, TraceInv, TraceTypeOK, NothingLost, HandsEmpty, EndedIsDurable,
              ClosedAfterEnd
<1>5. ASSUME NEW t \in Threads, FlushWake(t)
      PROVE  NothingLost' /\ HandsEmpty' /\ EndedIsDurable' /\ ClosedAfterEnd'
  BY <1>5 DEF FlushWake, TraceInv, TraceTypeOK, NothingLost, HandsEmpty, EndedIsDurable,
              ClosedAfterEnd
<1>6. ASSUME NEW t \in Threads, Close(t)
      PROVE  NothingLost' /\ HandsEmpty' /\ EndedIsDurable' /\ ClosedAfterEnd'
  BY <1>6 DEF Close, TraceInv, TraceTypeOK, NothingLost, HandsEmpty, EndedIsDurable,
              ClosedAfterEnd
<1>7. ASSUME NEW t \in Threads, Join(t)
      PROVE  NothingLost' /\ HandsEmpty' /\ EndedIsDurable' /\ ClosedAfterEnd'
  BY <1>7 DEF Join, TraceInv, TraceTypeOK, NothingLost, HandsEmpty, EndedIsDurable,
              ClosedAfterEnd
<1>8. CASE WriterSleep
  BY <1>8 DEF WriterSleep, TraceInv, NothingLost, HandsEmpty, EndedIsDurable, ClosedAfterEnd
<1>9. CASE WriterDrain
  <2>1. ClosedAfterEnd'
    BY <1>9 DEF WriterDrain, TraceInv, ClosedAfterEnd
  <2> QED BY <1>9, <2>1 DEF WriterDrain, Drained, TraceInv, NothingLost, HandsEmpty,
                            EndedIsDurable
<1>10. CASE WriterTake
  <2>1. /\ queue[1] \in Record
        /\ taken' = << queue[1] >>
        /\ queue' \in Seq(Record)
        /\ queue = << queue[1] >> \o queue'
    BY <1>10, TakeType DEF TraceInv
  <2>2. taken = <<>> /\ file \in Seq(Record) /\ file \o taken \o queue = accepted
    BY <1>10 DEF WriterTake, TraceInv, TraceTypeOK, HandsEmpty, NothingLost
  <2>3. file \o taken = file
    BY <2>2, ConcatEmptySeq
  <2>4. taken' \in Seq(Record)
    BY <2>1
  <2>5. (file \o taken') \o queue' = file \o (taken' \o queue')
    BY <2>1, <2>2, <2>4, ConcatAssociative
  <2>6. file' = file /\ accepted' = accepted
    BY <1>10 DEF WriterTake
  <2>7. NothingLost'
    BY <2>1, <2>2, <2>3, <2>5, <2>6 DEF NothingLost
  <2>8. HandsEmpty' /\ EndedIsDurable' /\ ClosedAfterEnd'
    BY <1>10 DEF WriterTake, TraceInv, HandsEmpty, EndedIsDurable, ClosedAfterEnd
  <2> QED BY <2>7, <2>8
<1>11. CASE WriterWrite
  <2>1. file' = file \o taken /\ taken' = <<>> /\ queue' = queue /\ accepted' = accepted
    BY <1>11 DEF WriterWrite
  <2>2. file \in Seq(Record) /\ taken \in Seq(Record)
    BY DEF TraceInv, TraceTypeOK
  <2>3. file' \o taken' = file \o taken
    BY <2>1, <2>2, ConcatProperties, ConcatEmptySeq
  <2>4. NothingLost'
    BY <2>1, <2>3 DEF NothingLost, TraceInv
  <2>5. HandsEmpty' /\ EndedIsDurable' /\ ClosedAfterEnd'
    BY <1>11 DEF WriterWrite, TraceInv, HandsEmpty, EndedIsDurable, ClosedAfterEnd
  <2> QED BY <2>4, <2>5
<1>12. CASE WriterReset
  BY <1>12 DEF WriterReset, TraceInv, NothingLost, HandsEmpty, EndedIsDurable, ClosedAfterEnd
<1>13. CASE UNCHANGED traceVars
  BY <1>13 DEF traceVars, TraceInv, NothingLost, HandsEmpty, EndedIsDurable, ClosedAfterEnd
<1> QED
  BY <1>1, <1>2, <1>3, <1>4, <1>5, <1>6, <1>7, <1>8, <1>9, <1>10, <1>11, <1>12, <1>13
     DEF TraceNext, Resume, WriterStep

\* The empty sink satisfies it.
LEMMA TraceStart ==
    ASSUME TraceInit
    PROVE  TraceInv
<1>1. TraceTypeOK
  <2>1. made \in [Threads -> 0 .. MaxRecords] /\ flushes \in [Threads -> 0 .. MaxFlushes]
    BY TraceAssumption DEF TraceInit
  <2>2. <<>> \in Seq(Record) /\ Len(<<>>) = 0
    BY EmptySeq
  <2>3. durable \in 0 .. Len(file) /\ Len(taken) <= 1
    BY <2>2 DEF TraceInit
  <2>4. {flushing, closing, after} \subseteq BOOLEAN
    BY DEF TraceInit
  <2>5. /\ pc \in [Threads -> {"idle", "space", "notify", "drained", "join", "closed"}]
        /\ want \in [Threads -> Sizes \cup {0}]
        /\ wpc \in {"top", "write", "reset", "ended"}
    BY DEF TraceInit
  <2> QED BY <2>1, <2>2, <2>3, <2>4, <2>5 DEF TraceInit, TraceTypeOK
<1>2. NothingLost
  BY DEF TraceInit, NothingLost
<1> QED BY <1>1, <1>2 DEF TraceInit, TraceInv, Waiting, HandsEmpty, EndedIsDurable, ClosedAfterEnd

\* The inductive invariant holds in every reachable state.
LEMMA TraceInvAlways == TraceSpec => []TraceInv
<1>1. TraceInit => TraceInv
  BY TraceStart
<1>2. TraceInv /\ [TraceNext]_traceVars => TraceInv'
  BY TraceStep
<1> QED BY <1>1, <1>2, PTL DEF TraceSpec

--------------------------------------------------------------------------------
(* Theorems. *)

\* Every variable of a sink keeps the shape the code gives it.
THEOREM TypeCorrect == TraceSpec => []TraceTypeOK
<1>1. TraceInv => TraceTypeOK
  BY DEF TraceInv
<1> QED BY <1>1, TraceInvAlways, PTL

\* Whatever threads record, flush and close at the same time, the file, the
\* writer's hands and the queue together hold every accepted record once, in the
\* order of acceptance (record, run_sink).
THEOREM NothingLostAlways == TraceSpec => []NothingLost
<1>1. TraceInv => NothingLost
  BY DEF TraceInv
<1> QED BY <1>1, TraceInvAlways, PTL

\* When close has returned, every record ever accepted is on disk (close, run_sink).
THEOREM CloseIsDurableAlways == TraceSpec => []CloseIsDurable
<1>1. TraceInv => CloseIsDurable
  <2> SUFFICES ASSUME TraceInv, NEW t \in Threads, pc[t] = "closed"
               PROVE  file = accepted /\ durable = Len(file)
    BY DEF CloseIsDurable
  <2>1. taken = <<>> /\ queue = <<>> /\ durable = Len(file)
    BY DEF TraceInv, ClosedAfterEnd, EndedIsDurable, HandsEmpty
  <2>2. file \in Seq(Record) /\ file \o taken \o queue = accepted
    BY DEF TraceInv, TraceTypeOK, NothingLost
  <2> QED BY <2>1, <2>2, ConcatEmptySeq
<1> QED BY <1>1, TraceInvAlways, PTL

--------------------------------------------------------------------------------
(* The bytes of a queue. Induction over the naturals is used as a fact about   *)
(* the set of numbers that have the property.                                  *)

LEMMA RecordSize ==
    ASSUME NEW q \in Seq(Record)
    PROVE  Len(q) \in Nat /\ \A i \in 1..Len(q) : q[i].size \in Nat
<1>1. Len(q) \in Nat /\ \A i \in 1..Len(q) : q[i] \in Record
  BY ElementOfSeq, LenProperties
<1>2. \A r \in Record : r.size \in Nat
  BY TraceAssumption DEF Record
<1> QED BY <1>1, <1>2

\* f holds the sums of the sizes of the first records of q.
IsSum(f, q) == f = [i \in 0..Len(q) |-> IF i = 0 THEN 0 ELSE f[i - 1] + q[i].size]

LEMMA SumExists ==
    ASSUME NEW q \in Seq(Record)
    PROVE  \E f \in [0..Len(q) -> Nat] : IsSum(f, q)
<1> DEFINE P(n) == \E f \in [0..n -> Nat] : /\ f[0] = 0
                                            /\ \A i \in 1..n : f[i] = f[i - 1] + q[i].size
           K == {n \in Nat : n <= Len(q) => P(n)}
<1>0. Len(q) \in Nat /\ \A i \in 1..Len(q) : q[i].size \in Nat
  BY RecordSize
<1>1. P(0)
  <2> DEFINE z == [i \in 0..0 |-> 0]
  <2>1. z \in [0..0 -> Nat] /\ z[0] = 0 /\ \A i \in 1..0 : z[i] = z[i - 1] + q[i].size
    OBVIOUS
  <2> HIDE DEF z
  <2> QED BY <2>1
<1>2. ASSUME NEW n \in Nat, n + 1 <= Len(q), P(n) PROVE P(n + 1)
  <2>1. PICK f \in [0..n -> Nat] : f[0] = 0 /\ \A i \in 1..n : f[i] = f[i - 1] + q[i].size
    BY <1>2
  <2> DEFINE g == [i \in 0..(n + 1) |-> IF i = n + 1 THEN f[n] + q[n + 1].size ELSE f[i]]
  <2>2. q[n + 1].size \in Nat
    BY <1>0, <1>2
  <2>3. g \in [0..(n + 1) -> Nat]
    BY <2>1, <2>2
  <2>4. g[0] = 0 /\ \A i \in 1..(n + 1) : g[i] = g[i - 1] + q[i].size
    BY <2>1
  <2> HIDE DEF g
  <2> QED BY <2>3, <2>4
<1> HIDE DEF P
<1>3. K = Nat
  <2>1. 0 \in K
    BY <1>1
  <2>2. \A n \in K : n + 1 \in K
    BY <1>0, <1>2
  <2> HIDE DEF K
  <2>3. K \subseteq Nat
    BY DEF K
  <2> QED BY <2>1, <2>2, <2>3, Induct
<1>4. PICK f \in [0..Len(q) -> Nat] :
        f[0] = 0 /\ \A i \in 1..Len(q) : f[i] = f[i - 1] + q[i].size
  <2>1. P(Len(q))
    BY <1>0, <1>3
  <2> QED BY <2>1 DEF P
<1>5. f = [i \in 0..Len(q) |-> IF i = 0 THEN 0 ELSE f[i - 1] + q[i].size]
  BY <1>0, <1>4
<1> QED BY <1>5 DEF IsSum

\* The same, value by value.
SizesAddUp(f, q) == f[0] = 0 /\ \A i \in 1..Len(q) : f[i] = f[i - 1] + q[i].size

LEMMA SumValues ==
    ASSUME NEW q, Len(q) \in Nat, NEW f, IsSum(f, q)
    PROVE  SizesAddUp(f, q) /\ f = [i \in 0..Len(q) |-> f[i]]
<1> DEFINE e == [i \in 0..Len(q) |-> IF i = 0 THEN 0 ELSE f[i - 1] + q[i].size]
<1>1. f = e
  BY DEF IsSum
<1>2. e = [i \in 0..Len(q) |-> e[i]]
  OBVIOUS
<1>3. e[0] = 0 /\ \A i \in 1..Len(q) : e[i] = f[i - 1] + q[i].size
  OBVIOUS
<1> HIDE DEF e
<1> QED BY <1>1, <1>2, <1>3 DEF SizesAddUp

LEMMA SumUnique ==
    ASSUME NEW q \in Seq(Record), NEW f, IsSum(f, q), NEW g, IsSum(g, q)
    PROVE  g = f
<1>0. Len(q) \in Nat
  OBVIOUS
<1>1. SizesAddUp(f, q) /\ f = [i \in 0..Len(q) |-> f[i]]
  BY <1>0, SumValues
<1>2. SizesAddUp(g, q) /\ g = [i \in 0..Len(q) |-> g[i]]
  BY <1>0, SumValues
<1> DEFINE K == {n \in Nat : n <= Len(q) => f[n] = g[n]}
<1>3. 0 \in K
  BY <1>1, <1>2 DEF SizesAddUp
<1>4. ASSUME NEW n \in K PROVE n + 1 \in K
  BY <1>0, <1>1, <1>2 DEF SizesAddUp
<1>5. K = Nat
  <2> HIDE DEF K
  <2>1. K \subseteq Nat
    BY DEF K
  <2> QED BY <1>3, <1>4, <2>1, Induct
<1>6. \A i \in 0..Len(q) : f[i] = g[i]
  BY <1>0, <1>5
<1> QED BY <1>1, <1>2, <1>6

\* Bytes is the last of the sums.
LEMMA BytesIsSum ==
    ASSUME NEW q \in Seq(Record), NEW f, IsSum(f, q)
    PROVE  Bytes(q) = f[Len(q)]
<1>1. \A g : IsSum(g, q) => g = f
  BY SumUnique
<1> QED BY <1>1, Zenon DEF Bytes, IsSum

LEMMA BytesEmpty == Bytes(<<>>) = 0
<1> DEFINE q == <<>>
<1>1. q \in Seq(Record) /\ Len(q) = 0
  OBVIOUS
<1> HIDE DEF q
<1>2. PICK f : IsSum(f, q)
  BY <1>1, SumExists
<1>3. Bytes(q) = f[0]
  BY <1>1, <1>2, BytesIsSum
<1>4. f[0] = 0
  BY <1>1, <1>2, SumValues DEF SizesAddUp
<1> QED BY <1>3, <1>4 DEF q

LEMMA BytesAppend ==
    ASSUME NEW q \in Seq(Record), NEW r \in Record
    PROVE  Bytes(Append(q, r)) = Bytes(q) + r.size
<1> DEFINE a == Append(q, r)
<1>1. /\ a \in Seq(Record) /\ Len(q) \in Nat /\ Len(a) = Len(q) + 1
      /\ \A i \in 1..Len(q) : a[i] = q[i]
      /\ a[Len(q) + 1] = r
  BY AppendProperties
<1> HIDE DEF a
<1>2. PICK f \in [0..Len(a) -> Nat] : IsSum(f, a)
  BY <1>1, SumExists
<1>3. f[0] = 0 /\ \A i \in 1..Len(a) : f[i] = f[i - 1] + a[i].size
  <2>1. SizesAddUp(f, a)
    BY <1>1, <1>2, SumValues
  <2> QED BY <2>1 DEF SizesAddUp
<1> DEFINE g == [i \in 0..Len(q) |-> f[i]]
<1>4. g = [i \in 0..Len(q) |-> IF i = 0 THEN 0 ELSE g[i - 1] + q[i].size]
  <2>1. \A i \in 0..Len(q) : f[i] = IF i = 0 THEN 0 ELSE g[i - 1] + q[i].size
    BY <1>1, <1>3
  <2> QED BY <2>1
<1>5. g[Len(q)] = f[Len(q)]
  BY <1>1
<1> HIDE DEF g
<1>6. Bytes(q) = f[Len(q)]
  BY <1>4, <1>5, BytesIsSum DEF IsSum
<1>7. Bytes(a) = f[Len(a)]
  BY <1>1, <1>2, BytesIsSum
<1>8. f[Len(a)] = f[Len(q)] + r.size
  BY <1>1, <1>3
<1> QED BY <1>6, <1>7, <1>8 DEF a

LEMMA BytesFirst ==
    ASSUME NEW s \in Seq(Record), NEW r \in Record
    PROVE  /\ Bytes(<<r>> \o s) = Bytes(s) + r.size
           /\ Bytes(s) \in Nat
<1> DEFINE u == <<r>>
           q == u \o s
<1>0. u \in Seq(Record) /\ Len(u) = 1 /\ u[1] = r
  OBVIOUS
<1> HIDE DEF u
<1>1. /\ q \in Seq(Record) /\ Len(s) \in Nat /\ Len(q) = Len(s) + 1
      /\ q[1] = r /\ \A i \in 1..Len(s) : q[i + 1] = s[i]
  <2>1. /\ q \in Seq(Record) /\ Len(q) = Len(u) + Len(s) /\ Len(s) \in Nat
        /\ \A i \in 1..Len(u) + Len(s) : q[i] = IF i <= Len(u) THEN u[i] ELSE s[i - Len(u)]
    BY <1>0, ConcatProperties, LenProperties
  <2> HIDE DEF q
  <2>2. q[1] = r
    BY <1>0, <2>1
  <2>3. ASSUME NEW i \in 1..Len(s) PROVE q[i + 1] = s[i]
    BY <1>0, <2>1
  <2> QED BY <1>0, <2>1, <2>2, <2>3
<1> HIDE DEF q
<1>2. PICK f \in [0..Len(q) -> Nat] : IsSum(f, q)
  BY <1>1, SumExists
<1>3. PICK g \in [0..Len(s) -> Nat] : IsSum(g, s)
  BY <1>1, SumExists
<1>4. /\ f[0] = 0 /\ \A i \in 1..Len(q) : f[i] = f[i - 1] + q[i].size
      /\ g[0] = 0 /\ \A i \in 1..Len(s) : g[i] = g[i - 1] + s[i].size
  <2>1. SizesAddUp(f, q)
    BY <1>1, <1>2, SumValues
  <2>2. SizesAddUp(g, s)
    BY <1>1, <1>3, SumValues
  <2> QED BY <2>1, <2>2 DEF SizesAddUp
<1>5. \A i \in 1..Len(s) : s[i].size \in Nat
  BY RecordSize
<1>6. r.size \in Nat
  BY TraceAssumption DEF Record
<1> DEFINE K == {n \in Nat : n <= Len(s) => f[n + 1] = g[n] + r.size}
<1>7. 0 \in K
  BY <1>1, <1>4, <1>6
<1>8. ASSUME NEW n \in K PROVE n + 1 \in K
  <2> SUFFICES ASSUME n + 1 <= Len(s) PROVE f[(n + 1) + 1] = g[n + 1] + r.size
    OBVIOUS
  <2>1. f[(n + 1) + 1] = f[n + 1] + q[(n + 1) + 1].size
    BY <1>1, <1>4
  <2>2. q[(n + 1) + 1] = s[n + 1] /\ s[n + 1].size \in Nat
    BY <1>1, <1>5
  <2>3. g[n + 1] = g[n] + s[n + 1].size /\ g[n] \in Nat
    <3>1. n + 1 \in 1..Len(s) /\ n \in 0..Len(s) /\ (n + 1) - 1 = n
      BY <1>1
    <3>2. g[n + 1] = g[(n + 1) - 1] + s[n + 1].size
      BY <1>4, <3>1
    <3> QED BY <1>3, <3>1, <3>2
  <2>4. f[n + 1] = g[n] + r.size
    BY <1>1
  <2> QED BY <1>6, <2>1, <2>2, <2>3, <2>4
<1>9. K = Nat
  <2> HIDE DEF K
  <2>1. K \subseteq Nat
    BY DEF K
  <2> QED BY <1>7, <1>8, <2>1, Induct
<1>10. f[Len(q)] = g[Len(s)] + r.size /\ g[Len(s)] \in Nat
  <2>1. Len(s) \in Nat /\ Len(s) \in 0..Len(s) /\ Len(s) <= Len(s)
    BY <1>1
  <2>2. Len(s) \in K
    <3> HIDE DEF K
    <3> QED BY <1>9, <2>1
  <2>3. f[Len(s) + 1] = g[Len(s)] + r.size
    BY <2>1, <2>2
  <2> QED BY <1>1, <1>3, <2>1, <2>3
<1>11. Bytes(q) = f[Len(q)]
  BY <1>1, <1>2, BytesIsSum
<1>12. Bytes(s) = g[Len(s)]
  BY <1>3, BytesIsSum
<1> QED BY <1>10, <1>11, <1>12 DEF q, u

--------------------------------------------------------------------------------
(* The queue is bounded. *)

\* record appends only where there is space.
LEMMA TryRecordBounded ==
    ASSUME TraceTypeOK, QueueBounded, NEW t \in Threads, NEW size \in Sizes, made[t] < MaxRecords,
           TryRecord(t, size)
    PROVE  QueueBounded'
<1> DEFINE r == [by |-> t, nr |-> made[t] + 1, size |-> size]
<1>1. r \in Record /\ r.size = size
  BY NewRecordType
<1>2. queue' = queue \/ (HasSpace(size) /\ queue' = Append(queue, r))
  BY Zenon DEF TryRecord
<1> HIDE DEF r
<1>3. CASE queue' = queue
  BY <1>3 DEF QueueBounded, QueuedBytes
<1>4. CASE HasSpace(size) /\ queue' = Append(queue, r)
  <2>1. queue \in Seq(Record)
    BY DEF TraceTypeOK
  <2>2. CASE queue = <<>>
    <3>1. Len(queue') = 1
      BY <1>1, <1>4, <2>1, <2>2, AppendProperties
    <3> QED BY <3>1 DEF QueueBounded
  <2>3. CASE queue # <<>>
    <3>1. QueuedBytes + size <= Capacity
      BY <1>4, <2>3 DEF HasSpace
    <3>2. Bytes(queue') = Bytes(queue) + size
      BY <1>1, <1>4, <2>1, BytesAppend
    <3> QED BY <3>1, <3>2 DEF QueueBounded, QueuedBytes
  <2> QED BY <2>2, <2>3
<1> QED BY <1>2, <1>3, <1>4

LEMMA BoundedStep ==
    ASSUME TraceInv, QueueBounded, [TraceNext]_traceVars
    PROVE  QueueBounded'
<1>1. ASSUME NEW t \in Threads, NEW size \in Sizes, RecordEnter(t, size)
      PROVE  QueueBounded'
  BY <1>1, TryRecordBounded DEF RecordEnter, TraceInv
<1>2. ASSUME NEW t \in Threads, RecordWake(t)
      PROVE  QueueBounded'
  <2>1. want[t] \in Sizes /\ made[t] < MaxRecords
    BY <1>2 DEF RecordWake, Waiting, TraceInv
  <2> QED BY <1>2, <2>1, TryRecordBounded DEF RecordWake, TraceInv
<1>3. CASE WriterTake
  <2>1. queue[1] \in Record /\ queue' \in Seq(Record) /\ queue = << queue[1] >> \o queue'
    BY <1>3, TakeType DEF TraceInv
  <2>2. Bytes(queue) = Bytes(queue') + queue[1].size /\ Bytes(queue') \in Nat
    BY <2>1, BytesFirst
  <2>3. queue[1].size \in Nat /\ Capacity \in Nat
    BY <2>1, TraceAssumption DEF Record
  <2>4. CASE Bytes(queue) <= Capacity
    BY <2>2, <2>3, <2>4 DEF QueueBounded, QueuedBytes
  <2>5. CASE Len(queue) = 1
    <3>1. Len(queue') = 0
      <4> DEFINE u == << queue[1] >>
      <4>1. u \in Seq(Record) /\ Len(u) = 1
        BY <2>1
      <4> HIDE DEF u
      <4>2. queue = u \o queue'
        BY <2>1 DEF u
      <4>3. Len(u \o queue') = Len(u) + Len(queue') /\ Len(queue') \in Nat
        BY <2>1, <4>1, ConcatProperties
      <4> QED BY <2>5, <4>1, <4>2, <4>3
    <3>2. queue' = <<>>
      BY <2>1, <3>1, EmptySeq
    <3> QED BY <2>3, <3>2, BytesEmpty DEF QueueBounded, QueuedBytes
  <2> QED BY <2>4, <2>5 DEF QueueBounded, QueuedBytes
<1>4. CASE UNCHANGED queue
  BY <1>4 DEF QueueBounded, QueuedBytes
<1>5. ASSUME NEW t \in Threads, FlushEnter(t) \/ Close(t) \/ RecordNotify(t) \/ FlushWake(t) \/ Join(t)
      PROVE  UNCHANGED queue
  BY <1>5 DEF FlushEnter, Close, RecordNotify, FlushWake, Join
<1>6. ASSUME WriterSleep \/ WriterDrain \/ WriterWrite \/ WriterReset
      PROVE  UNCHANGED queue
  BY <1>6 DEF WriterSleep, WriterDrain, WriterWrite, WriterReset
<1> QED BY <1>1, <1>2, <1>3, <1>4, <1>5, <1>6 DEF TraceNext, Resume, WriterStep, traceVars

\* The queue holds more bytes than its capacity only while one record alone does,
\* however the waits for space and the writer interleave (record, run_sink).
THEOREM QueueBoundedAlways == TraceSpec => []QueueBounded
<1>1. TraceInit => QueueBounded
  BY BytesEmpty, TraceAssumption DEF TraceInit, QueueBounded, QueuedBytes
<1>2. TraceInv /\ QueueBounded /\ [TraceNext]_traceVars => QueueBounded'
  BY BoundedStep
<1> QED BY <1>1, <1>2, TraceInvAlways, PTL DEF TraceSpec

--------------------------------------------------------------------------------
(* Discovery                                                                    *)

\* The slots of the live entities, and the free ones.
SlotsOK(sl, fr, L) ==
  /\ \A i \in 1 .. Len(sl) : sl[i] = Nobody \/ sl[i] \in L
  /\ \A i, j \in 1 .. Len(sl) : sl[i] = sl[j] /\ sl[i] # Nobody => i = j
  /\ \A i \in 1 .. Len(fr) : fr[i] \in 1 .. Len(sl) /\ sl[fr[i]] = Nobody
  /\ \A i, j \in 1 .. Len(fr) : fr[i] = fr[j] => i = j

Table(t, L) ==
  /\ t = [slots |-> t.slots, free |-> t.free, gone |-> t.gone]
  /\ IsSeq(t.slots) /\ IsSeq(t.free)
  /\ SlotsOK(t.slots, t.free, L)

\* From the slots as they were: those of K were given up, A are new.
Moved(was, t, K, A) ==
  /\ Len(was) <= Len(t.slots)
  /\ \A i \in 1 .. Len(t.slots) :
       \/ i <= Len(was) /\ t.slots[i] = was[i] /\ was[i] \notin K
       \/ t.slots[i] \in A \cup {Nobody} /\ (i <= Len(was) => was[i] \in K \cup {Nobody})
  /\ t.gone = {i \in 1 .. Len(was) : was[i] \in K}

\* An entity loses its slot.
LEMMA DeactivatedTable ==
  ASSUME NEW was, IsSeq(was), NEW t, NEW L, Table(t, L), NEW K, NEW e, e # Nobody,
         Nobody \notin K, Moved(was, t, K, {})
  PROVE  /\ Table(Deactivated(t, e), L \ {e})
         /\ Moved(was, Deactivated(t, e), K \cup {e}, {})
<1> DEFINE at == {i \in 1 .. Len(t.slots) : t.slots[i] = e}
<1>0. /\ Len(t.slots) \in Nat /\ Len(t.free) \in Nat /\ Len(was) \in Nat
      /\ Len(was) <= Len(t.slots)
  BY DEF Table, IsSeq, Moved
<1>1. \A i \in 1 .. Len(was) : was[i] \in K \cup {e} <=> (was[i] \in K \/ i \in at)
  BY <1>0 DEF Moved
<1>2. \A i \in at : i \in 1 .. Len(was) /\ was[i] = e
  BY <1>0 DEF Moved
<1>3. t.gone \cup at = {i \in 1 .. Len(was) : was[i] \in K \cup {e}}
  BY <1>1, <1>2 DEF Moved
<1>4. CASE at = {}
  <2>1. Deactivated(t, e) = t
    BY <1>4 DEF Deactivated
  <2>2. \A i \in 1 .. Len(t.slots) : t.slots[i] # e
    BY <1>4
  <2>3. Table(t, L \ {e})
    BY <2>2 DEF Table, SlotsOK
  <2>4. t.gone = {i \in 1 .. Len(was) : was[i] \in K \cup {e}}
    BY <1>3, <1>4
  <2>5. Moved(was, t, K \cup {e}, {})
    <3> HIDE DEF at
    <3> QED BY <1>0, <2>2, <2>4 DEF Moved
  <2> QED BY <2>1, <2>3, <2>5
<1>5. CASE at # {}
  <2>1. PICK k \in at : k = CHOOSE i \in at : TRUE
    BY <1>5
  <2>2. k \in 1 .. Len(t.slots) /\ t.slots[k] = e /\ \A i \in at : i = k
    BY <2>1 DEF Table, SlotsOK
  <2> DEFINE sl == [i \in 1 .. Len(t.slots) |-> IF i \in at THEN Nobody ELSE t.slots[i]]
             u == Deactivated(t, e)
  <2>3. u = [slots |-> sl, free |-> Append(t.free, k), gone |-> t.gone \cup at]
    <3>1. u = [t EXCEPT !.slots = [i \in 1 .. Len(t.slots) |-> IF i \in at THEN Nobody ELSE @[i]],
                        !.free = Append(@, k), !.gone = @ \cup at]
      BY <1>5, <2>1 DEF Deactivated
    <3>2. t = [slots |-> t.slots, free |-> t.free, gone |-> t.gone]
      BY DEF Table
    <3> HIDE DEF at, u
    <3> QED BY <3>1, <3>2
  <2>4. /\ IsSeq(sl) /\ Len(sl) = Len(t.slots)
        /\ \A i \in 1 .. Len(t.slots) : sl[i] = IF i = k THEN Nobody ELSE t.slots[i]
    <3>1. sl = [i \in 1 .. Len(t.slots) |-> sl[i]]
      OBVIOUS
    <3>2. \A i \in 1 .. Len(t.slots) : sl[i] = IF i = k THEN Nobody ELSE t.slots[i]
      BY <2>1, <2>2
    <3> HIDE DEF sl
    <3> QED BY <1>0, <3>1, <3>2, FunctionIsSeq
  <2> HIDE DEF at, sl, u
  <2>5. PICK fr, m : fr = Append(t.free, k) /\ m = Len(t.free)
    OBVIOUS
  <2>6. /\ IsSeq(fr) /\ Len(fr) = m + 1 /\ m \in Nat /\ fr[m + 1] = k
        /\ \A i \in 1 .. m : fr[i] = t.free[i]
    BY <1>0, <2>5, AppendIsSeq DEF Table
  <2>7. \A i \in 1 .. m : t.free[i] \in 1 .. Len(t.slots) /\ t.free[i] # k
    BY <2>2, <2>5 DEF Table, SlotsOK
  <2>8. SlotsOK(sl, fr, L \ {e})
    <3>1. \A i \in 1 .. Len(sl) : sl[i] = Nobody \/ sl[i] \in L \ {e}
      BY <1>0, <2>2, <2>4 DEF Table, SlotsOK
    <3>2. \A i, j \in 1 .. Len(sl) : sl[i] = sl[j] /\ sl[i] # Nobody => i = j
      BY <1>0, <2>2, <2>4 DEF Table, SlotsOK
    <3>3. \A i \in 1 .. Len(fr) : fr[i] \in 1 .. Len(sl) /\ sl[fr[i]] = Nobody
      <4> SUFFICES ASSUME NEW i \in 1 .. (m + 1)
                   PROVE  fr[i] \in 1 .. Len(sl) /\ sl[fr[i]] = Nobody
        BY <2>6
      <4>1. CASE i = m + 1
        BY <2>2, <2>4, <2>6, <4>1
      <4>2. CASE i \in 1 .. m
        BY <2>4, <2>5, <2>6, <2>7, <4>2 DEF Table, SlotsOK
      <4> QED BY <2>6, <4>1, <4>2
    <3>4. \A i, j \in 1 .. Len(fr) : fr[i] = fr[j] => i = j
      <4>1. \A i \in 1 .. (m + 1) : i = m + 1 \/ i \in 1 .. m
        BY <2>6
      <4>2. \A i, j \in 1 .. m : t.free[i] = t.free[j] => i = j
        BY <2>5 DEF Table, SlotsOK
      <4> QED BY <2>6, <2>7, <4>1, <4>2
    <3> QED BY <3>1, <3>2, <3>3, <3>4 DEF SlotsOK
  <2>9. u.slots = sl /\ u.free = fr /\ u.gone = t.gone \cup at
    BY <2>3, <2>5
  <2>10. Table(u, L \ {e})
    BY <2>3, <2>4, <2>5, <2>6, <2>8, <2>9 DEF Table
  <2>11. Moved(was, u, K \cup {e}, {})
    <3>1. \A i \in 1 .. Len(sl) :
            \/ i <= Len(was) /\ sl[i] = was[i] /\ was[i] \notin K \cup {e}
            \/ sl[i] \in {} \cup {Nobody} /\ (i <= Len(was) => was[i] \in (K \cup {e}) \cup {Nobody})
      <4> SUFFICES ASSUME NEW i \in 1 .. Len(t.slots)
                   PROVE  \/ i <= Len(was) /\ sl[i] = was[i] /\ was[i] \notin K \cup {e}
                          \/ sl[i] = Nobody /\ (i <= Len(was) => was[i] \in (K \cup {e}) \cup {Nobody})
        BY <2>4
      <4>1. CASE i = k
        BY <1>2, <2>1, <2>4, <4>1
      <4>2. CASE i # k
        <5>1. sl[i] = t.slots[i]
          BY <2>4, <4>2
        <5>2. t.slots[i] # e
          BY <2>2, <4>2 DEF Table, SlotsOK
        <5> QED BY <5>1, <5>2 DEF Moved
      <4> QED BY <4>1, <4>2
    <3> QED BY <1>0, <1>3, <2>4, <2>9, <3>1 DEF Moved
  <2> QED BY <2>10, <2>11 DEF u
<1> QED BY <1>4, <1>5

\* An entity is given a slot that nobody has.
LEMMA AllocatedTable ==
  ASSUME NEW was, IsSeq(was), NEW t, NEW L, Table(t, L), NEW K, NEW e, e # Nobody, e \notin L,
         Nobody \notin K, Moved(was, t, K, {})
  PROVE  /\ Table(Allocated(t, e), L \cup {e})
         /\ Moved(was, Allocated(t, e), K, {e})
<1>0. /\ Len(t.slots) \in Nat /\ Len(t.free) \in Nat /\ Len(was) \in Nat
      /\ Len(was) <= Len(t.slots)
      /\ \A i \in 1 .. Len(t.slots) : t.slots[i] # e
  BY DEF Table, IsSeq, Moved, SlotsOK
<1>1. t = [slots |-> t.slots, free |-> t.free, gone |-> t.gone]
  BY DEF Table
<1>2. CASE t.free = <<>>
  <2>1. PICK sl : sl = Append(t.slots, e)
    OBVIOUS
  <2>2. Allocated(t, e) = [slots |-> sl, free |-> t.free, gone |-> t.gone]
    BY <1>1, <1>2, <2>1 DEF Allocated
  <2>3. PICK n : n = Len(t.slots)
    OBVIOUS
  <2>4. /\ IsSeq(sl) /\ Len(sl) = n + 1 /\ sl[n + 1] = e /\ n \in Nat
        /\ \A i \in 1 .. n : sl[i] = t.slots[i]
    BY <1>0, <2>1, <2>3, AppendIsSeq DEF Table
  <2>5. \A i \in 1 .. Len(sl) : i = n + 1 \/ i \in 1 .. n
    BY <2>4
  <2>6. SlotsOK(sl, t.free, L \cup {e})
    <3>1. \A i \in 1 .. Len(sl) : sl[i] = Nobody \/ sl[i] \in L \cup {e}
      BY <2>3, <2>4, <2>5 DEF Table, SlotsOK
    <3>2. \A i, j \in 1 .. Len(sl) : sl[i] = sl[j] /\ sl[i] # Nobody => i = j
      <4>1. \A i, j \in 1 .. n : t.slots[i] = t.slots[j] /\ t.slots[i] # Nobody => i = j
        BY <2>3 DEF Table, SlotsOK
      <4> QED BY <1>0, <2>3, <2>4, <2>5, <4>1
    <3>3. Len(t.free) = 0
      BY <1>2, EmptyIsSeq
    <3> QED BY <3>1, <3>2, <3>3 DEF SlotsOK
  <2>7. \A i \in 1 .. Len(sl) :
          \/ i <= Len(was) /\ sl[i] = was[i] /\ was[i] \notin K
          \/ sl[i] \in {e} \cup {Nobody} /\ (i <= Len(was) => was[i] \in K \cup {Nobody})
    <3> SUFFICES ASSUME NEW i \in 1 .. Len(sl)
                 PROVE  \/ i <= Len(was) /\ sl[i] = was[i] /\ was[i] \notin K
                        \/ sl[i] \in {e} \cup {Nobody} /\ (i <= Len(was) => was[i] \in K \cup {Nobody})
      OBVIOUS
    <3>1. CASE i = n + 1
      BY <1>0, <2>3, <2>4, <3>1
    <3>2. CASE i \in 1 .. n
      BY <2>3, <2>4, <3>2 DEF Moved
    <3> QED BY <2>5, <3>1, <3>2
  <2>8. Table(Allocated(t, e), L \cup {e})
    BY <2>2, <2>4, <2>6 DEF Table
  <2>9. Moved(was, Allocated(t, e), K, {e})
    BY <1>0, <2>2, <2>3, <2>4, <2>7 DEF Moved
  <2> QED BY <2>8, <2>9
<1>3. CASE t.free # <<>>
  <2>1. PICK m : m = Len(t.free)
    OBVIOUS
  <2>2. m \in Nat /\ m # 0
    <3>1. t.free \in Seq({t.free[i] : i \in 1 .. Len(t.free)})
      BY SeqOfElements DEF Table
    <3> QED BY <1>0, <1>3, <2>1, <3>1
  <2>3. PICK k : k = t.free[m]
    OBVIOUS
  <2>4. k \in 1 .. Len(t.slots) /\ t.slots[k] = Nobody
    BY <2>1, <2>2, <2>3 DEF Table, SlotsOK
  <2>5. PICK sl, fr : sl = [t.slots EXCEPT ![k] = e] /\ fr = SubSeq(t.free, 1, m - 1)
    OBVIOUS
  <2>6. Allocated(t, e) = [slots |-> sl, free |-> fr, gone |-> t.gone]
    <3>1. Allocated(t, e) = [t EXCEPT !.slots[t.free[Len(t.free)]] = e,
                                      !.free = SubSeq(@, 1, Len(@) - 1)]
      BY <1>3 DEF Allocated
    <3>2. Allocated(t, e) = [t EXCEPT !.slots[k] = e, !.free = SubSeq(@, 1, m - 1)]
      BY <2>1, <2>3, <3>1
    <3> QED BY <1>1, <2>5, <3>2
  <2>7. /\ IsSeq(sl) /\ Len(sl) = Len(t.slots)
        /\ \A i \in 1 .. Len(t.slots) : sl[i] = IF i = k THEN e ELSE t.slots[i]
    <3>1. DOMAIN t.slots = 1 .. Len(t.slots)
      BY SeqOfElements DEF Table
    <3>2. sl = [i \in 1 .. Len(t.slots) |-> sl[i]]
      BY <2>5, <3>1
    <3>3. \A i \in 1 .. Len(t.slots) : sl[i] = IF i = k THEN e ELSE t.slots[i]
      BY <2>4, <2>5, <3>1
    <3> QED BY <1>0, <3>2, <3>3, FunctionIsSeq
  <2>8. IsSeq(fr) /\ Len(fr) = m - 1 /\ \A i \in 1 .. (m - 1) : fr[i] = t.free[i]
    <3>1. m - 1 \in Nat /\ 1 \in 1 .. Len(t.free) + 1 /\ m - 1 <= Len(t.free)
      BY <2>1, <2>2
    <3>2. /\ IsSeq(fr) /\ Len(fr) = (IF 1 <= m - 1 THEN (m - 1) - 1 + 1 ELSE 0)
          /\ \A i \in 1 .. Len(fr) : fr[i] = t.free[1 + i - 1]
      BY <2>5, <3>1, RestIsSeq DEF Table
    <3>3. Len(fr) = m - 1
      BY <3>1, <3>2
    <3>4. \A i \in 1 .. (m - 1) : 1 + i - 1 = i
      OBVIOUS
    <3> QED BY <3>2, <3>3, <3>4
  <2>9. \A i \in 1 .. (m - 1) : fr[i] # k /\ fr[i] \in 1 .. Len(t.slots) /\ t.slots[fr[i]] = Nobody
    BY <2>1, <2>2, <2>3, <2>8 DEF Table, SlotsOK
  <2>10. SlotsOK(sl, fr, L \cup {e})
    <3>1. \A i \in 1 .. Len(sl) : sl[i] = Nobody \/ sl[i] \in L \cup {e}
      BY <2>7 DEF Table, SlotsOK
    <3>2. \A i, j \in 1 .. Len(sl) : sl[i] = sl[j] /\ sl[i] # Nobody => i = j
      BY <1>0, <2>7 DEF Table, SlotsOK
    <3>3. \A i \in 1 .. Len(fr) : fr[i] \in 1 .. Len(sl) /\ sl[fr[i]] = Nobody
      BY <2>7, <2>8, <2>9
    <3>4. \A i, j \in 1 .. Len(fr) : fr[i] = fr[j] => i = j
      BY <2>1, <2>2, <2>8 DEF Table, SlotsOK
    <3> QED BY <3>1, <3>2, <3>3, <3>4 DEF SlotsOK
  <2>11. Table(Allocated(t, e), L \cup {e})
    BY <2>6, <2>7, <2>8, <2>10 DEF Table
  <2>12. Moved(was, Allocated(t, e), K, {e})
    <3>1. \A i \in 1 .. Len(sl) :
            \/ i <= Len(was) /\ sl[i] = was[i] /\ was[i] \notin K
            \/ sl[i] \in {e} \cup {Nobody} /\ (i <= Len(was) => was[i] \in K \cup {Nobody})
      <4> SUFFICES ASSUME NEW i \in 1 .. Len(t.slots)
                   PROVE  \/ i <= Len(was) /\ sl[i] = was[i] /\ was[i] \notin K
                          \/ sl[i] \in {e} \cup {Nobody} /\ (i <= Len(was) => was[i] \in K \cup {Nobody})
        BY <2>7
      <4>1. CASE i = k
        <5>1. i <= Len(was) => was[i] \in K \cup {Nobody}
          BY <2>4, <4>1 DEF Moved
        <5> QED BY <2>7, <4>1, <5>1
      <4>2. CASE i # k
        BY <2>7, <4>2 DEF Moved
      <4> QED BY <4>1, <4>2
    <3> QED BY <1>0, <2>6, <2>7, <3>1 DEF Moved
  <2> QED BY <2>11, <2>12
<1> QED BY <1>2, <1>3

\* The table as entities lose their slots and are given some.
DiscoverChain(a, gone, new) ==
  a = [i \in 0 .. (Len(gone) + Len(new)) |-> IF i = 0 THEN [slots |-> slots, free |-> free, gone |-> {}] ELSE IF i <= Len(gone) THEN Deactivated(a[i - 1], gone[i]) ELSE Allocated(a[i - 1], new[i - Len(gone)])]

\* It exists, by induction on the entities.
LEMMA DiscoverChainExists ==
  ASSUME NEW gone, NEW new, Len(gone) + Len(new) \in Nat
  PROVE  \E a : DiscoverChain(a, gone, new)
<1> DEFINE First == [slots |-> slots, free |-> free, gone |-> {}]
           Next1(p, i) == IF i <= Len(gone) THEN Deactivated(p, gone[i]) ELSE Allocated(p, new[i - Len(gone)])
           P(k) == \E a : /\ a = [i \in 0 .. k |-> a[i]] /\ a[0] = First
                          /\ \A i \in 1 .. k : a[i] = Next1(a[i - 1], i)
           K == {k \in Nat : P(k)}
<1> HIDE DEF First, Next1
<1>1. P(0)
  <2> DEFINE z == [i \in 0 .. 0 |-> First]
  <2>1. z = [i \in 0 .. 0 |-> z[i]] /\ z[0] = First
    OBVIOUS
  <2> HIDE DEF z
  <2> QED BY <2>1
<1>2. ASSUME NEW k \in Nat, P(k) PROVE P(k + 1)
  <2>1. PICK a : /\ a = [i \in 0 .. k |-> a[i]] /\ a[0] = First
                 /\ \A i \in 1 .. k : a[i] = Next1(a[i - 1], i)
    BY <1>2
  <2>2. PICK v : v = Next1(a[k], k + 1)
    OBVIOUS
  <2> DEFINE b == [i \in 0 .. (k + 1) |-> IF i = k + 1 THEN v ELSE a[i]]
  <2>3. b = [i \in 0 .. (k + 1) |-> b[i]] /\ b[0] = First /\ b[k + 1] = v /\ b[k] = a[k]
    BY <2>1
  <2>4. \A i \in 1 .. k : b[i] = a[i] /\ b[i - 1] = a[i - 1]
    OBVIOUS
  <2> HIDE DEF b
  <2>5. \A i \in 1 .. (k + 1) : b[i] = Next1(b[i - 1], i)
    <3> SUFFICES ASSUME NEW i \in 1 .. (k + 1) PROVE b[i] = Next1(b[i - 1], i)
      OBVIOUS
    <3>1. CASE i = k + 1
      <4>1. i - 1 = k
        BY <3>1
      <4> QED BY <2>2, <2>3, <3>1, <4>1
    <3>2. CASE i \in 1 .. k
      BY <2>1, <2>4, <3>2
    <3> QED BY <3>1, <3>2
  <2> QED BY <2>3, <2>5
<1> HIDE DEF P
<1>3. K = Nat
  <2>1. 0 \in K /\ (\A k \in K : k + 1 \in K) /\ K \in SUBSET Nat
    BY <1>1, <1>2
  <2> HIDE DEF K
  <2> QED BY <2>1, Induct
<1>4. P((Len(gone) + Len(new)))
  BY <1>3
<1>5. PICK a : /\ a = [i \in 0 .. (Len(gone) + Len(new)) |-> a[i]] /\ a[0] = First
               /\ \A i \in 1 .. (Len(gone) + Len(new)) : a[i] = Next1(a[i - 1], i)
  BY <1>4 DEF P
<1>6. a = [i \in 0 .. (Len(gone) + Len(new)) |-> IF i = 0 THEN First ELSE Next1(a[i - 1], i)]
  <2>1. \A i \in 0 .. (Len(gone) + Len(new)) : a[i] = IF i = 0 THEN First ELSE Next1(a[i - 1], i)
    <3> SUFFICES ASSUME NEW i \in 0 .. (Len(gone) + Len(new))
                 PROVE  a[i] = IF i = 0 THEN First ELSE Next1(a[i - 1], i)
      OBVIOUS
    <3>1. CASE i = 0
      BY <1>5, <3>1
    <3>2. CASE i # 0
      <4>1. i \in 1 .. (Len(gone) + Len(new))
        BY <3>2
      <4> QED BY <1>5, <3>2, <4>1
    <3> QED BY <3>1, <3>2
  <2> QED BY <1>5, <2>1
<1>7. DiscoverChain(a, gone, new)
  BY <1>6, Zenon DEF DiscoverChain, First, Next1
<1> QED BY <1>7

\* What discovery makes of the slots.
LEMMA DiscoveredTable ==
  ASSUME NEW L, IsSeq(slots), IsSeq(free), SlotsOK(slots, free, L), Nobody \notin L,
         NEW gone, IsSeq(gone), NEW new, IsSeq(new), Len(new) <= 1,
         \A j \in 1 .. Len(gone) : gone[j] # Nobody,
         \A j \in 1 .. Len(new) : new[j] # Nobody /\ new[j] \notin L,
         NEW G, G = {gone[j] : j \in 1 .. Len(gone)},
         NEW B, B = {new[j] : j \in 1 .. Len(new)}
  PROVE  Table(Discovered(gone, new), (L \ G) \cup B) /\ Moved(slots, Discovered(gone, new), G, B)
<1> DEFINE n == Len(gone)
           all == n + Len(new)
           a == CHOOSE a : DiscoverChain(a, gone, new)
           Next1(p, i) == IF i <= n THEN Deactivated(p, gone[i]) ELSE Allocated(p, new[i - n])
<1>0. n \in Nat /\ Len(new) \in Nat /\ all \in Nat
  BY DEF IsSeq
<1>1. DiscoverChain(a, gone, new)
  BY <1>0, DiscoverChainExists
<1>2. Discovered(gone, new) = a[all]
  BY Zenon DEF Discovered, DiscoverChain
<1> HIDE DEF a
<1>3. a[0] = [slots |-> slots, free |-> free, gone |-> {}] /\ \A i \in 1 .. all : a[i] = Next1(a[i - 1], i)
  <2>1. a = [i \in 0 .. all |-> IF i = 0 THEN [slots |-> slots, free |-> free, gone |-> {}]
                                ELSE Next1(a[i - 1], i)]
    BY <1>1, Zenon DEF DiscoverChain
  <2> HIDE DEF Next1, all, n
  <2> QED BY <1>0, <2>1
<1> DEFINE K(i) == {gone[j] : j \in {h \in 1 .. n : h <= i}}
           A(i) == {new[j] : j \in {h \in 1 .. Len(new) : h + n <= i}}
           P(i) == Table(a[i], (L \ K(i)) \cup A(i)) /\ Moved(slots, a[i], K(i), A(i))
           S == {i \in Nat : i <= all => P(i)}
<1>4. P(0)
  <2>1. K(0) = {} /\ A(0) = {}
    <3>1. \A h \in 1 .. n : ~(h <= 0)
      BY <1>0
    <3>2. \A h \in 1 .. Len(new) : ~(h + n <= 0)
      BY <1>0
    <3>3. {h \in 1 .. n : h <= 0} = {} /\ {h \in 1 .. Len(new) : h + n <= 0} = {}
      BY <3>1, <3>2, Zenon
    <3> QED BY <3>3, Zenon
  <2>2. Table(a[0], L)
    BY <1>3 DEF Table
  <2>3. Moved(slots, a[0], {}, {})
    <3>1. a[0].gone = {} /\ a[0].slots = slots /\ Len(slots) \in Nat
      BY <1>3 DEF IsSeq
    <3> QED BY <3>1 DEF Moved
  <2> HIDE DEF K, A
  <2>4. (L \ K(0)) \cup A(0) = L
    BY <2>1
  <2> QED BY <2>1, <2>2, <2>3, <2>4
<1>5. ASSUME NEW i \in Nat, i + 1 <= all, P(i) PROVE P(i + 1)
  <2>0. i + 1 \in 1 .. all /\ (i + 1) - 1 = i /\ i <= all
    BY <1>0, <1>5
  <2>1. a[i + 1] = Next1(a[i], i + 1)
    BY <1>3, <2>0
  <2>2. PICK t : t = a[i]
    OBVIOUS
  <2>3. A(i) = {}
    <3>1. \A h \in 1 .. Len(new) : ~(h + n <= i)
      BY <1>0, <1>5
    <3>2. {h \in 1 .. Len(new) : h + n <= i} = {}
      BY <3>1, Zenon
    <3> QED BY <3>2, Zenon
  <2>4. Nobody \notin K(i)
    OBVIOUS
  <2>5. Table(t, L \ K(i)) /\ Moved(slots, t, K(i), {})
    <3> HIDE DEF K, A
    <3>1. (L \ K(i)) \cup A(i) = L \ K(i)
      BY <2>3
    <3> QED BY <1>5, <2>2, <2>3, <3>1
  <2>6. CASE i + 1 <= n
    <3>1. PICK e : e = gone[i + 1]
      OBVIOUS
    <3>2. i + 1 \in 1 .. n /\ e # Nobody
      BY <1>0, <2>6, <3>1
    <3>3. a[i + 1] = Deactivated(t, e)
      BY <2>1, <2>2, <2>6, <3>1
    <3>4. Table(Deactivated(t, e), (L \ K(i)) \ {e}) /\ Moved(slots, Deactivated(t, e), K(i) \cup {e}, {})
      <4> HIDE DEF K
      <4> QED BY <2>4, <2>5, <3>2, DeactivatedTable
    <3>5. K(i + 1) = K(i) \cup {e}
      <4>1. \A h \in 1 .. n : h <= i + 1 <=> (h <= i \/ h = i + 1)
        BY <1>0
      <4>2. {h \in 1 .. n : h <= i + 1} = {h \in 1 .. n : h <= i} \cup {i + 1}
        BY <3>2, <4>1
      <4> QED BY <3>1, <4>2
    <3>6. A(i + 1) = {}
      <4>1. \A h \in 1 .. Len(new) : ~(h + n <= i + 1)
        BY <1>0, <2>6
      <4>2. {h \in 1 .. Len(new) : h + n <= i + 1} = {}
        BY <4>1, Zenon
      <4> QED BY <4>2, Zenon
    <3> HIDE DEF K, A
    <3>7. (L \ K(i + 1)) \cup A(i + 1) = (L \ K(i)) \ {e}
      BY <3>5, <3>6
    <3> QED BY <3>3, <3>4, <3>5, <3>6, <3>7
  <2>7. CASE i + 1 > n
    <3>0. i + 1 <= n + Len(new)
      BY <1>5
    <3>1. i = n /\ Len(new) = 1 /\ (i + 1) - n = 1
      <4>1. PICK a1 \in Nat, b1 \in Nat : a1 = n /\ b1 = Len(new)
        BY <1>0
      <4>2. i + 1 > a1 /\ i + 1 <= a1 + b1 /\ b1 <= 1
        BY <2>7, <3>0, <4>1
      <4>3. i = a1 /\ b1 = 1
        BY <4>2
      <4> HIDE DEF n, P
      <4> QED BY <4>1, <4>3
    <3>2. PICK e : e = new[1]
      OBVIOUS
    <3>3. e # Nobody /\ e \notin L
      BY <3>1, <3>2
    <3>4. a[i + 1] = Allocated(t, e)
      <4>1. ~(i + 1 <= n)
        BY <1>0, <2>7
      <4> QED BY <2>1, <2>2, <3>1, <3>2, <4>1
    <3>5. Table(Allocated(t, e), (L \ K(i)) \cup {e}) /\ Moved(slots, Allocated(t, e), K(i), {e})
      <4> HIDE DEF K
      <4>1. PICK M : M = L \ K(i)
        OBVIOUS
      <4>2. Table(t, M) /\ e \notin M
        BY <2>5, <3>3, <4>1
      <4>3. Table(Allocated(t, e), M \cup {e}) /\ Moved(slots, Allocated(t, e), K(i), {e})
        BY <2>4, <2>5, <3>3, <4>2, AllocatedTable
      <4> QED BY <4>1, <4>3
    <3>6. K(i + 1) = K(i)
      <4>1. \A h \in 1 .. n : h <= i + 1 <=> h <= i
        BY <1>0, <3>1
      <4>2. {h \in 1 .. n : h <= i + 1} = {h \in 1 .. n : h <= i}
        BY <4>1
      <4> QED BY <4>2, Zenon
    <3>7. A(i + 1) = {e}
      <4>1. \A h \in 1 .. Len(new) : h = 1 /\ h + n <= i + 1
        BY <1>0, <3>1
      <4>2. {h \in 1 .. Len(new) : h + n <= i + 1} = {1}
        BY <3>1, <4>1
      <4> QED BY <3>2, <4>2
    <3> HIDE DEF K, A
    <3> QED BY <3>4, <3>5, <3>6, <3>7
  <2> QED BY <1>0, <2>6, <2>7
<1> HIDE DEF P
<1>6. S = Nat
  <2>1. 0 \in S /\ (\A i \in S : i + 1 \in S) /\ S \in SUBSET Nat
    BY <1>0, <1>4, <1>5
  <2> HIDE DEF S
  <2> QED BY <2>1, Induct
<1>7. P(all)
  BY <1>0, <1>6
<1>8. K(all) = {gone[j] : j \in 1 .. Len(gone)} /\ A(all) = {new[j] : j \in 1 .. Len(new)}
  <2>1. \A h \in 1 .. n : h <= all
    BY <1>0
  <2>2. \A h \in 1 .. Len(new) : h + n <= all
    BY <1>0
  <2>3. {h \in 1 .. n : h <= all} = 1 .. n /\ {h \in 1 .. Len(new) : h + n <= all} = 1 .. Len(new)
    BY <2>1, <2>2, Zenon
  <2> QED BY <2>3, Zenon
<1> HIDE DEF K, A
<1>9. /\ Table(Discovered(gone, new), (L \ K(all)) \cup A(all))
      /\ Moved(slots, Discovered(gone, new), K(all), A(all))
  BY <1>2, <1>7 DEF P
<1> QED BY <1>8, <1>9, Zenon

--------------------------------------------------------------------------------
(* Playback                                                                     *)

\* A recorded frame: a cue names the slot of its entity, if that has one, and comes
\* once.
IsFrame(fr) ==
  /\ fr.frame \in Nat /\ fr.n \in Nat /\ fr.full \in BOOLEAN
  /\ fr.updates \subseteq DOMAIN fr.world
  /\ fr.full => fr.updates = DOMAIN fr.world
  /\ IsSeq(fr.cues)
  /\ \A q \in 1 .. Len(fr.cues) : \A s \in DOMAIN fr.world :
       fr.world[s].of = fr.cues[q].cue.by => fr.cues[q].owner = s
  /\ \A q, r \in 1 .. Len(fr.cues) : fr.cues[q].cue = fr.cues[r].cue => q = r

\* A delta frame says all that happened since the world w.
Follows(w, fr) ==
  /\ \A s \in DOMAIN fr.world \ fr.updates :
       s \in DOMAIN w \ fr.destroys /\ fr.world[s] = w[s]
  /\ DOMAIN w \ DOMAIN fr.world \subseteq fr.destroys

\* Frames in the order they were recorded, where a delta frame follows the one
\* before it unless something escaped.
Stream(fs) ==
  /\ IsSeq(fs)
  /\ \A i \in 1 .. Len(fs) : IsFrame(fs[i])
  /\ \A i, j \in 1 .. Len(fs) : i < j => fs[i].n < fs[j].n
  /\ \A i, j \in 1 .. Len(fs) :
       (fs[j].n = fs[i].n + 1 /\ fs[j].sound /\ ~fs[j].full) => Follows(fs[i].world, fs[j])

\* Unbroken for any frames.
UnbrokenIn(fs, k) ==
  \E i \in 1 .. k :
    /\ fs[i].full
    /\ \A j \in i + 1 .. k : fs[j].n = fs[j - 1].n + 1 /\ fs[j].sound

IsEntity(x) ==
  x = [of |-> x.of, known |-> x.known, arch |-> x.arch, mixed |-> x.mixed, val |-> x.val]

\* An entity of the session has components of other archetypes only if it had one.
LocalOK(l) ==
  /\ l = [s \in DOMAIN l |-> l[s]]
  /\ \A s \in DOMAIN l :
       /\ IsEntity(l[s]) /\ l[s].mixed \in BOOLEAN
       /\ ~l[s].mixed => \A c \in AllComponents \ Components[l[s].arch] : l[s].val[c] = Absent

\* The session shows the world w.
Matches(l, w) ==
  /\ DOMAIN l = DOMAIN w
  /\ \A s \in DOMAIN w :
       /\ l[s].of = w[s].of
       /\ l[s].arch = w[s].st.arch
       /\ \A c \in AllComponents \cap Components[w[s].st.arch] : l[s].val[c] = w[s].st.val[c]

\* The record of an entity.
LEMMA UpsertedEntity ==
  ASSUME NEW l, LocalOK(l), NEW fr, NEW s
  PROVE  LET u == Upserted(l, fr, s)
         IN  /\ u.of = fr.world[s].of /\ u.arch = fr.world[s].st.arch
             /\ \A c \in AllComponents \cap Components[fr.world[s].st.arch] :
                  u.val[c] = fr.world[s].st.val[c]
             /\ IsEntity(u) /\ u.mixed \in BOOLEAN
             /\ ~u.mixed => \A c \in AllComponents \ Components[u.arch] : u.val[c] = Absent
<1>1. PICK st, old : st = fr.world[s].st /\ old = EntityFor(l, s)
  OBVIOUS
<1>2. PICK v : v = ComponentsApplied(old.val, st)
  OBVIOUS
<1>3. PICK m : m = (s \in DOMAIN l /\ (old.mixed \/ old.arch # st.arch))
  OBVIOUS
<1>4. Upserted(l, fr, s) = [of |-> fr.world[s].of, known |-> old.known, arch |-> st.arch,
                            mixed |-> m, val |-> v]
  BY <1>1, <1>2, <1>3, Zenon DEF Upserted
<1>5. \A c \in AllComponents : v[c] = IF c \in Components[st.arch] THEN st.val[c] ELSE old.val[c]
  BY <1>2 DEF ComponentsApplied
<1>6. m \in BOOLEAN
  BY <1>3
<1>7. ASSUME m = FALSE PROVE \A c \in AllComponents \ Components[st.arch] : old.val[c] = Absent
  <2>1. CASE s \in DOMAIN l
    <3>1. old = l[s]
      BY <1>1, <2>1 DEF EntityFor
    <3>2. ~old.mixed /\ old.arch = st.arch
      BY <1>3, <1>7, <2>1
    <3> QED BY <2>1, <3>1, <3>2 DEF LocalOK
  <2>2. CASE s \notin DOMAIN l
    <3>1. old.val = [c \in AllComponents |-> Absent]
      BY <1>1, <2>2 DEF EntityFor
    <3> QED BY <3>1
  <2> QED BY <2>1, <2>2
<1>8. PICK u : u = Upserted(l, fr, s)
  OBVIOUS
<1>9. u.of = fr.world[s].of /\ u.arch = st.arch /\ u.mixed = m /\ u.val = v
  BY <1>4, <1>8
<1>10. \A c \in AllComponents \cap Components[st.arch] : u.val[c] = st.val[c]
  BY <1>5, <1>9
<1>11. ~u.mixed => \A c \in AllComponents \ Components[u.arch] : u.val[c] = Absent
  BY <1>5, <1>6, <1>7, <1>9
<1>12. IsEntity(u) /\ u.mixed \in BOOLEAN
  BY <1>4, <1>6, <1>8, <1>9 DEF IsEntity
<1> QED BY <1>1, <1>8, <1>9, <1>10, <1>11, <1>12

\* What applying a frame makes of the session's entities.
AppliedAs(l, fr, a) ==
  /\ LocalOK(a)
  /\ fr.full => DOMAIN a = DOMAIN fr.world
  /\ ~fr.full => DOMAIN a = (DOMAIN l \ fr.destroys) \cup fr.updates
  /\ \A s \in fr.updates :
       /\ s \in DOMAIN a
       /\ a[s].of = fr.world[s].of /\ a[s].arch = fr.world[s].st.arch
       /\ \A c \in AllComponents \cap Components[fr.world[s].st.arch] :
            a[s].val[c] = fr.world[s].st.val[c]
  /\ \A s \in DOMAIN a \ fr.updates : s \in DOMAIN l /\ a[s] = l[s]

\* A frame as it is applied.
LEMMA AppliedEntities ==
  ASSUME NEW l, LocalOK(l), NEW fr, IsFrame(fr), NEW a, a = Applied(l, fr)
  PROVE  AppliedAs(l, fr, a)
<1>1. PICK b : b = Without(l, fr.destroys)
  OBVIOUS
<1>2. DOMAIN b = DOMAIN l \ fr.destroys /\ \A s \in DOMAIN b : b[s] = l[s]
  BY <1>1 DEF Without
<1>3. LocalOK(b)
  <2>1. b = [s \in DOMAIN b |-> b[s]]
    BY <1>1 DEF Without
  <2> QED BY <1>2, <2>1 DEF LocalOK
<1>4. PICK f : f = [s \in DOMAIN b \cup fr.updates |->
                      IF s \in fr.updates THEN Upserted(b, fr, s) ELSE b[s]]
  OBVIOUS
<1>5. /\ DOMAIN f = DOMAIN b \cup fr.updates
      /\ \A s \in fr.updates : f[s] = Upserted(b, fr, s)
      /\ \A s \in DOMAIN f \ fr.updates : f[s] = b[s] /\ s \in DOMAIN b
  BY <1>4
<1>6. a = IF fr.full THEN Without(f, DOMAIN f \ fr.updates) ELSE f
  BY <1>1, <1>4, Zenon DEF Applied
<1>8. /\ fr.full => DOMAIN a = fr.updates
      /\ ~fr.full => DOMAIN a = DOMAIN f
      /\ \A s \in DOMAIN a : a[s] = f[s] /\ s \in DOMAIN f
      /\ fr.updates \subseteq DOMAIN a
      /\ a = [s \in DOMAIN a |-> a[s]]
  <2>1. CASE fr.full
    <3>1. a = [s \in DOMAIN f \ (DOMAIN f \ fr.updates) |-> f[s]]
      BY <1>6, <2>1 DEF Without
    <3>2. DOMAIN f \ (DOMAIN f \ fr.updates) = fr.updates
      BY <1>5
    <3>3. a = [s \in fr.updates |-> f[s]]
      BY <3>1, <3>2
    <3> QED BY <1>5, <2>1, <3>3
  <2>2. CASE ~fr.full
    <3>1. a = f
      BY <1>6, <2>2
    <3>2. f = [s \in DOMAIN f |-> f[s]]
      BY <1>4
    <3> QED BY <1>5, <2>2, <3>1, <3>2
  <2> QED BY <2>1, <2>2
<1>9. \A s \in fr.updates : a[s] = Upserted(b, fr, s)
  BY <1>5, <1>8
<1>10. \A s \in DOMAIN a \ fr.updates : s \in DOMAIN l /\ a[s] = l[s]
  BY <1>2, <1>5, <1>8
<1>11. LocalOK(a)
  <2> SUFFICES ASSUME NEW s \in DOMAIN a
               PROVE  /\ IsEntity(a[s]) /\ a[s].mixed \in BOOLEAN
                      /\ ~a[s].mixed => \A c \in AllComponents \ Components[a[s].arch] : a[s].val[c] = Absent
    BY <1>8 DEF LocalOK
  <2>1. CASE s \in fr.updates
    BY <1>3, <1>9, <2>1, UpsertedEntity
  <2>2. CASE s \notin fr.updates
    BY <1>10, <2>2 DEF LocalOK
  <2> QED BY <2>1, <2>2
<1>12. \A s \in fr.updates :
         /\ s \in DOMAIN a
         /\ a[s].of = fr.world[s].of /\ a[s].arch = fr.world[s].st.arch
         /\ \A c \in AllComponents \cap Components[fr.world[s].st.arch] :
              a[s].val[c] = fr.world[s].st.val[c]
  BY <1>3, <1>8, <1>9, UpsertedEntity
<1>13. fr.full => DOMAIN a = DOMAIN fr.world
  BY <1>8 DEF IsFrame
<1>14. ~fr.full => DOMAIN a = (DOMAIN l \ fr.destroys) \cup fr.updates
  BY <1>2, <1>5, <1>8
<1> QED BY <1>10, <1>11, <1>12, <1>13, <1>14 DEF AppliedAs

\* One frame after the other.
LEMMA AppliedMatches ==
  ASSUME NEW fs, Stream(fs), NEW i \in 1 .. Len(fs), NEW l, LocalOK(l),
         i = 1 => fs[1].full,
         i > 1 /\ UnbrokenIn(fs, i - 1) => Matches(l, fs[i - 1].world)
  PROVE  /\ LocalOK(Applied(l, fs[i]))
         /\ UnbrokenIn(fs, i) => Matches(Applied(l, fs[i]), fs[i].world)
<1>0. PICK fr, a : fr = fs[i] /\ a = Applied(l, fs[i])
  OBVIOUS
<1>1. IsFrame(fr) /\ i \in Nat /\ i >= 1 /\ Len(fs) \in Nat
  BY <1>0 DEF Stream, IsSeq
<1>2. AppliedAs(l, fr, a)
  BY <1>0, <1>1, AppliedEntities
<1>3. ASSUME UnbrokenIn(fs, i) PROVE Matches(a, fr.world)
  <2>1. CASE fr.full
    BY <1>1, <1>2, <2>1 DEF Matches, IsFrame, AppliedAs
  <2>2. CASE ~fr.full
    <3>1. PICK j \in 1 .. i : fs[j].full /\ \A k \in j + 1 .. i : fs[k].n = fs[k - 1].n + 1 /\ fs[k].sound
      BY <1>3 DEF UnbrokenIn
    <3>2. j # i /\ i > 1 /\ j \in 1 .. (i - 1) /\ i \in j + 1 .. i /\ i - 1 \in 1 .. Len(fs)
      BY <1>0, <1>1, <2>2, <3>1
    <3>3. \A k \in j + 1 .. (i - 1) : k \in j + 1 .. i
      BY <1>1, <3>2
    <3>4. UnbrokenIn(fs, i - 1)
      BY <3>1, <3>2, <3>3 DEF UnbrokenIn
    <3>5. PICK w : w = fs[i - 1].world
      OBVIOUS
    <3>6. Matches(l, w) /\ Follows(w, fr)
      BY <1>0, <2>2, <3>1, <3>2, <3>4, <3>5 DEF Stream
    <3>7. DOMAIN a = DOMAIN fr.world
      BY <1>1, <1>2, <2>2, <3>6 DEF Matches, Follows, IsFrame, AppliedAs
    <3>8. \A s \in DOMAIN fr.world \ fr.updates : fr.world[s] = w[s] /\ s \in DOMAIN w /\ a[s] = l[s]
      BY <1>2, <3>6, <3>7 DEF Follows, AppliedAs
    <3> SUFFICES ASSUME NEW s \in DOMAIN fr.world
                 PROVE  /\ a[s].of = fr.world[s].of
                        /\ a[s].arch = fr.world[s].st.arch
                        /\ \A c \in AllComponents \cap Components[fr.world[s].st.arch] :
                             a[s].val[c] = fr.world[s].st.val[c]
      BY <3>7 DEF Matches
    <3>9. CASE s \in fr.updates
      BY <1>2, <3>9 DEF AppliedAs
    <3>10. CASE s \notin fr.updates
      BY <3>6, <3>8, <3>10 DEF Matches
    <3> QED BY <3>9, <3>10
  <2> QED BY <2>1, <2>2
<1> QED BY <1>0, <1>2, <1>3 DEF AppliedAs

\* What was heard of the first m frames: only their cues, at their entity if it is
\* still there, each once, and none of those is missing.
CueAt(fs, k, q) ==
  UnbrokenIn(fs, k) /\ \E s \in DOMAIN fs[k].world : fs[k].world[s].of = fs[k].cues[q].cue.by

HeardOK(h, fs, m) ==
  /\ IsSeq(h)
  /\ \A x \in 1 .. Len(h) : \E k \in 1 .. m : \E q \in 1 .. Len(fs[k].cues) :
       /\ h[x].n = fs[k].n /\ h[x].cue = fs[k].cues[q].cue
       /\ CueAt(fs, k, q) => h[x].to = h[x].cue.by
  /\ \A x, y \in 1 .. Len(h) : h[x].cue = h[y].cue /\ h[x].n = h[y].n => x = y
  /\ \A k \in 1 .. m : \A q \in 1 .. Len(fs[k].cues) :
       CueAt(fs, k, q) => \E x \in 1 .. Len(h) : h[x].cue = fs[k].cues[q].cue

\* The cues of a frame are heard once it is applied.
LEMMA CuesHeard ==
  ASSUME NEW fs, Stream(fs), NEW i \in 1 .. Len(fs), NEW h, HeardOK(h, fs, i - 1), NEW l,
         UnbrokenIn(fs, i) => Matches(l, fs[i].world)
  PROVE  HeardOK(CuesApplied(h, l, fs[i]), fs, i)
<1>0. PICK fr, m : fr = fs[i] /\ m = Len(h)
  OBVIOUS
<1>1. IsFrame(fr) /\ i \in Nat /\ i >= 1 /\ Len(fs) \in Nat /\ m \in Nat /\ IsSeq(h)
  BY <1>0 DEF Stream, IsSeq, HeardOK
<1> DEFINE S == {q \in 1 .. Len(fr.cues) : fr.cues[q].owner \in DOMAIN l}
<1>2. PICK here : here = Chosen(fr.cues, S)
  OBVIOUS
<1>3. /\ IsSeq(here) /\ Len(here) \in Nat
      /\ \E at \in [1 .. Len(here) -> S] :
           /\ \A k \in 1 .. Len(here) : here[k] = fr.cues[at[k]]
           /\ \A j, k \in 1 .. Len(here) : j < k => at[j] < at[k]
           /\ \A q \in S : \E k \in 1 .. Len(here) : at[k] = q
  <2>1. IsSeq(fr.cues) /\ S \subseteq 1 .. Len(fr.cues)
    BY <1>1 DEF IsFrame
  <2> HIDE DEF S
  <2>2. ChosenFrom(here, fr.cues, S)
    BY <1>2, <2>1, ChosenPlaces
  <2>3. Len(here) \in Nat
    BY <2>2 DEF ChosenFrom, IsSeq
  <2> QED BY <2>2, <2>3 DEF ChosenFrom
<1>4. PICK at \in [1 .. Len(here) -> S] :
        /\ \A k \in 1 .. Len(here) : here[k] = fr.cues[at[k]]
        /\ \A j, k \in 1 .. Len(here) : j < k => at[j] < at[k]
        /\ \A q \in S : \E k \in 1 .. Len(here) : at[k] = q
  BY <1>3
<1>5. PICK new : new = [k \in 1 .. Len(here) |-> [cue |-> here[k].cue, to |-> l[here[k].owner].of, n |-> fr.n]]
  OBVIOUS
<1>6. IsSeq(new) /\ Len(new) = Len(here)
  <2>1. new = [k \in 1 .. Len(here) |-> new[k]]
    BY <1>5
  <2> QED BY <1>3, <2>1, FunctionIsSeq
<1>7. PICK g : g = h \o new
  OBVIOUS
<1>8. CuesApplied(h, l, fr) = g
  BY <1>2, <1>5, <1>7, Zenon DEF CuesApplied
<1>9. /\ IsSeq(g) /\ Len(g) = m + Len(here)
      /\ \A x \in 1 .. m : g[x] = h[x]
      /\ \A x \in 1 .. Len(here) : g[m + x] = new[x]
  <2>1. Joined(g, h, new)
    BY <1>1, <1>6, <1>7, ConcatIsSeq
  <2> QED BY <1>0, <1>6, <2>1 DEF Joined
<1>10. \A x \in 1 .. Len(here) :
         /\ at[x] \in 1 .. Len(fr.cues) /\ at[x] \in S
         /\ g[m + x].cue = fr.cues[at[x]].cue /\ g[m + x].n = fr.n
         /\ g[m + x].to = l[fr.cues[at[x]].owner].of
  <2> SUFFICES ASSUME NEW x \in 1 .. Len(here)
               PROVE  /\ at[x] \in 1 .. Len(fr.cues) /\ at[x] \in S
                      /\ g[m + x].cue = fr.cues[at[x]].cue /\ g[m + x].n = fr.n
                      /\ g[m + x].to = l[fr.cues[at[x]].owner].of
    OBVIOUS
  <2>1. at[x] \in S
    BY <1>4
  <2>2. at[x] \in 1 .. Len(fr.cues)
    BY <2>1
  <2>3. here[x] = fr.cues[at[x]]
    BY <1>4
  <2>4. g[m + x] = [cue |-> here[x].cue, to |-> l[here[x].owner].of, n |-> fr.n]
    BY <1>5, <1>9
  <2> QED BY <2>1, <2>2, <2>3, <2>4
<1>11. \A x \in 1 .. Len(g) : x \in 1 .. m \/ \E y \in 1 .. Len(here) : x = m + y
  <2> SUFFICES ASSUME NEW x \in 1 .. Len(g), x \notin 1 .. m PROVE \E y \in 1 .. Len(here) : x = m + y
    OBVIOUS
  <2>1. x - m \in 1 .. Len(here) /\ x = m + (x - m)
    BY <1>1, <1>3, <1>9
  <2> QED BY <2>1
<1>12. ASSUME NEW q \in 1 .. Len(fr.cues), CueAt(fs, i, q)
       PROVE  q \in S /\ l[fr.cues[q].owner].of = fr.cues[q].cue.by
  <2>1. PICK s \in DOMAIN fr.world : fr.world[s].of = fr.cues[q].cue.by
    BY <1>0, <1>12 DEF CueAt
  <2>2. fr.cues[q].owner = s
    BY <1>1, <2>1 DEF IsFrame
  <2>3. Matches(l, fr.world)
    BY <1>0, <1>12 DEF CueAt
  <2> QED BY <2>1, <2>2, <2>3 DEF Matches
<1> HIDE DEF S
<1>13. \A x \in 1 .. m : \E k \in 1 .. i - 1 : h[x].n = fs[k].n /\ h[x].n < fr.n
  <2> SUFFICES ASSUME NEW x \in 1 .. m PROVE \E k \in 1 .. i - 1 : h[x].n = fs[k].n /\ h[x].n < fr.n
    OBVIOUS
  <2>1. PICK k \in 1 .. i - 1 : h[x].n = fs[k].n
    BY <1>0 DEF HeardOK
  <2>2. k \in 1 .. Len(fs) /\ k < i
    BY <1>1
  <2> QED BY <1>0, <2>1, <2>2 DEF Stream
<1>14. \A x \in 1 .. Len(g) : \E k \in 1 .. i : \E q \in 1 .. Len(fs[k].cues) :
         /\ g[x].n = fs[k].n /\ g[x].cue = fs[k].cues[q].cue
         /\ CueAt(fs, k, q) => g[x].to = g[x].cue.by
  <2> SUFFICES ASSUME NEW x \in 1 .. Len(g)
               PROVE  \E k \in 1 .. i : \E q \in 1 .. Len(fs[k].cues) :
                        /\ g[x].n = fs[k].n /\ g[x].cue = fs[k].cues[q].cue
                        /\ CueAt(fs, k, q) => g[x].to = g[x].cue.by
    OBVIOUS
  <2>1. CASE x \in 1 .. m
    <3>1. PICK k \in 1 .. i - 1 : \E q \in 1 .. Len(fs[k].cues) :
            /\ h[x].n = fs[k].n /\ h[x].cue = fs[k].cues[q].cue
            /\ CueAt(fs, k, q) => h[x].to = h[x].cue.by
      BY <1>0, <2>1 DEF HeardOK
    <3>2. k \in 1 .. i /\ g[x] = h[x]
      BY <1>1, <1>9, <2>1, SMTT(30)
    <3> QED BY <3>1, <3>2
  <2>2. CASE \E y \in 1 .. Len(here) : x = m + y
    <3>1. PICK y \in 1 .. Len(here) : x = m + y
      BY <2>2
    <3>2. PICK q \in 1 .. Len(fr.cues) : q = at[y]
      BY <1>10
    <3>3. g[x].n = fr.n /\ g[x].cue = fr.cues[q].cue /\ g[x].to = l[fr.cues[q].owner].of
      BY <1>10, <3>1, <3>2
    <3>4. CueAt(fs, i, q) => g[x].to = g[x].cue.by
      BY <1>12, <3>3
    <3>5. i \in 1 .. i
      BY <1>1
    <3> QED BY <1>0, <3>2, <3>3, <3>4, <3>5
  <2> QED BY <1>11, <2>1, <2>2
<1>15. \A x, y \in 1 .. Len(g) : g[x].cue = g[y].cue /\ g[x].n = g[y].n => x = y
  <2>0. \A x \in 1 .. m : g[x] = h[x] /\ g[x].n < fr.n
    BY <1>9, <1>13
  <2>1. fr.n \in Nat
    BY <1>1 DEF IsFrame
  <2>1a. \A x \in 1 .. m : g[x].n # fr.n
    <3> SUFFICES ASSUME NEW x \in 1 .. m PROVE g[x].n # fr.n
      OBVIOUS
    <3>1. g[x].n < fr.n
      BY <2>0
    <3> QED BY <2>1, <3>1
  <2> SUFFICES ASSUME NEW x \in 1 .. Len(g), NEW y \in 1 .. Len(g), g[x].cue = g[y].cue, g[x].n = g[y].n
               PROVE  x = y
    OBVIOUS
  <2>2. CASE x \in 1 .. m /\ y \in 1 .. m
    BY <1>0, <1>9, <2>2 DEF HeardOK
  <2>3. CASE x \notin 1 .. m /\ y \notin 1 .. m
    <3>1. PICK v \in 1 .. Len(here) : x = m + v
      BY <1>11, <2>3
    <3>2. PICK u \in 1 .. Len(here) : y = m + u
      BY <1>11, <2>3
    <3>3. at[v] = at[u]
      <4>1. /\ at[v] \in 1 .. Len(fr.cues) /\ at[u] \in 1 .. Len(fr.cues)
            /\ fr.cues[at[v]].cue = fr.cues[at[u]].cue
        BY <1>10, <3>1, <3>2
      <4> QED BY <1>1, <4>1 DEF IsFrame
    <3>4. ~(v < u) /\ ~(u < v)
      <4>1. at[v] \in Nat
        BY <1>10
      <4>2. ~(at[v] < at[u]) /\ ~(at[u] < at[v])
        BY <3>3, <4>1
      <4> QED BY <1>4, <4>2
    <3> QED BY <1>3, <3>1, <3>2, <3>4
  <2>4. CASE x \in 1 .. m /\ y \notin 1 .. m
    BY <1>10, <1>11, <2>1a, <2>4
  <2>5. CASE x \notin 1 .. m /\ y \in 1 .. m
    BY <1>10, <1>11, <2>1a, <2>5
  <2> QED BY <2>2, <2>3, <2>4, <2>5
<1>16. \A k \in 1 .. i : \A q \in 1 .. Len(fs[k].cues) :
         CueAt(fs, k, q) => \E x \in 1 .. Len(g) : g[x].cue = fs[k].cues[q].cue
  <2> SUFFICES ASSUME NEW k \in 1 .. i, NEW q \in 1 .. Len(fs[k].cues), CueAt(fs, k, q)
               PROVE  \E x \in 1 .. Len(g) : g[x].cue = fs[k].cues[q].cue
    OBVIOUS
  <2>1. CASE k \in 1 .. i - 1
    <3>1. PICK x \in 1 .. m : h[x].cue = fs[k].cues[q].cue
      BY <1>0, <2>1 DEF HeardOK
    <3>2. x \in 1 .. Len(g)
      BY <1>1, <1>3, <1>9
    <3> QED BY <1>9, <3>1, <3>2
  <2>2. CASE k = i
    <3>1. q \in S /\ q \in 1 .. Len(fr.cues)
      BY <1>0, <1>12, <2>2
    <3>2. PICK x \in 1 .. Len(here) : at[x] = q
      BY <1>4, <3>1
    <3>3. m + x \in 1 .. Len(g)
      BY <1>1, <1>3, <1>9
    <3>4. g[m + x].cue = fr.cues[q].cue
      BY <1>10, <3>2
    <3> QED BY <1>0, <2>2, <3>3, <3>4
  <2> QED BY <1>1, <2>1, <2>2
<1>17. HeardOK(g, fs, i)
  BY <1>9, <1>14, <1>15, <1>16 DEF HeardOK
<1> QED BY <1>0, <1>8, <1>17

\* The session after every frame.
PlayedChain(a, frames, n) ==
  a = [i \in 0 .. n |-> IF i = 0 THEN [l |-> local, h |-> heard] ELSE FramePlayed(a[i - 1], frames[session.next + i - 1])]

\* It exists, by induction on the frames.
LEMMA PlayedChainExists ==
  ASSUME NEW frames, NEW n \in Nat
  PROVE  \E a : PlayedChain(a, frames, n)
<1> DEFINE First == [l |-> local, h |-> heard]
           Next1(p, i) == FramePlayed(p, frames[session.next + i - 1])
           P(k) == \E a : /\ a = [i \in 0 .. k |-> a[i]] /\ a[0] = First
                          /\ \A i \in 1 .. k : a[i] = Next1(a[i - 1], i)
           K == {k \in Nat : P(k)}
<1> HIDE DEF First, Next1
<1>1. P(0)
  <2> DEFINE z == [i \in 0 .. 0 |-> First]
  <2>1. z = [i \in 0 .. 0 |-> z[i]] /\ z[0] = First
    OBVIOUS
  <2> HIDE DEF z
  <2> QED BY <2>1
<1>2. ASSUME NEW k \in Nat, P(k) PROVE P(k + 1)
  <2>1. PICK a : /\ a = [i \in 0 .. k |-> a[i]] /\ a[0] = First
                 /\ \A i \in 1 .. k : a[i] = Next1(a[i - 1], i)
    BY <1>2
  <2>2. PICK v : v = Next1(a[k], k + 1)
    OBVIOUS
  <2> DEFINE b == [i \in 0 .. (k + 1) |-> IF i = k + 1 THEN v ELSE a[i]]
  <2>3. b = [i \in 0 .. (k + 1) |-> b[i]] /\ b[0] = First /\ b[k + 1] = v /\ b[k] = a[k]
    BY <2>1
  <2>4. \A i \in 1 .. k : b[i] = a[i] /\ b[i - 1] = a[i - 1]
    OBVIOUS
  <2> HIDE DEF b
  <2>5. \A i \in 1 .. (k + 1) : b[i] = Next1(b[i - 1], i)
    <3> SUFFICES ASSUME NEW i \in 1 .. (k + 1) PROVE b[i] = Next1(b[i - 1], i)
      OBVIOUS
    <3>1. CASE i = k + 1
      <4>1. i - 1 = k
        BY <3>1
      <4> QED BY <2>2, <2>3, <3>1, <4>1
    <3>2. CASE i \in 1 .. k
      BY <2>1, <2>4, <3>2
    <3> QED BY <3>1, <3>2
  <2> QED BY <2>3, <2>5
<1> HIDE DEF P
<1>3. K = Nat
  <2>1. 0 \in K /\ (\A k \in K : k + 1 \in K) /\ K \in SUBSET Nat
    BY <1>1, <1>2
  <2> HIDE DEF K
  <2> QED BY <2>1, Induct
<1>4. P(n)
  BY <1>3
<1>5. PICK a : /\ a = [i \in 0 .. n |-> a[i]] /\ a[0] = First
               /\ \A i \in 1 .. n : a[i] = Next1(a[i - 1], i)
  BY <1>4 DEF P
<1>6. a = [i \in 0 .. n |-> IF i = 0 THEN First ELSE Next1(a[i - 1], i)]
  <2>1. \A i \in 0 .. n : a[i] = IF i = 0 THEN First ELSE Next1(a[i - 1], i)
    <3> SUFFICES ASSUME NEW i \in 0 .. n
                 PROVE  a[i] = IF i = 0 THEN First ELSE Next1(a[i - 1], i)
      OBVIOUS
    <3>1. CASE i = 0
      BY <1>5, <3>1
    <3>2. CASE i # 0
      <4>1. i \in 1 .. n
        BY <3>2
      <4> QED BY <1>5, <3>2, <4>1
    <3> QED BY <3>1, <3>2
  <2> QED BY <1>5, <2>1
<1>7. PlayedChain(a, frames, n)
  BY <1>6, Zenon DEF PlayedChain, First, Next1
<1> QED BY <1>7

\* What the frames played make of the session.
PlayedAs(was, fs, m) ==
  /\ LocalOK(was.l) /\ HeardOK(was.h, fs, m)
  /\ m > 0 /\ UnbrokenIn(fs, m) => Matches(was.l, fs[m].world)

\* Every frame that is played leaves the session so.
LEMMA PlayedFrames ==
  ASSUME NEW fs, Stream(fs), Len(fs) > 0 => fs[1].full, NEW n \in Nat,
         session.next \in Nat \ {0}, session.next + n <= Len(fs) + 1,
         PlayedAs([l |-> local, h |-> heard], fs, session.next - 1)
  PROVE  PlayedAs(Played(fs, n), fs, session.next + n - 1)
<1> DEFINE a == CHOOSE a : PlayedChain(a, fs, n)
           Next1(p, i) == FramePlayed(p, fs[session.next + i - 1])
<1>0. PICK k0 \in Nat \ {0} : k0 = session.next
  OBVIOUS
<1>0a. Len(fs) \in Nat /\ k0 + n <= Len(fs) + 1
  BY <1>0 DEF Stream, IsSeq
<1>1. PlayedChain(a, fs, n)
  BY PlayedChainExists
<1>2. Played(fs, n) = a[n]
  BY Zenon DEF Played, PlayedChain
<1> HIDE DEF a
<1>3. a[0] = [l |-> local, h |-> heard] /\ \A i \in 1 .. n : a[i] = Next1(a[i - 1], i)
  <2>1. a = [i \in 0 .. n |-> IF i = 0 THEN [l |-> local, h |-> heard] ELSE Next1(a[i - 1], i)]
    BY <1>1, Zenon DEF PlayedChain
  <2> HIDE DEF Next1
  <2> QED BY <2>1
<1> DEFINE P(i) == PlayedAs(a[i], fs, k0 + i - 1)
           S == {i \in Nat : i <= n => P(i)}
<1>4. P(0)
  <2>1. k0 + 0 - 1 = k0 - 1
    OBVIOUS
  <2> QED BY <1>0, <1>3, <2>1
<1>5. ASSUME NEW i \in Nat, i + 1 <= n, P(i) PROVE P(i + 1)
  <2>1. PICK m : m = k0 + i
    OBVIOUS
  <2>1a. k0 + i + 1 <= Len(fs) + 1
    BY <1>0a, <1>5
  <2>2. /\ m \in 1 .. Len(fs) /\ k0 + i - 1 = m - 1 /\ k0 + (i + 1) - 1 = m
        /\ i + 1 \in 1 .. n /\ (i + 1) - 1 = i
        /\ (m > 1 => m - 1 > 0) /\ m >= 1 /\ Len(fs) > 0
    BY <1>0a, <1>5, <2>1, <2>1a
  <2>3. a[i + 1] = FramePlayed(a[i], fs[m])
    BY <1>0, <1>3, <2>2
  <2>4. PICK was : was = a[i]
    OBVIOUS
  <2>5. PlayedAs(was, fs, m - 1)
    BY <1>5, <2>2, <2>4
  <2>6. PICK l : l = Applied(was.l, fs[m])
    OBVIOUS
  <2>7. LocalOK(l) /\ (UnbrokenIn(fs, m) => Matches(l, fs[m].world))
    <3>1. m > 1 /\ UnbrokenIn(fs, m - 1) => Matches(was.l, fs[m - 1].world)
      BY <2>2, <2>5 DEF PlayedAs
    <3>2. LocalOK(was.l) /\ (m = 1 => fs[1].full)
      BY <2>2, <2>5 DEF PlayedAs
    <3> QED BY <2>2, <2>6, <3>1, <3>2, AppliedMatches
  <2>8. HeardOK(CuesApplied(was.h, l, fs[m]), fs, m)
    <3>1. HeardOK(was.h, fs, m - 1)
      BY <2>5 DEF PlayedAs
    <3> QED BY <2>2, <2>7, <3>1, CuesHeard
  <2>9. a[i + 1] = [l |-> l, h |-> CuesApplied(was.h, l, fs[m])]
    BY <2>3, <2>4, <2>6, Zenon DEF FramePlayed
  <2>10. PlayedAs(a[i + 1], fs, m)
    BY <2>7, <2>8, <2>9 DEF PlayedAs
  <2> QED BY <2>2, <2>10
<1> HIDE DEF P
<1>6. S = Nat
  <2>1. 0 \in S /\ (\A i \in S : i + 1 \in S) /\ S \in SUBSET Nat
    BY <1>4, <1>5
  <2> HIDE DEF S
  <2> QED BY <2>1, Induct
<1>7. P(n)
  BY <1>6
<1> QED BY <1>0, <1>2, <1>7 DEF P

\* Longer frames: what was said of the first ones still holds.
LEMMA LongerFrames ==
  ASSUME NEW fs, NEW gs, Len(fs) \in Nat, NEW m \in 0 .. Len(fs), \A i \in 1 .. Len(fs) : gs[i] = fs[i]
  PROVE  /\ \A k \in 1 .. m : UnbrokenIn(gs, k) <=> UnbrokenIn(fs, k)
         /\ \A h : HeardOK(h, fs, m) => HeardOK(h, gs, m)
<1>1. ASSUME NEW k \in 1 .. m PROVE UnbrokenIn(gs, k) <=> UnbrokenIn(fs, k)
  <2>1. \A i \in 1 .. k : gs[i] = fs[i]
    OBVIOUS
  <2>2. \A i \in 1 .. k : \A j \in i + 1 .. k : j \in 1 .. k /\ j - 1 \in 1 .. k
    OBVIOUS
  <2> QED BY <2>1, <2>2 DEF UnbrokenIn
<1>2. ASSUME NEW h, HeardOK(h, fs, m) PROVE HeardOK(h, gs, m)
  <2>1. \A k \in 1 .. m : gs[k] = fs[k]
    OBVIOUS
  <2>2. \A k \in 1 .. m : \A q \in 1 .. Len(fs[k].cues) : CueAt(gs, k, q) <=> CueAt(fs, k, q)
    BY <1>1, <2>1 DEF CueAt
  <2>3. \A x \in 1 .. Len(h) : \E k \in 1 .. m : \E q \in 1 .. Len(gs[k].cues) :
          /\ h[x].n = gs[k].n /\ h[x].cue = gs[k].cues[q].cue
          /\ CueAt(gs, k, q) => h[x].to = h[x].cue.by
    <3> SUFFICES ASSUME NEW x \in 1 .. Len(h)
                 PROVE  \E k \in 1 .. m : \E q \in 1 .. Len(gs[k].cues) :
                          /\ h[x].n = gs[k].n /\ h[x].cue = gs[k].cues[q].cue
                          /\ CueAt(gs, k, q) => h[x].to = h[x].cue.by
      OBVIOUS
    <3>1. PICK k \in 1 .. m : \E q \in 1 .. Len(fs[k].cues) :
            /\ h[x].n = fs[k].n /\ h[x].cue = fs[k].cues[q].cue
            /\ CueAt(fs, k, q) => h[x].to = h[x].cue.by
      BY <1>2 DEF HeardOK
    <3>2. gs[k] = fs[k]
      BY <2>1
    <3> QED BY <2>2, <3>1, <3>2
  <2>4. \A k \in 1 .. m : \A q \in 1 .. Len(gs[k].cues) :
          CueAt(gs, k, q) => \E x \in 1 .. Len(h) : h[x].cue = gs[k].cues[q].cue
    <3> SUFFICES ASSUME NEW k \in 1 .. m, NEW q \in 1 .. Len(gs[k].cues), CueAt(gs, k, q)
                 PROVE  \E x \in 1 .. Len(h) : h[x].cue = gs[k].cues[q].cue
      OBVIOUS
    <3>1. gs[k] = fs[k]
      BY <2>1
    <3> QED BY <1>2, <2>2, <3>1 DEF HeardOK
  <2> QED BY <1>2, <2>3, <2>4 DEF HeardOK
<1> QED BY <1>1, <1>2

--------------------------------------------------------------------------------
(* What holds of the recorded server and of the writer                          *)

\* The cues that wait to be written: in the order they were emitted, each with the
\* slot its entity still has.
CuesOK(cs, sl, f, b) ==
  /\ IsSeq(cs)
  /\ \A q \in 1 .. Len(cs) :
       /\ cs[q].cue.at \in Nat /\ cs[q].cue.at <= f /\ cs[q].cue.by \in 1 .. b
       /\ \A s \in 1 .. Len(sl) : sl[s] = cs[q].cue.by => cs[q].owner = s
  /\ \A q, r \in 1 .. Len(cs) : q < r => cs[q].cue.at < cs[r].cue.at

IsWriter(w) ==
  /\ w = [written |-> w.written, lastFull |-> w.lastFull, n |-> w.n,
          dirty |-> w.dirty, gone |-> w.gone, cues |-> w.cues]
  /\ w.n \in Nat

RegOK(rg) ==
  \A e \in DOMAIN rg : /\ rg[e] = [arch |-> rg[e].arch, val |-> rg[e].val]
                       /\ rg[e].val = [c \in DOMAIN rg[e].val |-> rg[e].val[c]]

SourceInv ==
  /\ frame \in Nat /\ born \in Nat /\ lost \in BOOLEAN
  /\ DOMAIN reg \subseteq 1 .. born
  /\ RegOK(reg)
  /\ IsSeq(slots) /\ IsSeq(free) /\ SlotsOK(slots, free, DOMAIN reg)
  /\ IsWriter(writer) /\ CuesOK(writer.cues, slots, frame, born)

\* A delta frame written now would say all that happened since the world w.
Covered(w, dirty, gone, now) ==
  /\ \A s \in DOMAIN now \ dirty : s \in DOMAIN w \ gone /\ now[s] = w[s]
  /\ DOMAIN w \ DOMAIN now \subseteq gone \cup dirty

\* Frames with the numbers they were written with.
FramesOK(F, f, w, open, now) ==
  /\ \A x \in F : IsFrame(x) /\ x.n <= w.n /\ x.frame <= f
  /\ \A x, y \in F : x.frame < y.frame => x.n < y.n
  /\ \A x, y \in F : (y.n = x.n + 1 /\ y.sound /\ ~y.full) => Follows(x.world, y)
  /\ \A x \in F : x.n = w.n /\ ~open => Covered(x.world, w.dirty, w.gone, now)

Ascending(fs) == IsSeq(fs) /\ \A i, j \in 1 .. Len(fs) : i < j => fs[i].frame < fs[j].frame

Elements(fs) == {fs[i] : i \in 1 .. Len(fs)}

\* The frames of the ring and those a session took from it.
StreamInv ==
  /\ FramesOK(Elements(ring) \cup Elements(session.frames), frame, writer, lost, World(slots, reg))
  /\ Ascending(ring) /\ Len(ring) <= RingSize

IsSession(s) ==
  s = [active |-> s.active, threw |-> s.threw, frames |-> s.frames, next |-> s.next,
       playback |-> s.playback, end |-> s.end]

SessionInv ==
  /\ IsSession(session) /\ Ascending(session.frames)
  /\ session.frames = <<>> => session.next = 1 /\ ~session.active /\ heard = <<>>
  /\ session.frames # <<>> =>
       /\ session.frames[1].full /\ session.next \in 1 .. Len(session.frames) + 1
       /\ LocalOK(local) /\ HeardOK(heard, session.frames, session.next - 1)
       /\ UnbrokenIn(session.frames, LastApplied) => Matches(local, session.frames[LastApplied].world)

ReplayInv == SourceInv /\ StreamInv /\ SessionInv

\* Every order of a set lists it.
LEMMA OrderIsSeq ==
  ASSUME NEW S, IsFiniteSet(S), NEW o \in Orders(S)
  PROVE  IsSeq(o) /\ Len(o) = Cardinality(S) /\ {o[i] : i \in 1 .. Len(o)} = S
<1>1. PICK n \in Nat : n = Cardinality(S)
  BY FS_CardinalityType
<1>2. o \in [1 .. n -> S] /\ \A e \in S : \E i \in 1 .. n : o[i] = e
  BY <1>1 DEF Orders
<1>3. o = [i \in 1 .. n |-> o[i]]
  BY <1>2
<1>4. IsSeq(o) /\ Len(o) = n
  BY <1>3, FunctionIsSeq
<1>5. {o[i] : i \in 1 .. n} = S
  BY <1>2
<1> QED BY <1>1, <1>4, <1>5

\* The registry after the jobs.
LEMMA RegAfterShape ==
  ASSUME SourceInv, NEW job \in Jobs, NEW r, r = RegAfter(job)
  PROVE  /\ Added(job) \subseteq {born + 1} /\ Cardinality(Added(job)) \in 0 .. 1 /\ IsFiniteSet(Added(job))
         /\ Added(job) # {} => Cardinality(Added(job)) = 1
         /\ job.kill \subseteq DOMAIN reg /\ IsFiniteSet(job.kill) /\ job.emit \subseteq DOMAIN reg
         /\ DOMAIN r = (DOMAIN reg \ job.kill) \cup Added(job)
         /\ DOMAIN r \subseteq 1 .. (born + Cardinality(Added(job)))
         /\ RegOK(r)
         /\ \A e \in DOMAIN r : e \notin Added(job) \cup Written(job) => r[e] = reg[e]
<1>1. Added(job) = {} \/ Added(job) = {born + 1}
  BY DEF Added
<1>2. /\ Cardinality(Added(job)) \in 0 .. 1 /\ IsFiniteSet(Added(job))
      /\ Added(job) # {} => Cardinality(Added(job)) = 1
  <2>1. CASE Added(job) = {}
    BY <2>1, FS_EmptySet
  <2>2. CASE Added(job) = {born + 1}
    <3>1. PICK x : x = born + 1
      OBVIOUS
    <3>2. IsFiniteSet({x}) /\ Cardinality({x}) = 1
      BY FS_Singleton
    <3> QED BY <2>2, <3>1, <3>2
  <2> QED BY <1>1, <2>1, <2>2
<1>3. born \in Nat /\ DOMAIN reg \subseteq 1 .. born
  BY DEF SourceInv
<1>4. job.kill \subseteq DOMAIN reg /\ job.emit \subseteq DOMAIN reg
  BY DEF Jobs
<1>5. IsFiniteSet(job.kill)
  <2>1. job.kill \subseteq 1 .. born /\ IsFiniteSet(1 .. born)
    BY <1>3, <1>4, FS_Interval
  <2> QED BY <2>1, FS_Subset
<1> DEFINE New(e) == [reg[e] EXCEPT !.val = [c \in DOMAIN @ |->
             IF \E w \in job.write : w.of = e /\ w.comp = c
             THEN (CHOOSE w \in job.write : w.of = e /\ w.comp = c).val ELSE @[c]]]
           newborn == CHOOSE st \in job.make : TRUE
<1>6. r = [e \in (DOMAIN reg \ job.kill) \cup Added(job) |-> IF e \in Added(job) THEN newborn ELSE New(e)]
  BY Zenon DEF RegAfter
<1>7. ASSUME NEW e \in DOMAIN reg
      PROVE  /\ New(e) = [arch |-> New(e).arch, val |-> New(e).val]
             /\ New(e).val = [c \in DOMAIN New(e).val |-> New(e).val[c]]
             /\ e \notin Written(job) => New(e) = reg[e]
  <2>1. PICK x : x = reg[e]
    OBVIOUS
  <2>2. x = [arch |-> x.arch, val |-> x.val] /\ x.val = [c \in DOMAIN x.val |-> x.val[c]]
    BY <2>1 DEF SourceInv, RegOK
  <2> DEFINE Val(c) == IF \E w \in job.write : w.of = e /\ w.comp = c
                       THEN (CHOOSE w \in job.write : w.of = e /\ w.comp = c).val ELSE x.val[c]
  <2>3. New(e) = [x EXCEPT !.val = [c \in DOMAIN x.val |-> Val(c)]]
    BY <2>1
  <2>4. e \notin Written(job) => \A c \in DOMAIN x.val : Val(c) = x.val[c]
    BY DEF Written
  <2> HIDE DEF New, Val
  <2>5. New(e) = [arch |-> x.arch, val |-> [c \in DOMAIN x.val |-> Val(c)]]
    BY <2>2, <2>3
  <2>6. e \notin Written(job) => New(e) = reg[e]
    <3> SUFFICES ASSUME e \notin Written(job) PROVE New(e) = reg[e]
      OBVIOUS
    <3>1. [c \in DOMAIN x.val |-> Val(c)] = x.val
      BY <2>2, <2>4
    <3> QED BY <2>1, <2>2, <2>5, <3>1
  <2> QED BY <2>5, <2>6
<1>8. ASSUME Added(job) # {}
      PROVE  newborn = [arch |-> newborn.arch, val |-> newborn.val] /\ newborn.val = [c \in DOMAIN newborn.val |-> newborn.val[c]]
  <2>1. job.make # {} /\ job.make \subseteq UNION {States(a) : a \in Archetypes}
    BY <1>8 DEF Added, Jobs
  <2>2. PICK a \in Archetypes : newborn \in States(a)
    BY <2>1
  <2> HIDE DEF newborn
  <2> QED BY <2>2 DEF States
<1> HIDE DEF New, newborn
<1>9. /\ DOMAIN r = (DOMAIN reg \ job.kill) \cup Added(job)
      /\ \A e \in Added(job) : r[e] = newborn
      /\ \A e \in DOMAIN r \ Added(job) : r[e] = New(e) /\ e \in DOMAIN reg
  BY <1>6
<1>10. RegOK(r)
  <2> SUFFICES ASSUME NEW e \in DOMAIN r
               PROVE  /\ r[e] = [arch |-> r[e].arch, val |-> r[e].val]
                      /\ r[e].val = [c \in DOMAIN r[e].val |-> r[e].val[c]]
    BY DEF RegOK
  <2>1. CASE e \in Added(job)
    <3>1. r[e] = newborn /\ Added(job) # {}
      BY <1>9, <2>1
    <3> QED BY <1>8, <3>1, Zenon
  <2>2. CASE e \notin Added(job)
    <3>1. r[e] = New(e) /\ e \in DOMAIN reg
      BY <1>9, <2>2
    <3> QED BY <1>7, <3>1, Zenon
  <2> QED BY <2>1, <2>2
<1>11. \A e \in DOMAIN r : e \notin Added(job) \cup Written(job) => r[e] = reg[e]
  BY <1>7, <1>9
<1>12. DOMAIN r \subseteq 1 .. (born + Cardinality(Added(job)))
  BY <1>1, <1>2, <1>3, <1>9
<1>13. Added(job) \subseteq {born + 1}
  BY <1>1
<1> QED BY <1>2, <1>4, <1>5, <1>9, <1>10, <1>11, <1>12, <1>13

\* The slots after the jobs.
LEMMA TickTable ==
  ASSUME SourceInv, NEW job \in Jobs, NEW gone \in Orders(job.kill), NEW new \in Orders(Added(job)),
         NEW t, t = Discovered(gone, new)
  PROVE  Table(t, DOMAIN RegAfter(job)) /\ Moved(slots, t, job.kill, Added(job))
<1>1. PICK r : r = RegAfter(job)
  OBVIOUS
<1>2. /\ Added(job) \subseteq {born + 1} /\ Cardinality(Added(job)) \in 0 .. 1 /\ IsFiniteSet(Added(job))
      /\ job.kill \subseteq DOMAIN reg /\ IsFiniteSet(job.kill)
      /\ DOMAIN r = (DOMAIN reg \ job.kill) \cup Added(job)
  BY <1>1, RegAfterShape
<1>3. born \in Nat /\ DOMAIN reg \subseteq 1 .. born
  BY DEF SourceInv
<1>4. /\ IsSeq(gone) /\ {gone[i] : i \in 1 .. Len(gone)} = job.kill
      /\ IsSeq(new) /\ {new[i] : i \in 1 .. Len(new)} = Added(job) /\ Len(new) = Cardinality(Added(job))
  BY <1>2, OrderIsSeq
<1>5. Nobody \notin DOMAIN reg /\ born + 1 # Nobody /\ born + 1 \notin DOMAIN reg
  BY <1>3 DEF Nobody
<1>6. \A j \in 1 .. Len(gone) : gone[j] # Nobody
  BY <1>2, <1>4, <1>5
<1>7. \A j \in 1 .. Len(new) : new[j] # Nobody /\ new[j] \notin DOMAIN reg
  BY <1>2, <1>4, <1>5
<1>8. Len(new) <= 1
  BY <1>2, <1>4
<1>9. IsSeq(slots) /\ IsSeq(free) /\ SlotsOK(slots, free, DOMAIN reg)
  BY DEF SourceInv
<1>10. PICK L, K, A : L = DOMAIN reg /\ K = job.kill /\ A = Added(job)
  OBVIOUS
<1>11. Table(t, (L \ K) \cup A) /\ Moved(slots, t, K, A)
  BY <1>10, <1>4, <1>5, <1>6, <1>7, <1>8, <1>9, DiscoveredTable
<1> QED BY <1>1, <1>2, <1>10, <1>11

\* What the writer knows after the observers of a frame have run.
ObservedOK(o, t, job) ==
  /\ IsWriter(o) /\ o.n = writer.n /\ o.gone = writer.gone \cup t.gone
  /\ o.dirty = writer.dirty \cup {s \in 1 .. Len(t.slots) : t.slots[s] \in Added(job) \cup Written(job)}
  /\ o.cues = IF job.emit = {} THEN writer.cues
              ELSE Append(writer.cues, CueEntry(CHOOSE e \in job.emit : TRUE, t.slots))

\* What the writer knows, field by field.
LEMMA ObservedFields ==
  ASSUME IsWriter(writer), NEW t, NEW job, NEW o, o = Observed(t, job)
  PROVE  ObservedOK(o, t, job)
<1>1. PICK c, g, d : /\ c = (IF job.emit = {} THEN writer.cues
                             ELSE Append(writer.cues, CueEntry(CHOOSE e \in job.emit : TRUE, t.slots)))
                     /\ g = writer.gone \cup t.gone
                     /\ d = writer.dirty \cup {s \in 1 .. Len(t.slots) : t.slots[s] \in Added(job) \cup Written(job)}
  OBVIOUS
<1>2. o = [writer EXCEPT !.cues = c, !.gone = g, !.dirty = d]
  BY <1>1, Zenon DEF Observed
<1>3. o = [written |-> writer.written, lastFull |-> writer.lastFull, n |-> writer.n,
           dirty |-> d, gone |-> g, cues |-> c]
  BY <1>2 DEF IsWriter
<1>4. o.n = writer.n /\ o.gone = g /\ o.dirty = d /\ o.cues = c
  BY <1>3
<1>5. IsWriter(o)
  BY <1>3 DEF IsWriter
<1> QED BY <1>1, <1>4, <1>5 DEF ObservedOK

\* What the writer has pending covers one more frame.
LEMMA CoveredStep ==
  ASSUME SourceInv, NEW job \in Jobs, NEW t, Table(t, DOMAIN RegAfter(job)),
         Moved(slots, t, job.kill, Added(job)), NEW o, o = Observed(t, job),
         NEW w, Covered(w, writer.dirty, writer.gone, World(slots, reg))
  PROVE  Covered(w, o.dirty, o.gone, World(t.slots, RegAfter(job)))
<1>1. PICK r, was, now : r = RegAfter(job) /\ was = World(slots, reg) /\ now = World(t.slots, r)
  OBVIOUS
<1>2. /\ Added(job) \subseteq {born + 1} /\ job.kill \subseteq DOMAIN reg
      /\ DOMAIN r = (DOMAIN reg \ job.kill) \cup Added(job)
      /\ \A e \in DOMAIN r : e \notin Added(job) \cup Written(job) => r[e] = reg[e]
  BY <1>1, RegAfterShape
<1>3. IsWriter(writer) /\ Len(slots) \in Nat /\ Len(t.slots) \in Nat /\ Nobody \notin DOMAIN reg /\ Nobody \notin DOMAIN r
  <2>1. born \in Nat /\ DOMAIN reg \subseteq 1 .. born
    BY DEF SourceInv
  <2>2. Nobody \notin DOMAIN reg /\ Nobody # born + 1
    BY <2>1 DEF Nobody
  <2>3. IsWriter(writer) /\ Len(slots) \in Nat /\ Len(t.slots) \in Nat
    BY DEF SourceInv, Table, IsSeq
  <2> QED BY <1>2, <2>2, <2>3
<1>4. /\ DOMAIN was = {i \in 1 .. Len(slots) : slots[i] \in DOMAIN reg}
      /\ \A s \in DOMAIN was : was[s] = [of |-> slots[s], st |-> reg[slots[s]]]
  BY <1>1 DEF World
<1>5. /\ DOMAIN now = {i \in 1 .. Len(t.slots) : t.slots[i] \in DOMAIN r}
      /\ \A s \in DOMAIN now : now[s] = [of |-> t.slots[s], st |-> r[t.slots[s]]]
  BY <1>1 DEF World
<1>6. /\ o.gone = writer.gone \cup t.gone
      /\ o.dirty = writer.dirty \cup {s \in 1 .. Len(t.slots) : t.slots[s] \in Added(job) \cup Written(job)}
  <2>1. ObservedOK(o, t, job)
    BY <1>3, ObservedFields
  <2> QED BY <2>1 DEF ObservedOK
<1>7. ASSUME NEW s \in DOMAIN now \ o.dirty PROVE s \in DOMAIN w \ o.gone /\ now[s] = w[s]
  <2>1. s \in 1 .. Len(t.slots) /\ t.slots[s] \in DOMAIN r /\ s \notin writer.dirty
        /\ t.slots[s] \notin Added(job) \cup Written(job)
    BY <1>5, <1>6, <1>7
  <2>2. s \in 1 .. Len(slots) /\ t.slots[s] = slots[s] /\ slots[s] \notin job.kill
    BY <1>3, <2>1 DEF Moved
  <2>3. slots[s] \in DOMAIN reg /\ r[slots[s]] = reg[slots[s]]
    BY <1>2, <2>1, <2>2
  <2>4. s \in DOMAIN was /\ now[s] = was[s]
    BY <1>4, <1>5, <2>2, <2>3
  <2>5. s \in DOMAIN w \ writer.gone /\ was[s] = w[s]
    BY <1>1, <2>1, <2>4 DEF Covered
  <2>6. s \notin t.gone
    BY <2>2 DEF Moved
  <2> QED BY <1>6, <2>4, <2>5, <2>6
<1>8. ASSUME NEW s \in DOMAIN w \ DOMAIN now PROVE s \in o.gone \cup o.dirty
  <2>1. CASE s \notin DOMAIN was
    BY <1>1, <1>6, <2>1 DEF Covered
  <2>2. CASE s \in DOMAIN was
    <3>1. s \in 1 .. Len(slots) /\ slots[s] \in DOMAIN reg /\ s \in 1 .. Len(t.slots)
      BY <1>3, <1>4, <2>2 DEF Moved
    <3>2. t.slots[s] \notin DOMAIN r
      BY <1>5, <1>8, <3>1
    <3>3. slots[s] \in job.kill
      BY <1>2, <1>3, <3>1, <3>2 DEF Moved
    <3>4. s \in t.gone
      BY <3>1, <3>3 DEF Moved
    <3> QED BY <1>6, <3>4
  <2> QED BY <2>1, <2>2
<1> QED BY <1>1, <1>7, <1>8 DEF Covered

\* The pending cues after the jobs.
LEMMA CuesStep ==
  ASSUME SourceInv, NEW job \in Jobs, NEW t, Table(t, DOMAIN RegAfter(job)),
         Moved(slots, t, job.kill, Added(job)), NEW b \in Nat, born <= b, NEW o, o = Observed(t, job)
  PROVE  CuesOK(writer.cues, t.slots, frame + 1, b) /\ CuesOK(o.cues, t.slots, frame + 1, b)
<1>1. /\ Added(job) \subseteq {born + 1} /\ job.emit \subseteq DOMAIN reg
  BY RegAfterShape
<1>2. /\ frame \in Nat /\ born \in Nat /\ DOMAIN reg \subseteq 1 .. born /\ Len(slots) \in Nat
      /\ IsWriter(writer) /\ CuesOK(writer.cues, slots, frame, born)
      /\ Len(t.slots) \in Nat
  BY DEF SourceInv, Table, IsSeq
<1>3. PICK cs, m : cs = writer.cues /\ m = Len(writer.cues)
  OBVIOUS
<1>4. /\ IsSeq(cs) /\ m = Len(cs) /\ m \in Nat
      /\ \A q \in 1 .. m : /\ cs[q].cue.at \in Nat /\ cs[q].cue.at <= frame /\ cs[q].cue.by \in 1 .. born
                           /\ \A s \in 1 .. Len(slots) : slots[s] = cs[q].cue.by => cs[q].owner = s
      /\ \A q, r \in 1 .. m : q < r => cs[q].cue.at < cs[r].cue.at
  BY <1>2, <1>3 DEF CuesOK, IsSeq
<1>5. \A q \in 1 .. m : \A s \in 1 .. Len(t.slots) : t.slots[s] = cs[q].cue.by => cs[q].owner = s
  <2> SUFFICES ASSUME NEW q \in 1 .. m, NEW s \in 1 .. Len(t.slots), t.slots[s] = cs[q].cue.by
               PROVE  cs[q].owner = s
    OBVIOUS
  <2>1. cs[q].cue.by \in 1 .. born
    BY <1>4
  <2>2. t.slots[s] \notin Added(job) \cup {Nobody}
    BY <1>1, <1>2, <2>1 DEF Nobody
  <2>3. s \in 1 .. Len(slots) /\ t.slots[s] = slots[s]
    BY <1>2, <2>2 DEF Moved
  <2> QED BY <1>4, <2>3
<1>6. \A q \in 1 .. m : cs[q].cue.at < frame + 1 /\ cs[q].cue.at <= frame + 1 /\ cs[q].cue.by \in 1 .. b
  BY <1>2, <1>4
<1>7. CuesOK(cs, t.slots, frame + 1, b)
  BY <1>4, <1>5, <1>6 DEF CuesOK
<1>8. CASE job.emit = {}
  <2>1. ObservedOK(o, t, job)
    BY <1>2, ObservedFields
  <2>2. o.cues = cs
    BY <1>3, <1>8, <2>1 DEF ObservedOK
  <2> QED BY <1>3, <1>7, <2>2
<1>9. CASE job.emit # {}
  <2>1. PICK e \in job.emit : e = CHOOSE x \in job.emit : TRUE
    BY <1>9
  <2>2. PICK c, ds : c = CueEntry(e, t.slots) /\ ds = o.cues
    OBVIOUS
  <2>3. ds = Append(cs, c)
    <3>1. ObservedOK(o, t, job)
      BY <1>2, ObservedFields
    <3> QED BY <1>3, <1>9, <2>1, <2>2, <3>1 DEF ObservedOK
  <2>4. /\ IsSeq(ds) /\ Len(ds) = m + 1 /\ ds[m + 1] = c
        /\ \A q \in 1 .. m : ds[q] = cs[q]
    BY <1>4, <2>3, AppendIsSeq
  <2>5. e \in 1 .. b
    BY <1>1, <1>2
  <2>6. c.cue.by = e /\ c.cue.at = frame + 1
    BY <2>2 DEF CueEntry
  <2>7. \A s \in 1 .. Len(t.slots) : t.slots[s] = e => c.owner = s
    <3> SUFFICES ASSUME NEW s \in 1 .. Len(t.slots), t.slots[s] = e PROVE c.owner = s
      OBVIOUS
    <3> DEFINE at == {i \in 1 .. Len(t.slots) : t.slots[i] = e}
    <3>1. e # Nobody
      BY <1>1, <1>2 DEF Nobody
    <3>2. at = {s}
      BY <3>1 DEF Table, SlotsOK
    <3>3. c.owner = IF at = {} THEN 0 ELSE CHOOSE i \in at : TRUE
      BY <2>2 DEF CueEntry
    <3> HIDE DEF at
    <3> QED BY <3>2, <3>3
  <2>8. \A q \in 1 .. (m + 1) : q = m + 1 \/ q \in 1 .. m
    BY <1>4
  <2>9. \A q \in 1 .. (m + 1) :
          /\ ds[q].cue.at \in Nat /\ ds[q].cue.at <= frame + 1 /\ ds[q].cue.by \in 1 .. b
          /\ \A s \in 1 .. Len(t.slots) : t.slots[s] = ds[q].cue.by => ds[q].owner = s
    <3> SUFFICES ASSUME NEW q \in 1 .. (m + 1)
                 PROVE  /\ ds[q].cue.at \in Nat /\ ds[q].cue.at <= frame + 1 /\ ds[q].cue.by \in 1 .. b
                        /\ \A s \in 1 .. Len(t.slots) : t.slots[s] = ds[q].cue.by => ds[q].owner = s
      OBVIOUS
    <3>1. CASE q = m + 1
      BY <1>2, <2>4, <2>5, <2>6, <2>7, <3>1, SMTT(30)
    <3>2. CASE q \in 1 .. m
      BY <1>4, <1>5, <1>6, <2>4, <3>2
    <3> QED BY <2>8, <3>1, <3>2
  <2>10. \A q, r \in 1 .. (m + 1) : q < r => ds[q].cue.at < ds[r].cue.at
    <3> SUFFICES ASSUME NEW q \in 1 .. (m + 1), NEW r \in 1 .. (m + 1), q < r
                 PROVE  ds[q].cue.at < ds[r].cue.at
      OBVIOUS
    <3>1. q \in 1 .. m
      BY <1>4
    <3>2. CASE r = m + 1
      BY <1>6, <2>4, <2>6, <3>1, <3>2
    <3>3. CASE r \in 1 .. m
      BY <1>4, <2>4, <3>1, <3>3
    <3> QED BY <2>8, <3>2, <3>3
  <2>11. CuesOK(ds, t.slots, frame + 1, b)
    BY <2>4, <2>9, <2>10 DEF CuesOK
  <2> QED BY <1>3, <1>7, <2>2, <2>11
<1> QED BY <1>8, <1>9

\* Frames as time goes on, nothing being written.
LEMMA FramesKept ==
  ASSUME NEW F, NEW f \in Nat, NEW w, NEW open \in BOOLEAN, NEW now, FramesOK(F, f, w, open, now),
         NEW G, G \subseteq F, NEW g \in Nat, f <= g, NEW v, v.n = w.n, NEW shut \in BOOLEAN, NEW then,
         ~shut => /\ ~open
                  /\ \A x : Covered(x, w.dirty, w.gone, now) => Covered(x, v.dirty, v.gone, then)
  PROVE  FramesOK(G, g, v, shut, then)
<1>1. \A x \in G : IsFrame(x) /\ x.n <= v.n /\ x.frame <= g
  <2> SUFFICES ASSUME NEW x \in G PROVE IsFrame(x) /\ x.n <= v.n /\ x.frame <= g
    OBVIOUS
  <2>1. IsFrame(x) /\ x.n <= w.n /\ x.frame <= f
    BY DEF FramesOK
  <2>2. x.frame \in Nat
    BY <2>1 DEF IsFrame
  <2> QED BY <2>1, <2>2
<1>2. \A x, y \in G : x.frame < y.frame => x.n < y.n
  BY DEF FramesOK
<1>3. \A x, y \in G : (y.n = x.n + 1 /\ y.sound /\ ~y.full) => Follows(x.world, y)
  BY DEF FramesOK
<1>4. \A x \in G : x.n = v.n /\ ~shut => Covered(x.world, v.dirty, v.gone, then)
  <2> SUFFICES ASSUME NEW x \in G, x.n = v.n, ~shut PROVE Covered(x.world, v.dirty, v.gone, then)
    OBVIOUS
  <2>1. Covered(x.world, w.dirty, w.gone, now)
    BY DEF FramesOK
  <2> QED BY <2>1
<1> QED BY <1>1, <1>2, <1>3, <1>4 DEF FramesOK

\* A frame is written.
LEMMA FramesAdded ==
  ASSUME NEW F, NEW f \in Nat, NEW w, w.n \in Nat, NEW open \in BOOLEAN, NEW now, FramesOK(F, f, w, open, now),
         NEW x, IsFrame(x), x.n = w.n + 1, x.frame = f + 1, x.world = now,
         x.sound => x.full \/ ~open,
         ~x.full => x.destroys = Destroys(w, now) /\ x.updates = w.dirty \cap DOMAIN now,
         NEW v, v.n = w.n + 1, v.dirty = {}, v.gone = {}, NEW shut \in BOOLEAN
  PROVE  FramesOK(F \cup {x}, f + 1, v, shut, now)
<1>1. \A y \in F : IsFrame(y) /\ y.n \in Nat /\ y.frame \in Nat /\ y.n <= w.n /\ y.frame <= f
  BY DEF FramesOK, IsFrame
<1>2. \A y \in F \cup {x} : IsFrame(y) /\ y.n <= v.n /\ y.frame <= f + 1
  BY <1>1
<1>3. \A y, z \in F \cup {x} : y.frame < z.frame => y.n < z.n
  <2> SUFFICES ASSUME NEW y \in F \cup {x}, NEW z \in F \cup {x}, y.frame < z.frame
               PROVE  y.n < z.n
    OBVIOUS
  <2>1. CASE z = x
    <3>1. y \in F
      BY <2>1
    <3> QED BY <1>1, <2>1, <3>1
  <2>2. CASE z \in F /\ y = x
    BY <1>1, <2>2
  <2>3. CASE z \in F /\ y \in F
    BY <2>3 DEF FramesOK
  <2> QED BY <2>1, <2>2, <2>3
<1>4. \A y, z \in F \cup {x} : (z.n = y.n + 1 /\ z.sound /\ ~z.full) => Follows(y.world, z)
  <2> SUFFICES ASSUME NEW y \in F \cup {x}, NEW z \in F \cup {x}, z.n = y.n + 1, z.sound, ~z.full
               PROVE  Follows(y.world, z)
    OBVIOUS
  <2>1. CASE z = x
    <3>1. y \in F /\ y.n = w.n
      BY <1>1, <2>1
    <3>2. Covered(y.world, w.dirty, w.gone, now)
      BY <2>1, <3>1 DEF FramesOK
    <3>3. x.destroys = w.gone \cup (w.dirty \ DOMAIN now) /\ x.updates = w.dirty \cap DOMAIN now
      BY <2>1 DEF Destroys
    <3> QED BY <2>1, <3>2, <3>3 DEF Covered, Follows
  <2>2. CASE z \in F /\ y = x
    BY <1>1, <2>2
  <2>3. CASE z \in F /\ y \in F
    BY <2>3 DEF FramesOK
  <2> QED BY <2>1, <2>2, <2>3
<1>5. \A y \in F \cup {x} : y.n = v.n /\ ~shut => Covered(y.world, v.dirty, v.gone, now)
  <2> SUFFICES ASSUME NEW y \in F \cup {x}, y.n = v.n
               PROVE  Covered(y.world, v.dirty, v.gone, now)
    OBVIOUS
  <2>1. y = x
    BY <1>1
  <2> QED BY <2>1 DEF Covered
<1> QED BY <1>2, <1>3, <1>4, <1>5 DEF FramesOK

\* The frame as it is written.
WrittenAs(x, f, o, w) ==
  /\ IsFrame(x) /\ x.n = o.n + 1 /\ x.frame = f /\ x.world = w
  /\ x.sound => x.full \/ ~lost
  /\ ~x.full => x.destroys = Destroys(o, w) /\ x.updates = o.dirty \cap DOMAIN w

\* What is written is a frame with all that the writer had pending.
LEMMA ReplayFrameIsFrame ==
  ASSUME NEW f \in Nat, NEW o, IsWriter(o), o.n = writer.n, NEW sl, Len(sl) \in Nat, NEW rg, NEW b,
         CuesOK(o.cues, sl, f, b), NEW full \in BOOLEAN, NEW w, w = World(sl, rg), NEW x, x = ReplayFrame(f, o, w, full)
  PROVE  WrittenAs(x, f, o, w)
<1>2. DOMAIN w \subseteq 1 .. Len(sl) /\ \A s \in DOMAIN w : w[s].of = sl[s]
  BY DEF World
<1>3. PICK d, u, ok : /\ d = (IF full THEN {} ELSE Destroys(o, w)) /\ u = Updates(o, w, full)
                      /\ ok = (full \/ ~lost)
  OBVIOUS
<1>4. x = [frame |-> f, full |-> full, cues |-> o.cues, destroys |-> d, updates |-> u,
           world |-> w, sound |-> ok, n |-> writer.n + 1]
  BY <1>3, Zenon DEF ReplayFrame
<1>5. /\ x.frame = f /\ x.full = full /\ x.cues = o.cues /\ x.destroys = d /\ x.updates = u
      /\ x.world = w /\ x.sound = ok /\ x.n = writer.n + 1
  BY <1>4
<1>6. u \subseteq DOMAIN w /\ (full => u = DOMAIN w) /\ (~full => u = o.dirty \cap DOMAIN w)
  BY <1>3 DEF Updates
<1>7. \A q \in 1 .. Len(o.cues) : \A s \in DOMAIN w : w[s].of = o.cues[q].cue.by => o.cues[q].owner = s
  BY <1>2 DEF CuesOK
<1>8. \A q, r \in 1 .. Len(o.cues) : o.cues[q].cue = o.cues[r].cue => q = r
  <2> SUFFICES ASSUME NEW q \in 1 .. Len(o.cues), NEW r \in 1 .. Len(o.cues), o.cues[q].cue = o.cues[r].cue
               PROVE  q = r
    OBVIOUS
  <2>1. o.cues[q].cue.at \in Nat /\ Len(o.cues) \in Nat
    BY DEF CuesOK, IsSeq
  <2>2. ~(o.cues[q].cue.at < o.cues[r].cue.at) /\ ~(o.cues[r].cue.at < o.cues[q].cue.at)
    BY <2>1
  <2>3. ~(q < r) /\ ~(r < q)
    BY <2>2 DEF CuesOK
  <2> QED BY <2>1, <2>3
<1>9. IsSeq(o.cues) /\ writer.n + 1 \in Nat
  BY DEF CuesOK, IsWriter
<1>10. IsFrame(x)
  BY <1>5, <1>6, <1>7, <1>8, <1>9 DEF IsFrame
<1> QED BY <1>3, <1>5, <1>6, <1>10 DEF WrittenAs

\* The ring takes a frame.
LEMMA PushedRing ==
  ASSUME Ascending(ring), Len(ring) <= RingSize, NEW x,
         \A i \in 1 .. Len(ring) : ring[i].frame < x.frame, NEW p, p = Pushed(x)
  PROVE  Ascending(p) /\ Len(p) <= RingSize /\ Elements(p) \subseteq Elements(ring) \cup {x}
<1>1. IsSeq(ring) /\ Len(ring) \in Nat /\ RingSize \in Nat \ {0}
  BY ReplayAssumption DEF Ascending, IsSeq
<1>2. PICK base : /\ p = Append(base, x) /\ IsSeq(base) /\ Len(base) < RingSize
                  /\ Ascending(base)
                  /\ \A i \in 1 .. Len(base) : base[i] \in Elements(ring) /\ base[i].frame < x.frame
  <2>1. CASE Len(ring) < RingSize
    BY <1>1, <2>1 DEF Pushed, Elements
  <2>2. CASE ~(Len(ring) < RingSize)
    <3>1. Len(ring) = RingSize
      BY <1>1, <2>2
    <3>2. PICK base : base = SubSeq(ring, 2, RingSize)
      OBVIOUS
    <3>3. /\ IsSeq(base) /\ Len(base) = RingSize - 1
          /\ \A i \in 1 .. Len(base) : base[i] = ring[2 + i - 1]
      <4>1. PICK r : r = ring
        OBVIOUS
      <4>2. PICK n \in Nat : n = RingSize
        BY <1>1
      <4>3. IsSeq(r) /\ 2 \in 1 .. Len(r) + 1 /\ n <= Len(r) /\ base = SubSeq(r, 2, n)
        BY <1>1, <3>1, <3>2, <4>1, <4>2
      <4>4. /\ IsSeq(base) /\ Len(base) = IF 2 <= n THEN n - 2 + 1 ELSE 0
            /\ \A i \in 1 .. Len(base) : base[i] = r[2 + i - 1]
        BY <4>3, RestIsSeq
      <4> QED BY <1>1, <4>1, <4>2, <4>4
    <3>4. \A i \in 1 .. Len(base) : base[i] = ring[i + 1] /\ i + 1 \in 1 .. Len(ring)
      BY <3>1, <3>3
    <3>5. \A i, j \in 1 .. Len(base) : i < j => base[i].frame < base[j].frame
      <4> SUFFICES ASSUME NEW i \in 1 .. Len(base), NEW j \in 1 .. Len(base), i < j
                   PROVE  base[i].frame < base[j].frame
        OBVIOUS
      <4>1. i + 1 < j + 1
        BY <3>3
      <4> QED BY <3>4, <4>1 DEF Ascending
    <3>6. Ascending(base)
      BY <3>3, <3>5 DEF Ascending
    <3>7. p = Append(base, x)
      BY <2>2, <3>2 DEF Pushed
    <3>8. \A i \in 1 .. Len(base) : base[i] \in Elements(ring) /\ base[i].frame < x.frame
      BY <3>4 DEF Elements
    <3>9. Len(base) < RingSize
      BY <1>1, <3>3
    <3> QED BY <3>3, <3>6, <3>7, <3>8, <3>9
  <2> QED BY <2>1, <2>2
<1>3. PICK m \in Nat : m = Len(base)
  BY <1>2 DEF IsSeq
<1>4. /\ IsSeq(p) /\ Len(p) = m + 1 /\ p[m + 1] = x /\ \A i \in 1 .. m : p[i] = base[i]
  BY <1>2, <1>3, AppendIsSeq
<1>5. \A i \in 1 .. (m + 1) : i = m + 1 \/ i \in 1 .. m
  BY <1>3
<1>6. \A i, j \in 1 .. Len(p) : i < j => p[i].frame < p[j].frame
  <2> SUFFICES ASSUME NEW i \in 1 .. (m + 1), NEW j \in 1 .. (m + 1), i < j
               PROVE  p[i].frame < p[j].frame
    BY <1>4
  <2>1. i \in 1 .. m
    BY <1>3
  <2>2. CASE j = m + 1
    BY <1>2, <1>3, <1>4, <2>1, <2>2
  <2>3. CASE j \in 1 .. m
    BY <1>2, <1>3, <1>4, <2>1, <2>3 DEF Ascending
  <2> QED BY <1>5, <2>2, <2>3
<1>7. Elements(p) \subseteq Elements(ring) \cup {x}
  <2> SUFFICES ASSUME NEW i \in 1 .. (m + 1) PROVE p[i] \in Elements(ring) \cup {x}
    BY <1>4 DEF Elements
  <2> QED BY <1>2, <1>3, <1>4, <1>5
<1> QED BY <1>1, <1>2, <1>3, <1>4, <1>6, <1>7 DEF Ascending

--------------------------------------------------------------------------------
(* The steps of the recorded server                                             *)

\* A step of the recorded server: what is pending covers what happened, and the frame
\* that is written says it all.
LEMMA SourceTickInv ==
  ASSUME ReplayInv, NEW job \in Jobs, NEW attached \in BOOLEAN,
         SourceTick(job, attached)
  PROVE  SourceInv' /\ StreamInv'
<1>1. PICK gone \in Orders(job.kill), new \in Orders(Added(job)) :
        LET f     == frame + 1
            t     == Discovered(gone, new)
            w     == Observed(t, job)
            world == World(t.slots, RegAfter(job))
            full  == FullDue(f)
        IN  /\ frame' = f /\ slots' = t.slots /\ free' = t.free
            /\ reg' = RegAfter(job)
            /\ born' = born + Cardinality(Added(job))
            /\ IF ~attached
               THEN UNCHANGED <<writer, ring>> /\ lost' = TRUE
               ELSE IF ~WriteDue(f)
               THEN writer' = w /\ UNCHANGED <<ring, lost>>
               ELSE /\ writer' = Emptied(w, f, full)
                    /\ ring' = Pushed(ReplayFrame(f, w, world, full))
                    /\ lost' = (lost /\ ~full)
            /\ UNCHANGED player
  BY DEF SourceTick
<1>2. PICK t, o, r : t = Discovered(gone, new) /\ o = Observed(t, job) /\ r = RegAfter(job)
  OBVIOUS
<1>3. PICK full \in BOOLEAN : full = FullDue(frame + 1)
  BY DEF FullDue
<1>4. PICK world, x : world = World(t.slots, r) /\ x = ReplayFrame(frame + 1, o, world, full)
  OBVIOUS
<1>5. /\ frame' = frame + 1 /\ slots' = t.slots /\ free' = t.free /\ reg' = r
      /\ born' = born + Cardinality(Added(job)) /\ session' = session
      /\ \/ ~attached /\ writer' = writer /\ ring' = ring /\ lost' = TRUE
         \/ writer' = o /\ ring' = ring /\ lost' = lost
         \/ /\ writer' = Emptied(o, frame + 1, full) /\ ring' = Pushed(x)
            /\ lost' = (lost /\ ~full)
  BY <1>1, <1>2, <1>3, <1>4 DEF player
<1>6. SourceInv /\ StreamInv
  BY DEF ReplayInv
<1>7. Table(t, DOMAIN r) /\ Moved(slots, t, job.kill, Added(job))
  BY <1>2, <1>6, TickTable
<1>8. /\ Cardinality(Added(job)) \in 0 .. 1
      /\ DOMAIN r \subseteq 1 .. (born + Cardinality(Added(job)))
      /\ RegOK(r)
  BY <1>2, <1>6, RegAfterShape
<1>9. frame \in Nat /\ born \in Nat /\ lost \in BOOLEAN /\ IsWriter(writer)
  BY <1>6 DEF SourceInv
<1>10. born' \in Nat /\ born <= born' /\ frame + 1 \in Nat
  BY <1>5, <1>8, <1>9
<1>11. CuesOK(writer.cues, t.slots, frame + 1, born') /\ CuesOK(o.cues, t.slots, frame + 1, born')
  BY <1>2, <1>6, <1>7, <1>10, CuesStep
<1>12. IsWriter(o) /\ o.n = writer.n
  <2>1. ObservedOK(o, t, job)
    BY <1>2, <1>9, ObservedFields
  <2> QED BY <2>1 DEF ObservedOK
<1>13. PICK v : v = Emptied(o, frame + 1, full)
  OBVIOUS
<1>14. IsWriter(v) /\ v.n = o.n + 1 /\ v.dirty = {} /\ v.gone = {} /\ v.cues = <<>>
  <2>1. PICK h : h = (IF full THEN frame + 1 ELSE o.lastFull)
    OBVIOUS
  <2>2. v = [o EXCEPT !.dirty = {}, !.gone = {}, !.cues = <<>>, !.written = TRUE, !.n = @ + 1,
                      !.lastFull = h]
    BY <1>13, <2>1 DEF Emptied
  <2>3. v = [written |-> TRUE, lastFull |-> h, n |-> o.n + 1, dirty |-> {}, gone |-> {}, cues |-> <<>>]
    BY <1>12, <2>2 DEF IsWriter
  <2> QED BY <1>12, <2>3 DEF IsWriter
<1>15. CuesOK(<<>>, t.slots, frame + 1, born')
  BY EmptyIsSeq DEF CuesOK
<1>16. SourceInv'
  <2>1. IsWriter(writer') /\ CuesOK(writer'.cues, t.slots, frame + 1, born') /\ lost' \in BOOLEAN
    BY <1>5, <1>9, <1>11, <1>12, <1>13, <1>14, <1>15
  <2>2. IsSeq(t.slots) /\ IsSeq(t.free) /\ SlotsOK(t.slots, t.free, DOMAIN r)
    BY <1>7 DEF Table
  <2>3. DOMAIN r \subseteq 1 .. born'
    BY <1>5, <1>8
  <2> QED BY <1>5, <1>8, <1>10, <2>1, <2>2, <2>3 DEF SourceInv
<1>17. PICK F : F = Elements(ring) \cup Elements(session.frames)
  OBVIOUS
<1>18. FramesOK(F, frame, writer, lost, World(slots, reg)) /\ Ascending(ring) /\ Len(ring) <= RingSize
  BY <1>6, <1>17 DEF StreamInv
<1>19. \A y : Covered(y, writer.dirty, writer.gone, World(slots, reg)) => Covered(y, o.dirty, o.gone, world)
  BY <1>2, <1>4, <1>6, <1>7, CoveredStep
<1>20. CASE ~attached /\ writer' = writer /\ ring' = ring /\ lost' = TRUE
  <2>1. FramesOK(F, frame + 1, writer, TRUE, world)
    <3>1. PICK now, shut : now = World(slots, reg) /\ shut = TRUE
      OBVIOUS
    <3>2. FramesOK(F, frame, writer, lost, now) /\ frame <= frame + 1
      BY <1>9, <1>18, <3>1
    <3> QED BY <1>9, <1>10, <3>1, <3>2, FramesKept, ZenonT(60)
  <2> QED BY <1>2, <1>4, <1>5, <1>16, <1>17, <1>18, <1>20, <2>1 DEF StreamInv
<1>21. FramesOK(F, frame, o, lost, world) /\ FramesOK(F, frame + 1, o, lost, world)
  <2>1. PICK now : now = World(slots, reg)
    OBVIOUS
  <2>2. ~lost => \A y : Covered(y, writer.dirty, writer.gone, now) => Covered(y, o.dirty, o.gone, world)
    BY <1>19, <2>1
  <2>3. FramesOK(F, frame, writer, lost, now)
    BY <1>18, <2>1
  <2>4. frame <= frame /\ frame <= frame + 1
    BY <1>9
  <2> QED BY <1>9, <1>10, <1>12, <2>2, <2>3, <2>4, FramesKept
<1>22. CASE writer' = o /\ ring' = ring /\ lost' = lost
  BY <1>2, <1>4, <1>5, <1>16, <1>17, <1>18, <1>21, <1>22 DEF StreamInv
<1>23. CASE /\ writer' = Emptied(o, frame + 1, full) /\ ring' = Pushed(x)
            /\ lost' = (lost /\ ~full)
  <2>1. /\ IsFrame(x) /\ x.n = o.n + 1 /\ x.frame = frame + 1 /\ x.world = world
        /\ x.sound => x.full \/ ~lost
        /\ ~x.full => x.destroys = Destroys(o, world) /\ x.updates = o.dirty \cap DOMAIN world
    <3>1. PICK sl, b, f : sl = t.slots /\ b = born' /\ f = frame + 1
      OBVIOUS
    <3>2. Len(sl) \in Nat
      BY <1>7, <3>1 DEF Table, IsSeq
    <3>3. f \in Nat /\ CuesOK(o.cues, sl, f, b) /\ world = World(sl, r) /\ x = ReplayFrame(f, o, world, full)
      BY <1>4, <1>10, <1>11, <3>1
    <3>4. WrittenAs(x, f, o, world)
      BY <1>12, <3>2, <3>3, ReplayFrameIsFrame
    <3> QED BY <3>1, <3>4 DEF WrittenAs
  <2>2. lost' \in BOOLEAN /\ o.n \in Nat
    BY <1>12, <1>23 DEF IsWriter
  <2>3. FramesOK(F \cup {x}, frame + 1, v, lost', world)
    BY <1>9, <1>14, <1>21, <2>1, <2>2, FramesAdded
  <2>4. \A i \in 1 .. Len(ring) : ring[i].frame < x.frame
    <3> SUFFICES ASSUME NEW i \in 1 .. Len(ring) PROVE ring[i].frame < x.frame
      OBVIOUS
    <3>1. ring[i] \in F
      BY <1>17 DEF Elements
    <3>2. ring[i].frame \in Nat /\ ring[i].frame <= frame
      BY <1>18, <3>1 DEF FramesOK, IsFrame
    <3> QED BY <1>9, <2>1, <3>2
  <2>5. Ascending(ring') /\ Len(ring') <= RingSize /\ Elements(ring') \subseteq Elements(ring) \cup {x}
    BY <1>18, <1>23, <2>4, PushedRing
  <2>6. PICK G : G = Elements(ring') \cup Elements(session.frames)
    OBVIOUS
  <2>7. G \subseteq F \cup {x}
    BY <1>17, <2>5, <2>6
  <2>8. FramesOK(G, frame + 1, v, lost', world)
    BY <2>3, <2>7 DEF FramesOK
  <2>9. writer' = v /\ world = World(slots', reg') /\ session'.frames = session.frames /\ Elements(ring)' = Elements(ring')
    BY <1>4, <1>5, <1>13, <1>23 DEF Elements
  <2>10. FramesOK(Elements(ring') \cup Elements(session'.frames), frame', writer', lost', World(slots', reg'))
    BY <1>5, <2>6, <2>8, <2>9
  <2> QED BY <1>16, <2>5, <2>10 DEF StreamInv
<1> QED BY <1>5, <1>20, <1>22, <1>23

\* A client's update finds an entity gone.
LEMMA FlushClientInv ==
  ASSUME ReplayInv, NEW s \in Slots, FlushClient(s)
  PROVE  SourceInv' /\ StreamInv'
<1>0. SourceInv /\ StreamInv
  BY DEF ReplayInv
<1>1. PICK e, r, sl, fr : e = slots[s] /\ r = reg' /\ sl = slots' /\ fr = free'
  OBVIOUS
<1>2. /\ e # Nobody /\ r = [x \in DOMAIN reg \ {e} |-> reg[x]]
      /\ sl = [slots EXCEPT ![s] = Nobody] /\ fr = Append(free, s) /\ lost' = TRUE
      /\ frame' = frame /\ born' = born /\ writer' = writer /\ ring' = ring /\ session' = session
  BY <1>1 DEF FlushClient, player
<1>3. PICK n \in Nat, m \in Nat : n = Len(slots) /\ m = Len(free)
  BY <1>0 DEF SourceInv, IsSeq
<1>4. /\ IsSeq(slots) /\ IsSeq(free) /\ SlotsOK(slots, free, DOMAIN reg) /\ s \in 1 .. n
      /\ slots = [i \in 1 .. n |-> slots[i]]
  BY <1>0, <1>3 DEF SourceInv, Slots, IsSeq
<1>5. sl = [i \in 1 .. n |-> IF i = s THEN Nobody ELSE slots[i]]
  BY <1>2, <1>4
<1>6. IsSeq(sl) /\ Len(sl) = n /\ \A i \in 1 .. n : sl[i] = IF i = s THEN Nobody ELSE slots[i]
  <2>1. sl = [i \in 1 .. n |-> sl[i]] /\ \A i \in 1 .. n : sl[i] = IF i = s THEN Nobody ELSE slots[i]
    BY <1>5
  <2> QED BY <2>1, FunctionIsSeq
<1>7. /\ IsSeq(fr) /\ Len(fr) = m + 1 /\ fr[m + 1] = s /\ \A i \in 1 .. m : fr[i] = free[i]
  BY <1>2, <1>3, <1>4, AppendIsSeq
<1>8. DOMAIN r = DOMAIN reg \ {e} /\ \A x \in DOMAIN r : r[x] = reg[x]
  BY <1>2
<1>9. SlotsOK(sl, fr, DOMAIN r)
  <2>0. \A i \in 1 .. n : i # s => slots[i] # e
    BY <1>1, <1>2, <1>3, <1>4 DEF SlotsOK
  <2>1. \A i \in 1 .. Len(sl) : sl[i] = Nobody \/ sl[i] \in DOMAIN r
    BY <1>3, <1>4, <1>6, <1>8, <2>0 DEF SlotsOK
  <2>2. \A i, j \in 1 .. Len(sl) : sl[i] = sl[j] /\ sl[i] # Nobody => i = j
    BY <1>3, <1>4, <1>6 DEF SlotsOK
  <2>3. \A i \in 1 .. m : free[i] \in 1 .. n /\ slots[free[i]] = Nobody
    BY <1>3, <1>4 DEF SlotsOK
  <2>4. \A i \in 1 .. (m + 1) : i = m + 1 \/ i \in 1 .. m
    OBVIOUS
  <2>5. \A i \in 1 .. Len(fr) : fr[i] \in 1 .. Len(sl) /\ sl[fr[i]] = Nobody
    <3> SUFFICES ASSUME NEW i \in 1 .. (m + 1) PROVE fr[i] \in 1 .. n /\ sl[fr[i]] = Nobody
      BY <1>6, <1>7
    <3>1. CASE i = m + 1
      BY <1>4, <1>6, <1>7, <3>1
    <3>2. CASE i \in 1 .. m
      BY <1>6, <1>7, <2>3, <3>2
    <3> QED BY <2>4, <3>1, <3>2
  <2>6. \A i \in 1 .. m : free[i] # s
    BY <1>1, <1>2, <2>3
  <2>7. \A i, j \in 1 .. Len(fr) : fr[i] = fr[j] => i = j
    <3> SUFFICES ASSUME NEW i \in 1 .. (m + 1), NEW j \in 1 .. (m + 1), fr[i] = fr[j] PROVE i = j
      BY <1>7
    <3>1. CASE i \in 1 .. m /\ j \in 1 .. m
      BY <1>3, <1>4, <1>7, <3>1 DEF SlotsOK
    <3>2. CASE i = m + 1 /\ j = m + 1
      BY <3>2
    <3>3. CASE i = m + 1 /\ j \in 1 .. m
      BY <1>7, <2>6, <3>3
    <3>4. CASE j = m + 1 /\ i \in 1 .. m
      BY <1>7, <2>6, <3>4
    <3> QED BY <2>4, <3>1, <3>2, <3>3, <3>4
  <2> QED BY <2>1, <2>2, <2>5, <2>7 DEF SlotsOK
<1>10. CuesOK(writer.cues, sl, frame, born)
  <2>1. CuesOK(writer.cues, slots, frame, born) /\ born \in Nat
    BY <1>0 DEF SourceInv
  <2>2. \A q \in 1 .. Len(writer.cues) : writer.cues[q].cue.by \in 1 .. born
    BY <2>1 DEF CuesOK
  <2>3. \A q \in 1 .. Len(writer.cues) : writer.cues[q].cue.by # Nobody
    BY <2>1, <2>2 DEF Nobody
  <2>4. \A q \in 1 .. Len(writer.cues) : \A i \in 1 .. Len(sl) :
          sl[i] = writer.cues[q].cue.by => writer.cues[q].owner = i
    BY <1>3, <1>6, <2>1, <2>3 DEF CuesOK
  <2> QED BY <2>1, <2>4 DEF CuesOK
<1>11. SourceInv'
  <2>1. /\ frame \in Nat /\ born \in Nat /\ DOMAIN r \subseteq 1 .. born /\ IsWriter(writer)
        /\ RegOK(r)
    BY <1>0, <1>8 DEF SourceInv, RegOK
  <2> QED BY <1>1, <1>2, <1>6, <1>7, <1>9, <1>10, <2>1 DEF SourceInv
<1>12. PICK F, now, then : F = Elements(ring) \cup Elements(session.frames) /\ now = World(slots, reg) /\ then = World(sl, r)
  OBVIOUS
<1>13. FramesOK(F, frame, writer, lost, now) /\ Ascending(ring) /\ Len(ring) <= RingSize
  BY <1>0, <1>12 DEF StreamInv
<1>14. FramesOK(F, frame, writer, TRUE, then)
  <2>1. frame \in Nat /\ frame <= frame /\ lost \in BOOLEAN
    BY <1>0 DEF SourceInv
  <2> QED BY <1>13, <2>1, FramesKept
<1> QED BY <1>1, <1>2, <1>11, <1>12, <1>13, <1>14 DEF StreamInv

--------------------------------------------------------------------------------
(* The steps of a session                                                       *)

\* The replay server only notes the archetypes.
LEMMA RediscoveredEntities ==
  ASSUME NEW l, LocalOK(l), NEW d, d = Rediscovered(l)
  PROVE  LocalOK(d) /\ \A w : Matches(l, w) => Matches(d, w)
<1>1. DOMAIN d = DOMAIN l /\ d = [s \in DOMAIN d |-> d[s]]
      /\ \A s \in DOMAIN l : d[s] = [l[s] EXCEPT !.known = l[s].arch]
  BY DEF Rediscovered
<1>2. \A s \in DOMAIN l : /\ IsEntity(d[s]) /\ d[s].of = l[s].of /\ d[s].arch = l[s].arch
                          /\ d[s].mixed = l[s].mixed /\ d[s].val = l[s].val
  <2> SUFFICES ASSUME NEW s \in DOMAIN l
               PROVE  /\ IsEntity(d[s]) /\ d[s].of = l[s].of /\ d[s].arch = l[s].arch
                      /\ d[s].mixed = l[s].mixed /\ d[s].val = l[s].val
    OBVIOUS
  <2>1. PICK x, y : x = l[s] /\ y = d[s]
    OBVIOUS
  <2>2. x = [of |-> x.of, known |-> x.known, arch |-> x.arch, mixed |-> x.mixed, val |-> x.val]
    BY <2>1 DEF LocalOK, IsEntity
  <2>3. y = [x EXCEPT !.known = x.arch]
    BY <1>1, <2>1
  <2>4. y = [of |-> x.of, known |-> x.arch, arch |-> x.arch, mixed |-> x.mixed, val |-> x.val]
    BY <2>2, <2>3
  <2> QED BY <2>1, <2>4 DEF IsEntity
<1>3. LocalOK(d)
  BY <1>1, <1>2 DEF LocalOK
<1>4. \A w : Matches(l, w) => Matches(d, w)
  BY <1>1, <1>2 DEF Matches
<1> QED BY <1>3, <1>4

\* Frames taken from the ring.
TakenFrom(c, fs, S) ==
  /\ Ascending(c)
  /\ \A k \in 1 .. Len(c) : \E i \in S : c[k] = fs[i]
  /\ \A i \in S : (\A j \in S : i <= j) => Len(c) > 0 /\ c[1] = fs[i]

\* The chosen frames are in order, and the first chosen place is the first of them.
LEMMA ChosenFrames ==
  ASSUME NEW fs, Ascending(fs), NEW S, S \subseteq 1 .. Len(fs), NEW c, c = Chosen(fs, S)
  PROVE  TakenFrom(c, fs, S)
<1>1. IsSeq(fs)
  BY DEF Ascending
<1>2. ChosenFrom(c, fs, S)
  BY <1>1, ChosenPlaces
<1>3. IsSeq(c) /\ Len(c) \in Nat
  BY <1>2 DEF ChosenFrom, IsSeq
<1>4. PICK at \in [1 .. Len(c) -> S] :
        /\ \A k \in 1 .. Len(c) : c[k] = fs[at[k]]
        /\ \A j, k \in 1 .. Len(c) : j < k => at[j] < at[k]
        /\ \A i \in S : \E k \in 1 .. Len(c) : at[k] = i
  BY <1>2 DEF ChosenFrom
<1>5. \A k \in 1 .. Len(c) : at[k] \in S /\ at[k] \in 1 .. Len(fs)
  BY <1>4
<1>6. Ascending(c)
  BY <1>3, <1>4, <1>5, SMTT(30) DEF Ascending
<1>7. ASSUME NEW i \in S, \A j \in S : i <= j PROVE Len(c) > 0 /\ c[1] = fs[i]
  <2>1. PICK k \in 1 .. Len(c) : at[k] = i
    BY <1>4
  <2>2. 1 \in 1 .. Len(c) /\ Len(c) > 0
    BY <1>3
  <2>3. at[1] \in S /\ at[1] \in Nat /\ i \in Nat /\ i <= at[1]
    BY <1>5, <1>7, <2>2
  <2>4. ~(1 < k)
    BY <1>4, <2>1, <2>2, <2>3
  <2>5. k = 1
    BY <1>3, <2>4
  <2> QED BY <1>4, <2>1, <2>2, <2>5
<1> QED BY <1>4, <1>5, <1>6, <1>7 DEF TakenFrom

\* Ascending frames are a stream.
LEMMA FramesAreStream ==
  ASSUME NEW F, NEW f, NEW w, NEW open, NEW now, FramesOK(F, f, w, open, now),
         NEW fs, Ascending(fs), \A i \in 1 .. Len(fs) : fs[i] \in F
  PROVE  Stream(fs)
<1>1. \A i, j \in 1 .. Len(fs) : i < j => fs[i].n < fs[j].n
  BY DEF Ascending, FramesOK
<1>2. \A i \in 1 .. Len(fs) : IsFrame(fs[i])
  BY DEF FramesOK
<1>3. \A i, j \in 1 .. Len(fs) :
        (fs[j].n = fs[i].n + 1 /\ fs[j].sound /\ ~fs[j].full) => Follows(fs[i].world, fs[j])
  BY DEF FramesOK
<1> QED BY <1>1, <1>2, <1>3 DEF Ascending, Stream

\* A session begins with the full frame it starts from.
LEMMA BeginSessionInv ==
  ASSUME ReplayInv, NEW focus \in 1 .. MaxFrame, BeginSession(focus)
  PROVE  SessionInv' /\ StreamInv'
<1> DEFINE St == StartFrames(focus)
<1>1. PICK start : start = CHOOSE i \in St : \A j \in St : j <= i
  OBVIOUS
<1>2. PICK end : end = focus + TailFrames
  OBVIOUS
<1> DEFINE S == {i \in start .. Len(ring) : ring[i].frame <= end}
<1>3. PICK fs, e : fs = Chosen(ring, S) /\ e = [s \in {} |-> None]
  OBVIOUS
<1>4. PICK first : first = Applied(e, fs[1])
  OBVIOUS
<1>5. /\ St # {}
      /\ session' = [active |-> TRUE, threw |-> FALSE, frames |-> fs, next |-> 1,
                     playback |-> fs[1].frame, end |-> end]
      /\ local' = Rediscovered(first)
      /\ heard' = <<>>
      /\ frame' = frame /\ reg' = reg /\ slots' = slots /\ writer' = writer /\ ring' = ring /\ lost' = lost
  BY <1>1, <1>2, <1>3, <1>4, Zenon DEF BeginSession, FirstCues, source
<1>6. SourceInv /\ StreamInv
  BY DEF ReplayInv
<1>7. Ascending(ring) /\ Len(ring) \in Nat
  BY <1>6 DEF StreamInv, Ascending, IsSeq
<1>8. focus \in Nat /\ focus >= 1 /\ TailFrames \in Nat /\ PrerollFrames \in Nat
  BY ReplayAssumption
<1>9. PICK F : F = Elements(ring) \cup Elements(session.frames)
  OBVIOUS
<1>10. FramesOK(F, frame, writer, lost, World(slots, reg))
  BY <1>6, <1>9 DEF StreamInv
<1>11. \A i \in 1 .. Len(ring) : ring[i].frame \in Nat
  BY <1>9, <1>10 DEF FramesOK, IsFrame, Elements
<1>12. \A i \in St : i \in 1 .. Len(ring) /\ ring[i].full /\ ring[i].frame <= end
  <2>1. PICK target : target = IF focus > PrerollFrames THEN focus - PrerollFrames ELSE 1
    OBVIOUS
  <2>2. target \in Nat /\ target <= end /\ end \in Nat
    BY <1>2, <1>8, <2>1
  <2>3. \A i \in St : i \in 1 .. Len(ring) /\ ring[i].full /\ ring[i].frame <= target
    BY <2>1 DEF StartFrames
  <2> QED BY <1>11, <2>2, <2>3
<1>13. start \in St
  <2>1. St \subseteq 0 .. Len(ring)
    BY <1>7, <1>12
  <2> HIDE DEF St
  <2>2. PICK m \in St : \A j \in St : j <= m
    BY <1>5, <1>7, <2>1, GreatestNumber
  <2> QED BY <1>1, <2>2
<1>14. start \in S /\ (\A j \in S : start <= j) /\ S \subseteq 1 .. Len(ring) /\ ring[start].full
  BY <1>7, <1>12, <1>13
<1> HIDE DEF S, St
<1>15. /\ Ascending(fs) /\ Len(fs) > 0 /\ fs[1] = ring[start]
       /\ \A k \in 1 .. Len(fs) : \E i \in S : fs[k] = ring[i]
  <2>1. TakenFrom(fs, ring, S)
    BY <1>3, <1>7, <1>14, ChosenFrames
  <2> QED BY <1>14, <2>1 DEF TakenFrom
<1>16. IsSeq(fs) /\ Len(fs) \in Nat /\ 1 \in 1 .. Len(fs) /\ fs[1].full /\ fs # <<>>
  <2>1. IsSeq(fs) /\ Len(fs) \in Nat
    BY <1>15 DEF Ascending, IsSeq
  <2>2. 1 \in 1 .. Len(fs)
    BY <1>15, <2>1
  <2> QED BY <1>14, <1>15, <2>1, <2>2, EmptyIsSeq
<1>17. \A k \in 1 .. Len(fs) : fs[k] \in Elements(ring) /\ fs[k] \in F
  BY <1>9, <1>14, <1>15 DEF Elements
<1>18. Stream(fs)
  BY <1>10, <1>15, <1>17, FramesAreStream
<1>19. LocalOK(e)
  BY <1>3 DEF LocalOK
<1>20. LocalOK(first) /\ (UnbrokenIn(fs, 1) => Matches(first, fs[1].world))
  <2>1. ~(1 > 1)
    OBVIOUS
  <2> QED BY <1>4, <1>16, <1>18, <1>19, <2>1, AppliedMatches
<1>21. LocalOK(local') /\ (UnbrokenIn(fs, 1) => Matches(local', fs[1].world))
  BY <1>5, <1>20, RediscoveredEntities
<1>22. HeardOK(<<>>, fs, 0)
  BY EmptyIsSeq DEF HeardOK
<1>23. SessionInv'
  <2>1. session'.frames = fs /\ session'.next = 1 /\ IsSession(session') /\ LastApplied' = 1
    BY <1>5 DEF IsSession, LastApplied
  <2>2. 1 - 1 = 0 /\ 1 \in 1 .. Len(fs) + 1
    BY <1>16
  <2> QED BY <1>5, <1>15, <1>16, <1>21, <1>22, <2>1, <2>2 DEF SessionInv
<1>24. FramesOK(Elements(ring) \cup Elements(fs), frame, writer, lost, World(slots, reg))
  <2>1. Elements(ring) \cup Elements(fs) \subseteq F
    BY <1>9, <1>17 DEF Elements
  <2> QED BY <1>10, <2>1 DEF FramesOK
<1>25. StreamInv'
  <2>1. session'.frames = fs
    BY <1>5
  <2> QED BY <1>5, <1>6, <1>24, <2>1 DEF StreamInv
<1> QED BY <1>23, <1>25

\* No frame is due.
LEMMA PlayedNone ==
  ASSUME NEW fs
  PROVE  Played(fs, 0) = [l |-> local, h |-> heard]
<1> DEFINE a == CHOOSE a : PlayedChain(a, fs, 0)
           Next1(p, i) == FramePlayed(p, fs[session.next + i - 1])
<1>1. PlayedChain(a, fs, 0)
  BY PlayedChainExists
<1>2. Played(fs, 0) = a[0]
  BY Zenon DEF Played, PlayedChain
<1> HIDE DEF a
<1>3. a = [i \in 0 .. 0 |-> IF i = 0 THEN [l |-> local, h |-> heard] ELSE Next1(a[i - 1], i)]
  BY <1>1, Zenon DEF PlayedChain
<1> HIDE DEF Next1
<1> QED BY <1>2, <1>3

\* A sequence that is not empty has a length.
LEMMA NonEmptyHasLength ==
  ASSUME NEW seq, IsSeq(seq), seq # <<>>
  PROVE  Len(seq) \in Nat \ {0}
<1> DEFINE R == {seq[i] : i \in 1 .. Len(seq)}
<1>1. seq \in Seq(R)
  BY SeqOfElements
<1> HIDE DEF R
<1> QED BY <1>1 DEF IsSeq

\* The session's frames with those that came since.
LEMMA AvailableFrames ==
  ASSUME ReplayInv, session.frames # <<>>, NEW gs, gs = Available
  PROVE  /\ Ascending(gs) /\ Len(gs) \in Nat /\ Len(session.frames) <= Len(gs)
         /\ \A i \in 1 .. Len(session.frames) : gs[i] = session.frames[i]
         /\ \A i \in 1 .. Len(gs) : gs[i] \in Elements(ring) \cup Elements(session.frames)
<1>1. PICK fs, k : fs = session.frames /\ k = Len(session.frames)
  OBVIOUS
<1>2. Ascending(fs) /\ Ascending(ring) /\ k \in Nat \ {0} /\ IsSeq(fs) /\ k = Len(fs)
  <2>1. Ascending(fs) /\ Ascending(ring)
    BY <1>1 DEF ReplayInv, SessionInv, StreamInv
  <2>2. IsSeq(fs)
    BY <2>1 DEF Ascending
  <2> QED BY <1>1, <2>1, <2>2, NonEmptyHasLength
<1>3. PICK F : F = Elements(ring) \cup Elements(fs)
  OBVIOUS
<1>4. /\ \A i \in 1 .. k : fs[i] \in F /\ fs[i].frame \in Nat
      /\ \A i \in 1 .. Len(ring) : ring[i] \in F /\ ring[i].frame \in Nat
  <2>1. \A x \in F : IsFrame(x)
    BY <1>1, <1>3 DEF ReplayInv, StreamInv, FramesOK
  <2>2. \A i \in 1 .. k : fs[i] \in F
    BY <1>2, <1>3 DEF Elements
  <2>3. \A i \in 1 .. Len(ring) : ring[i] \in F
    BY <1>3 DEF Elements
  <2> QED BY <2>1, <2>2, <2>3 DEF IsFrame
<1>5. PICK last : last = fs[k].frame
  OBVIOUS
<1> DEFINE S == {i \in 1 .. Len(ring) : ring[i].frame > last /\ ring[i].frame <= session.end}
<1>6. PICK c : c = Chosen(ring, S)
  OBVIOUS
<1>7. gs = fs \o c
  BY <1>1, <1>5, <1>6 DEF Available
<1>8. S \subseteq 1 .. Len(ring)
  OBVIOUS
<1>9. TakenFrom(c, ring, S)
  <2> HIDE DEF S
  <2> QED BY <1>2, <1>6, <1>8, ChosenFrames
<1>10. Ascending(c) /\ IsSeq(c) /\ \A i \in 1 .. Len(c) : c[i] \in F /\ c[i].frame \in Nat /\ c[i].frame > last
  BY <1>4, <1>9 DEF TakenFrom, Ascending
<1>11. PICK m \in Nat : m = Len(c)
  BY <1>10 DEF IsSeq
<1>12. IsSeq(gs) /\ Len(gs) = k + m /\ (\A i \in 1 .. k : gs[i] = fs[i]) /\ \A i \in 1 .. m : gs[k + i] = c[i]
  <2>1. Joined(gs, fs, c)
    BY <1>2, <1>7, <1>10, ConcatIsSeq
  <2> QED BY <1>2, <1>11, <2>1 DEF Joined
<1>13. \A i \in 1 .. (k + m) : i \in 1 .. k \/ \E j \in 1 .. m : i = k + j
  <2> SUFFICES ASSUME NEW i \in 1 .. (k + m), i \notin 1 .. k PROVE \E j \in 1 .. m : i = k + j
    OBVIOUS
  <2>1. i - k \in 1 .. m /\ i = k + (i - k)
    BY <1>2
  <2> QED BY <2>1
<1>14. \A i \in 1 .. k : fs[i].frame <= last
  <2> SUFFICES ASSUME NEW i \in 1 .. k PROVE fs[i].frame <= last
    OBVIOUS
  <2>1. CASE i = k
    BY <1>4, <1>5, <2>1
  <2>2. CASE i < k
    <3>1. k \in 1 .. k
      BY <1>2
    <3>2. fs[i].frame < fs[k].frame
      BY <1>2, <2>2, <3>1 DEF Ascending
    <3> QED BY <1>4, <1>5, <3>1, <3>2
  <2> QED BY <1>2, <2>1, <2>2
<1>15. \A i, j \in 1 .. Len(gs) : i < j => gs[i].frame < gs[j].frame
  <2> SUFFICES ASSUME NEW i \in 1 .. (k + m), NEW j \in 1 .. (k + m), i < j PROVE gs[i].frame < gs[j].frame
    BY <1>12
  <2>1. CASE i \in 1 .. k /\ j \in 1 .. k
    BY <1>2, <1>12, <2>1 DEF Ascending
  <2>2. CASE i \in 1 .. k /\ \E h \in 1 .. m : j = k + h
    <3>1. PICK h \in 1 .. m : j = k + h
      BY <2>2
    <3>2. gs[j] = c[h] /\ c[h].frame > last /\ c[h].frame \in Nat /\ gs[i] = fs[i]
      BY <1>10, <1>11, <1>12, <2>2, <3>1
    <3>3. k \in 1 .. k
      BY <1>2
    <3>4. last \in Nat /\ fs[i].frame \in Nat
      BY <1>4, <1>5, <2>2, <3>3
    <3>5. fs[i].frame <= last
      BY <1>14, <2>2
    <3> QED BY <3>2, <3>4, <3>5
  <2>3. CASE (\E h \in 1 .. m : i = k + h) /\ \E h \in 1 .. m : j = k + h
    <3>1. PICK h \in 1 .. m : i = k + h
      BY <2>3
    <3>2. PICK g \in 1 .. m : j = k + g
      BY <2>3
    <3>3. h < g
      BY <1>2, <3>1, <3>2
    <3> QED BY <1>10, <1>11, <1>12, <3>1, <3>2, <3>3 DEF Ascending
  <2>4. CASE (\E h \in 1 .. m : i = k + h) /\ j \in 1 .. k
    BY <1>2, <2>4
  <2> QED BY <1>13, <2>1, <2>2, <2>3, <2>4
<1>16. \A i \in 1 .. Len(gs) : gs[i] \in F
  <2> SUFFICES ASSUME NEW i \in 1 .. (k + m) PROVE gs[i] \in F
    BY <1>12
  <2>1. CASE i \in 1 .. k
    BY <1>4, <1>12, <2>1
  <2>2. CASE \E j \in 1 .. m : i = k + j
    BY <1>10, <1>11, <1>12, <2>2
  <2> QED BY <1>13, <2>1, <2>2
<1>17. Ascending(gs)
  BY <1>12, <1>15 DEF Ascending
<1>18. Len(gs) \in Nat /\ k <= Len(gs)
  BY <1>2, <1>11, <1>12
<1> QED BY <1>1, <1>3, <1>12, <1>16, <1>17, <1>18

\* A tick of a session plays what is due.
LEMMA TickSessionInv ==
  ASSUME ReplayInv, TickSession
  PROVE  SessionInv' /\ StreamInv'
<1>1. PICK fs, k, gs, nx : fs = session.frames /\ k = Len(fs) /\ gs = Available /\ nx = session.next
  OBVIOUS
<1>2. PICK n, last : n = DueCount(gs) /\ last = Played(gs, n)
  OBVIOUS
<1>3. /\ session.active
      /\ \/ /\ session' = [session EXCEPT !.active = FALSE, !.frames = gs]
            /\ local' = local /\ heard' = heard
         \/ /\ session' = [session EXCEPT !.frames = gs, !.next = @ + n,
                             !.playback = @ + (IF Throws(last.l) THEN 0 ELSE 1),
                             !.active = ~Throws(last.l), !.threw = Throws(last.l)]
            /\ local' = Rediscovered(last.l) /\ heard' = last.h
      /\ frame' = frame /\ reg' = reg /\ slots' = slots /\ writer' = writer /\ ring' = ring /\ lost' = lost
  BY <1>1, <1>2, Zenon DEF TickSession, source
<1>4. SourceInv /\ StreamInv /\ SessionInv
  BY DEF ReplayInv
<1>5. fs # <<>>
  BY <1>1, <1>3, <1>4 DEF SessionInv
<1>6. /\ Ascending(gs) /\ Len(gs) \in Nat /\ k <= Len(gs)
      /\ \A i \in 1 .. k : gs[i] = fs[i]
      /\ \A i \in 1 .. Len(gs) : gs[i] \in Elements(ring) \cup Elements(fs)
  BY <1>1, <1>5, AvailableFrames
<1>7. k \in Nat \ {0} /\ IsSeq(fs)
  BY <1>1, <1>4, <1>5, NonEmptyHasLength DEF SessionInv, Ascending
<1>8. /\ fs[1].full /\ nx \in 1 .. k + 1 /\ LocalOK(local) /\ HeardOK(heard, fs, nx - 1)
      /\ UnbrokenIn(fs, LastApplied) => Matches(local, fs[LastApplied].world)
  BY <1>1, <1>4, <1>5 DEF SessionInv
<1>9. LastApplied = IF nx = 1 THEN 1 ELSE nx - 1
  BY <1>1 DEF LastApplied
<1>10. FramesOK(Elements(ring) \cup Elements(fs), frame, writer, lost, World(slots, reg))
  BY <1>1, <1>4 DEF StreamInv
<1>11. Stream(gs)
  BY <1>6, <1>10, FramesAreStream
<1>12. \A i \in 1 .. k : UnbrokenIn(gs, i) <=> UnbrokenIn(fs, i)
  <2>1. k \in 0 .. k /\ k \in Nat /\ k = Len(fs)
    BY <1>1, <1>7
  <2> QED BY <1>1, <1>6, <2>1, LongerFrames
<1>13. HeardOK(heard, gs, nx - 1)
  <2>1. nx - 1 \in 0 .. k
    BY <1>7, <1>8
  <2> QED BY <1>1, <1>6, <1>7, <1>8, <2>1, LongerFrames
<1>14. PICK la \in 1 .. k : la = LastApplied
  BY <1>7, <1>8, <1>9
<1>15. UnbrokenIn(gs, la) => Matches(local, gs[la].world)
  BY <1>6, <1>8, <1>12, <1>14
<1>16. gs[1].full /\ 1 \in 1 .. Len(gs) /\ gs # <<>>
  <2>1. 1 \in 1 .. k /\ 1 \in 1 .. Len(gs)
    BY <1>6, <1>7
  <2>2. Len(gs) # 0
    BY <1>6, <1>7
  <2> QED BY <1>6, <1>8, <2>1, <2>2, EmptyIsSeq
<1>17. session = [active |-> session.active, threw |-> session.threw, frames |-> fs, next |-> nx,
                  playback |-> session.playback, end |-> session.end]
  BY <1>1, <1>4 DEF SessionInv, IsSession
<1>18. FramesOK(Elements(ring) \cup Elements(gs), frame, writer, lost, World(slots, reg))
  <2>1. Elements(ring) \cup Elements(gs) \subseteq Elements(ring) \cup Elements(fs)
    BY <1>6 DEF Elements
  <2> QED BY <1>10, <2>1 DEF FramesOK
<1>19. session'.frames = gs /\ IsSession(session')
  <2>1. PICK p, a, b, no, nn : /\ p = session.playback + (IF Throws(last.l) THEN 0 ELSE 1)
                               /\ a = ~Throws(last.l) /\ b = Throws(last.l) /\ no = FALSE
                               /\ nn = nx + n
    OBVIOUS
  <2>2. PICK ac, th, pb, en : session = [active |-> ac, threw |-> th, frames |-> fs, next |-> nx,
                                         playback |-> pb, end |-> en]
    BY <1>17
  <2>3. CASE session' = [session EXCEPT !.active = no, !.frames = gs]
    <3>1. session' = [active |-> no, threw |-> th, frames |-> gs, next |-> nx, playback |-> pb, end |-> en]
      BY <2>2, <2>3
    <3> QED BY <3>1 DEF IsSession
  <2>4. CASE session' = [session EXCEPT !.frames = gs, !.next = nn, !.playback = p, !.active = a, !.threw = b]
    <3>1. session' = [active |-> a, threw |-> b, frames |-> gs, next |-> nn, playback |-> p, end |-> en]
      BY <2>2, <2>4
    <3> QED BY <3>1 DEF IsSession
  <2>5. \/ session' = [session EXCEPT !.active = no, !.frames = gs]
        \/ session' = [session EXCEPT !.frames = gs, !.next = nn, !.playback = p, !.active = a, !.threw = b]
    BY <1>1, <1>3, <2>1, Zenon
  <2> QED BY <2>3, <2>4, <2>5
<1>20. StreamInv'
  BY <1>3, <1>4, <1>18, <1>19 DEF StreamInv
<1>21. CASE /\ session' = [session EXCEPT !.active = FALSE, !.frames = gs]
            /\ local' = local /\ heard' = heard
  <2>1. session'.next = nx /\ LastApplied' = la
    <3>1. session'.next = nx
      BY <1>17, <1>21
    <3> QED BY <1>9, <1>14, <3>1 DEF LastApplied
  <2>2. nx \in 1 .. Len(gs) + 1
    BY <1>6, <1>7, <1>8
  <2>3. SessionInv'
    BY <1>6, <1>8, <1>13, <1>15, <1>16, <1>19, <1>21, <2>1, <2>2 DEF SessionInv
  <2> QED BY <1>20, <2>3
<1>22. CASE /\ session' = [session EXCEPT !.frames = gs, !.next = @ + n,
                             !.playback = @ + (IF Throws(last.l) THEN 0 ELSE 1),
                             !.active = ~Throws(last.l), !.threw = Throws(last.l)]
            /\ local' = Rediscovered(last.l) /\ heard' = last.h
  <2>1. session'.next = nx + n
    BY <1>17, <1>22
  <2>2. n \in Nat /\ nx + n <= Len(gs) + 1
    <3> DEFINE D == {i \in nx .. Len(gs) : \A j \in nx .. i : gs[j].frame <= session.playback}
    <3>1. n = Cardinality(D)
      BY <1>1, <1>2 DEF DueCount
    <3>2. D \in SUBSET (nx .. Len(gs))
      OBVIOUS
    <3> HIDE DEF D
    <3>3. IsFiniteSet(nx .. Len(gs)) /\ Cardinality(nx .. Len(gs)) = IF nx > Len(gs) THEN 0 ELSE Len(gs) - nx + 1
      <4>1. nx \in Int /\ Len(gs) \in Int
        BY <1>6, <1>8
      <4> QED BY <4>1, FS_Interval
    <3>4. IsFiniteSet(D) /\ Cardinality(D) <= Cardinality(nx .. Len(gs))
      BY <3>2, <3>3, FS_Subset
    <3>5. Cardinality(D) \in Nat
      BY <3>4, FS_CardinalityType
    <3>6. nx \in Nat /\ nx <= Len(gs) + 1
      BY <1>6, <1>7, <1>8
    <3> QED BY <1>6, <3>1, <3>3, <3>4, <3>5, <3>6
  <2>3. PlayedAs([l |-> local, h |-> heard], gs, nx - 1)
    <3>1. nx - 1 > 0 /\ UnbrokenIn(gs, nx - 1) => Matches(local, gs[nx - 1].world)
      <4>1. nx - 1 > 0 => la = nx - 1
        BY <1>8, <1>9, <1>14
      <4> QED BY <1>15, <4>1
    <3> QED BY <1>8, <1>13, <3>1 DEF PlayedAs
  <2>4. PlayedAs(last, gs, nx + n - 1)
    <3>1. session.next \in Nat \ {0} /\ session.next + n <= Len(gs) + 1
      BY <1>1, <1>7, <1>8, <2>2
    <3>2. PlayedAs([l |-> local, h |-> heard], gs, session.next - 1)
      BY <1>1, <2>3
    <3> QED BY <1>1, <1>2, <1>11, <1>16, <2>2, <3>1, <3>2, PlayedFrames
  <2>5. LastApplied' = IF nx + n = 1 THEN 1 ELSE nx + n - 1
    <3>1. LastApplied' = IF session'.next = 1 THEN 1 ELSE session'.next - 1
      BY DEF LastApplied
    <3>2. PICK nn : nn = nx + n
      OBVIOUS
    <3>3. session'.next = nn
      BY <2>1, <3>2
    <3>4. LastApplied' = IF nn = 1 THEN 1 ELSE nn - 1
      BY <3>1, <3>3
    <3>5. nn - 1 = nx + n - 1
      BY <1>8, <2>2, <3>2
    <3> QED BY <3>2, <3>4, <3>5
  <2>6. PICK lb : lb = IF nx + n = 1 THEN 1 ELSE nx + n - 1
    OBVIOUS
  <2>7. UnbrokenIn(gs, lb) => Matches(last.l, gs[lb].world)
    <3>1. CASE n = 0 /\ nx = 1
      <4>1. lb = 1 /\ la = 1
        BY <1>9, <1>14, <2>6, <3>1
      <4>2. last.l = local
        BY <1>2, <3>1, PlayedNone
      <4> QED BY <1>15, <4>1, <4>2
    <3>2. CASE ~(n = 0 /\ nx = 1)
      <4>1. lb = nx + n - 1 /\ lb > 0
        BY <1>7, <1>8, <2>2, <2>6, <3>2
      <4> QED BY <2>4, <4>1 DEF PlayedAs
    <3> QED BY <3>1, <3>2
  <2>8. LocalOK(last.l) /\ HeardOK(last.h, gs, nx + n - 1)
    BY <2>4 DEF PlayedAs
  <2>9. LocalOK(local') /\ (UnbrokenIn(gs, lb) => Matches(local', gs[lb].world))
    BY <1>22, <2>7, <2>8, RediscoveredEntities
  <2>10. nx + n \in 1 .. Len(gs) + 1
    BY <1>6, <1>7, <1>8, <2>2
  <2>11. SessionInv'
    <3>1. LastApplied' = lb
      BY <2>5, <2>6
    <3>2. session'.frames # <<>> /\ session'.frames[1].full /\ session'.next \in 1 .. Len(session'.frames) + 1
      BY <1>16, <1>19, <2>1, <2>10
    <3>3. HeardOK(heard', session'.frames, session'.next - 1)
      <4>1. PICK nn : nn = nx + n
        OBVIOUS
      <4>2. session'.next = nn /\ HeardOK(last.h, gs, nn - 1)
        <5>1. nn - 1 = nx + n - 1
          BY <1>8, <2>2, <4>1
        <5> QED BY <2>1, <2>8, <4>1, <5>1
      <4>3. heard' = last.h
        BY <1>22
      <4> QED BY <1>19, <4>2, <4>3
    <3>4. UnbrokenIn(session'.frames, LastApplied') => Matches(local', session'.frames[LastApplied'].world)
      BY <1>19, <2>9, <3>1
    <3> QED BY <1>6, <1>19, <2>9, <3>2, <3>3, <3>4 DEF SessionInv
  <2> QED BY <1>20, <2>11
<1> QED BY <1>3, <1>21, <1>22

\* It holds at the start.
LEMMA ReplayInit == ASSUME Init PROVE ReplayInv
<1>1. IsSeq(<<>>) /\ Len(<<>>) = 0
  BY EmptyIsSeq
<1>2. SlotsOK(<<>>, <<>>, {}) /\ CuesOK(<<>>, <<>>, 0, 0)
  BY <1>1 DEF SlotsOK, CuesOK
<1>3. DOMAIN reg = {} /\ RegOK(reg)
  BY DEF Init, RegOK
<1>4. IsWriter(writer) /\ writer.cues = <<>>
  BY DEF Init, IsWriter
<1>5. SourceInv
  <2>1. DOMAIN reg \subseteq 1 .. born
    BY <1>3
  <2> QED BY <1>1, <1>2, <1>3, <1>4, <2>1 DEF Init, SourceInv
<1>6. session.frames = <<>> /\ session.next = 1 /\ ~session.active /\ IsSession(session)
  BY DEF Init, IsSession
<1>7. Ascending(<<>>) /\ Elements(<<>>) = {}
  BY <1>1 DEF Ascending, Elements
<1>8. StreamInv
  <2>1. Elements(ring) \cup Elements(session.frames) = {}
    BY <1>6, <1>7 DEF Init
  <2>2. Len(ring) <= RingSize
    BY <1>1, ReplayAssumption DEF Init
  <2> QED BY <1>7, <2>1, <2>2 DEF Init, StreamInv, FramesOK
<1>9. SessionInv
  BY <1>6, <1>7 DEF Init, SessionInv
<1> QED BY <1>5, <1>8, <1>9 DEF ReplayInv

\* Every step preserves it.
LEMMA ReplayNext == ASSUME ReplayInv, [Next]_vars PROVE ReplayInv'
<1>1. ASSUME NEW job \in {j \in Jobs : Modest(j)}, NEW attached \in BOOLEAN, SourceTick(job, attached)
      PROVE  ReplayInv'
  <2>1. UNCHANGED player /\ job \in Jobs
    BY <1>1 DEF SourceTick
  <2>2. SourceInv' /\ StreamInv'
    BY <1>1, <2>1, SourceTickInv
  <2>3. SessionInv'
    BY <2>1 DEF ReplayInv, SessionInv, player, LastApplied
  <2> QED BY <2>2, <2>3 DEF ReplayInv
<1>2. ASSUME NEW s \in Slots, FlushClient(s) PROVE ReplayInv'
  <2>1. SourceInv' /\ StreamInv' /\ UNCHANGED player
    BY <1>2, FlushClientInv DEF FlushClient
  <2>2. SessionInv'
    BY <2>1 DEF ReplayInv, SessionInv, player, LastApplied
  <2> QED BY <2>1, <2>2 DEF ReplayInv
<1>3. ASSUME NEW focus \in 1 .. MaxFrame, BeginSession(focus) PROVE ReplayInv'
  <2>1. SessionInv' /\ StreamInv'
    BY <1>3, BeginSessionInv
  <2>2. SourceInv'
    BY <1>3 DEF BeginSession, source, ReplayInv, SourceInv
  <2> QED BY <2>1, <2>2 DEF ReplayInv
<1>4. CASE TickSession
  <2>1. SessionInv' /\ StreamInv'
    BY <1>4, TickSessionInv
  <2>2. SourceInv'
    BY <1>4 DEF TickSession, source, ReplayInv, SourceInv
  <2> QED BY <2>1, <2>2 DEF ReplayInv
<1>5. CASE UNCHANGED vars
  BY <1>5 DEF vars, source, player, ReplayInv, SourceInv, StreamInv, SessionInv, LastApplied
<1> QED BY <1>1, <1>2, <1>3, <1>4, <1>5 DEF Next

\* The invariant says what the properties say.
LEMMA ReplayInvRecorded == ASSUME ReplayInv PROVE ReplayIsRecorded
<1> SUFFICES ASSUME session.frames # <<>>, Unbroken(LastApplied)
             PROVE  LET world == session.frames[LastApplied].world
                    IN  /\ DOMAIN local = DOMAIN world
                        /\ \A s \in DOMAIN local :
                             /\ local[s].arch = world[s].st.arch
                             /\ \A c \in AllComponents :
                                  IF c \in Components[world[s].st.arch]
                                  THEN local[s].val[c] = world[s].st.val[c]
                                  ELSE local[s].val[c] = Absent \/ local[s].mixed
  BY Zenon DEF ReplayIsRecorded
<1>1. UnbrokenIn(session.frames, LastApplied)
  BY DEF Unbroken, UnbrokenIn
<1>2. PICK w : w = session.frames[LastApplied].world
  OBVIOUS
<1>3. LocalOK(local) /\ Matches(local, w)
  BY <1>1, <1>2 DEF ReplayInv, SessionInv
<1>4. DOMAIN local = DOMAIN w
  BY <1>3 DEF Matches
<1>5. ASSUME NEW s \in DOMAIN local
      PROVE  /\ local[s].arch = w[s].st.arch
             /\ \A c \in AllComponents :
                  IF c \in Components[w[s].st.arch]
                  THEN local[s].val[c] = w[s].st.val[c]
                  ELSE local[s].val[c] = Absent \/ local[s].mixed
  BY <1>3, <1>4 DEF LocalOK, Matches
<1> QED BY <1>2, <1>4, <1>5

\* And of the cues.
LEMMA ReplayInvCues == ASSUME ReplayInv PROVE CuesReplayedOnce
<1>1. PICK fs, nx : fs = session.frames /\ nx = session.next
  OBVIOUS
<1>2. \A k : Unbroken(k) <=> UnbrokenIn(fs, k)
  BY <1>1 DEF Unbroken, UnbrokenIn
<1>3. CASE fs = <<>>
  <2>1. Len(heard) = 0 /\ session.next = 1
    BY <1>1, <1>3, EmptyIsSeq DEF ReplayInv, SessionInv
  <2> QED BY <2>1 DEF CuesReplayedOnce
<1>4. CASE fs # <<>>
  <2>1. HeardOK(heard, fs, nx - 1) /\ nx \in 1 .. Len(fs) + 1
    BY <1>1, <1>4 DEF ReplayInv, SessionInv
  <2>2. Stream(fs)
    <3>1. Ascending(fs) /\ \A i \in 1 .. Len(fs) : fs[i] \in Elements(ring) \cup Elements(session.frames)
      BY <1>1 DEF ReplayInv, SessionInv, Elements
    <3>2. FramesOK(Elements(ring) \cup Elements(session.frames), frame, writer, lost, World(slots, reg))
      BY DEF ReplayInv, StreamInv
    <3> QED BY <3>1, <3>2, FramesAreStream
  <2>3. Len(fs) \in Nat /\ \A i \in 1 .. Len(fs) : fs[i].n \in Nat
    BY <2>2 DEF Stream, IsSeq, IsFrame
  <2>4. ASSUME NEW i \in 1 .. Len(heard), NEW j \in 1 .. Len(fs), heard[i].n = fs[j].n, UnbrokenIn(fs, j),
               \E s \in DOMAIN fs[j].world : fs[j].world[s].of = heard[i].cue.by
        PROVE  heard[i].to = heard[i].cue.by
    <3>1. PICK k \in 1 .. nx - 1 : \E q \in 1 .. Len(fs[k].cues) :
            /\ heard[i].n = fs[k].n /\ heard[i].cue = fs[k].cues[q].cue
            /\ CueAt(fs, k, q) => heard[i].to = heard[i].cue.by
      BY <2>1 DEF HeardOK
    <3>2. PICK q \in 1 .. Len(fs[k].cues) :
            /\ heard[i].n = fs[k].n /\ heard[i].cue = fs[k].cues[q].cue
            /\ CueAt(fs, k, q) => heard[i].to = heard[i].cue.by
      BY <3>1
    <3>3. k \in 1 .. Len(fs)
      BY <2>1, <2>3
    <3>4. k = j
      <4>1. ~(fs[k].n < fs[j].n) /\ ~(fs[j].n < fs[k].n)
        BY <2>3, <2>4, <3>2, <3>3
      <4>2. ~(k < j) /\ ~(j < k)
        BY <2>2, <3>3, <4>1 DEF Stream
      <4> QED BY <2>3, <3>3, <4>2
    <3>5. CueAt(fs, k, q)
      BY <2>4, <3>2, <3>4 DEF CueAt
    <3> QED BY <3>2, <3>5
  <2>5. \A i, j \in 1 .. Len(heard) : (heard[i].cue = heard[j].cue /\ heard[i].n = heard[j].n) => i = j
    BY <2>1 DEF HeardOK
  <2>6. ASSUME NEW k \in 1 .. nx - 1, NEW q \in 1 .. Len(fs[k].cues), UnbrokenIn(fs, k),
               \E s \in DOMAIN fs[k].world : fs[k].world[s].of = fs[k].cues[q].cue.by
        PROVE  \E i \in 1 .. Len(heard) : heard[i].cue = fs[k].cues[q].cue
    BY <2>1, <2>6 DEF HeardOK, CueAt
  <2> QED BY <1>1, <1>2, <2>4, <2>5, <2>6 DEF CuesReplayedOnce
<1> QED BY <1>3, <1>4

\* Whatever is destroyed, made or changed between frames, however often the writer is
\* detached and the ring moves on, an unbroken session shows exactly the recorded
\* archetypes and components (write_frame, apply_frame), for every number of entities,
\* every interval and every size of the ring.
THEOREM ReplayAlwaysRecorded == Spec => []ReplayIsRecorded
<1>1. Init => ReplayInv
  BY ReplayInit
<1>2. ReplayInv /\ [Next]_vars => ReplayInv'
  BY ReplayNext
<1>3. ReplayInv => ReplayIsRecorded
  BY ReplayInvRecorded
<1> QED BY <1>1, <1>2, <1>3, PTL DEF Spec

\* Every cue of the frames a session has played is given out once, and at the entity
\* that emitted it if that is in its frame (append_cue_entries, apply_cues).
THEOREM CuesAlwaysReplayedOnce == Spec => []CuesReplayedOnce
<1>1. Init => ReplayInv
  BY ReplayInit
<1>2. ReplayInv /\ [Next]_vars => ReplayInv'
  BY ReplayNext
<1>3. ReplayInv => CuesReplayedOnce
  BY ReplayInvCues
<1> QED BY <1>1, <1>2, <1>3, PTL DEF Spec

================================================================================
