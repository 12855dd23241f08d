----------------------------- MODULE TraceWriter -----------------------------
(* One sink of KTraceDirectoryWriter (tracing.cpp): threads record events into  *)
(* a bounded queue, a writer thread pops them into the file, flush waits until  *)
(* they are on disk and close until the writer has ended. All of them share one *)
(* mutex, the condition variable cv (space for a record, work for the writer)   *)
(* and drained_cv (end of a flush).                                             *)
(*                                                                              *)
(* Every action is one critical section, or one step between two of them. A     *)
(* thread that waits is in asleep until it is notified; notify_one wakes any    *)
(* one of the threads asleep on that variable, and no thread wakes by itself.   *)
(* An event's name records are part of its record.                              *)
EXTENDS Integers, Sequences, FiniteSets

CONSTANTS
  Threads,     \* threads that trace
  Sizes,       \* sizes of their records
  Capacity,    \* queue_capacity_bytes
  Threshold,   \* flush_threshold_bytes
  MaxRecords,  \* bound: records each thread makes
  MaxFlushes,  \* bound: calls of flush of each thread
  Closer       \* the thread that calls close, if it is one of Threads

Writer == "writer"

ASSUME TraceAssumption ==
  /\ Writer \notin Threads
  /\ Sizes \subseteq Nat \ {0}
  /\ {Capacity, Threshold} \subseteq Nat \ {0}
  /\ {MaxRecords, MaxFlushes} \subseteq Nat

VARIABLES
  queue,      \* records that wait for the writer
  flushing,   \* flush_requested
  closing,    \* closing
  pc,         \* what each tracing thread does
  want,       \* size of the record a thread wants to add
  asleep,     \* who sleeps on cv
  drowsy,     \* who sleeps on drained_cv
  wpc,        \* what the writer thread does
  taken,      \* the record the writer took and has not written
  after,      \* flush_after
  file,       \* records written
  durable,    \* how many of them were flushed to disk
  made,       \* records each thread has made
  flushes,    \* flush calls each thread has made
  accepted    \* history: every record that entered the queue

traceVars == <<queue, flushing, closing, pc, want, asleep, drowsy, wpc, taken, after,
          file, durable, made, flushes, accepted>>

Record == [by : Threads, nr : 1..MaxRecords, size : Sizes]

\* The sizes of the records of q, added up.
Bytes(q) ==
  LET sum[i \in 0..Len(q)] == IF i = 0 THEN 0 ELSE sum[i - 1] + q[i].size
  IN  sum[Len(q)]

\* queued_bytes
QueuedBytes == Bytes(queue)

\* May a record of this size enter the queue?
HasSpace(size) ==
  IF size > Capacity THEN queue = <<>> ELSE QueuedBytes + size <= Capacity

NotifyOne(sleepers, rest) ==
  IF sleepers = {} THEN rest = {} ELSE \E t \in sleepers : rest = sleepers \ {t}

-------------------------------------------------------------------------------
(* record                                                                       *)

\* The critical section of record, entered or resumed after a wait.
TryRecord(t, size) ==
  \/ /\ closing
     /\ pc' = [pc EXCEPT ![t] = "idle"]
     /\ want' = [want EXCEPT ![t] = 0]
     /\ UNCHANGED <<queue, flushing, asleep, made, accepted>>
  \/ /\ ~closing /\ HasSpace(size)
     /\ LET r == [by |-> t, nr |-> made[t] + 1, size |-> size]
        IN  /\ queue' = Append(queue, r)
            /\ accepted' = Append(accepted, r)
            /\ flushing' = (flushing \/ QueuedBytes + size >= Threshold)
     /\ made' = [made EXCEPT ![t] = @ + 1]
     /\ pc' = [pc EXCEPT ![t] = "notify"]
     /\ want' = [want EXCEPT ![t] = 0]
     /\ UNCHANGED asleep
  \/ /\ ~closing /\ ~HasSpace(size)
     /\ pc' = [pc EXCEPT ![t] = "space"]
     /\ want' = [want EXCEPT ![t] = size]
     /\ asleep' = asleep \cup {t}
     /\ UNCHANGED <<queue, flushing, made, accepted>>

RecordEnter(t, size) ==
  /\ pc[t] = "idle" /\ made[t] < MaxRecords
  /\ TryRecord(t, size)
  /\ UNCHANGED <<closing, drowsy, wpc, taken, after, file, durable, flushes>>

RecordWake(t) ==
  /\ pc[t] = "space" /\ t \notin asleep
  /\ TryRecord(t, want[t])
  /\ UNCHANGED <<closing, drowsy, wpc, taken, after, file, durable, flushes>>

\* The notification after the unlock.
RecordNotify(t) ==
  /\ pc[t] = "notify"
  /\ pc' = [pc EXCEPT ![t] = "idle"]
  /\ NotifyOne(asleep, asleep')
  /\ UNCHANGED <<queue, flushing, closing, want, drowsy, wpc, taken, after, file,
                 durable, made, flushes, accepted>>

-------------------------------------------------------------------------------
(* flush and close                                                              *)

FlushEnter(t) ==
  /\ pc[t] = "idle" /\ flushes[t] < MaxFlushes
  /\ flushing' = TRUE
  /\ NotifyOne(asleep, asleep')
  /\ pc' = [pc EXCEPT ![t] = "drained"]
  /\ drowsy' = drowsy \cup {t}
  /\ flushes' = [flushes EXCEPT ![t] = @ + 1]
  /\ UNCHANGED <<queue, closing, want, wpc, taken, after, file, durable, made, accepted>>

FlushWake(t) ==
  /\ pc[t] = "drained" /\ t \notin drowsy
  /\ \/ /\ queue = <<>> /\ ~flushing
        /\ pc' = [pc EXCEPT ![t] = "idle"]
        /\ UNCHANGED drowsy
     \/ /\ queue # <<>> \/ flushing
        /\ drowsy' = drowsy \cup {t}
        /\ UNCHANGED pc
  /\ UNCHANGED <<queue, flushing, closing, want, asleep, wpc, taken, after, file,
                 durable, made, flushes, accepted>>

Close(t) ==
  /\ t = Closer /\ pc[t] = "idle"
  /\ closing' = TRUE
  /\ flushing' = TRUE
  /\ asleep' = {}
  /\ pc' = [pc EXCEPT ![t] = "join"]
  /\ UNCHANGED <<queue, want, drowsy, wpc, taken, after, file, durable, made,
                 flushes, accepted>>

Join(t) ==
  /\ pc[t] = "join" /\ wpc = "ended"
  /\ pc' = [pc EXCEPT ![t] = "closed"]
  /\ UNCHANGED <<queue, flushing, closing, want, asleep, drowsy, wpc, taken, after,
                 file, durable, made, flushes, accepted>>

-------------------------------------------------------------------------------
(* run_sink                                                                     *)

\* Seeded fault: only the queue wakes the writer.
HasWorkQueued == queue # <<>>

\* What the writer waits for.
HasWork == closing \/ flushing \/ queue # <<>>

WriterSleep ==
  /\ wpc = "top" /\ Writer \notin asleep /\ ~HasWork
  /\ asleep' = asleep \cup {Writer}
  /\ UNCHANGED <<queue, flushing, closing, pc, want, drowsy, wpc, taken, after, file,
                 durable, made, flushes, accepted>>

\* Seeded fault: a writer that is told to close leaves the queue.
DrainedOrClosing == queue = <<>> \/ closing

\* Is there nothing left to write?
Drained == queue = <<>>

\* The queue is empty: flush what was written, or end.
WriterDrain ==
  /\ wpc = "top" /\ Writer \notin asleep
  /\ HasWork /\ Drained
  /\ wpc' = IF closing THEN "ended" ELSE "top"
  /\ flushing' = (closing /\ flushing)
  /\ durable' = Len(file)
  /\ drowsy' = {}
  /\ UNCHANGED <<queue, closing, pc, want, asleep, taken, after, file, made, flushes,
                 accepted>>

\* Seeded fault: the newest record is taken first.
NextRecordNewest == Len(queue)

\* Which of the queued records is written next.
NextRecord == 1

WriterTake ==
  /\ wpc = "top" /\ Writer \notin asleep
  /\ queue # <<>>
  /\ taken' = <<queue[NextRecord]>>
  /\ queue' = SubSeq(queue, 1, NextRecord - 1) \o SubSeq(queue, NextRecord + 1, Len(queue))
  /\ asleep' = {}
  /\ after' = (flushing /\ queue' = <<>>)
  /\ wpc' = "write"
  /\ UNCHANGED <<flushing, closing, pc, want, drowsy, file, durable, made, flushes,
                 accepted>>

WriterWrite ==
  /\ wpc = "write"
  /\ file' = file \o taken
  /\ taken' = <<>>
  /\ durable' = IF after THEN Len(file') ELSE durable
  /\ wpc' = IF after THEN "reset" ELSE "top"
  /\ after' = FALSE
  /\ UNCHANGED <<queue, flushing, closing, pc, want, asleep, drowsy, made, flushes,
                 accepted>>

\* flush_after: the request is taken back in a critical section of its own.
WriterReset ==
  /\ wpc = "reset"
  /\ flushing' = FALSE
  /\ drowsy' = {}
  /\ wpc' = "top"
  /\ UNCHANGED <<queue, closing, pc, want, asleep, taken, after, file, durable, made,
                 flushes, accepted>>

-------------------------------------------------------------------------------
TraceInit ==
  /\ queue = <<>> /\ flushing = FALSE /\ closing = FALSE
  /\ pc = [t \in Threads |-> "idle"]
  /\ want = [t \in Threads |-> 0]
  /\ asleep = {} /\ drowsy = {}
  /\ wpc = "top" /\ taken = <<>> /\ after = FALSE
  /\ file = <<>> /\ durable = 0
  /\ made = [t \in Threads |-> 0]
  /\ flushes = [t \in Threads |-> 0]
  /\ accepted = <<>>

Resume(t) == RecordWake(t) \/ RecordNotify(t) \/ FlushWake(t) \/ Join(t)
WriterStep == WriterSleep \/ WriterDrain \/ WriterTake \/ WriterWrite \/ WriterReset

TraceNext ==
  \/ \E t \in Threads :
       \/ \E size \in Sizes : RecordEnter(t, size)
       \/ FlushEnter(t)
       \/ Close(t)
       \/ Resume(t)
  \/ WriterStep

TraceSpec == TraceInit /\ [][TraceNext]_traceVars

\* A thread inside a call, and the writer, are scheduled; nobody has to call.
Fairness == WF_traceVars(WriterStep) /\ \A t \in Threads : WF_traceVars(Resume(t))

FairSpec == TraceSpec /\ Fairness

-------------------------------------------------------------------------------
(* Properties                                                                   *)

\* Every variable has the shape the code gives it.
TraceTypeOK ==
  /\ queue \in Seq(Record) /\ file \in Seq(Record) /\ accepted \in Seq(Record)
  /\ taken \in Seq(Record) /\ Len(taken) <= 1
  /\ {flushing, closing, after} \subseteq BOOLEAN
  /\ pc \in [Threads -> {"idle", "space", "notify", "drained", "join", "closed"}]
  /\ want \in [Threads -> Sizes \cup {0}]
  /\ asleep \subseteq Threads \cup {Writer} /\ drowsy \subseteq Threads
  /\ wpc \in {"top", "write", "reset", "ended"}
  /\ durable \in 0..Len(file)
  /\ made \in [Threads -> 0..MaxRecords] /\ flushes \in [Threads -> 0..MaxFlushes]

\* Every record that was accepted is in the file, in the writer's hands or in the
\* queue, once and in the order of acceptance, whatever threads interleave
\* (record, run_sink).
NothingLost == file \o taken \o queue = accepted

\* The queue holds more than its capacity only when one record alone does
\* (record's wait for space, resumed after every wake-up).
QueueBounded == QueuedBytes <= Capacity \/ Len(queue) = 1

\* When close has returned, every record that was accepted is on disk, the ones
\* that were being added while it ran included.
CloseIsDurable == \A t \in Threads : pc[t] = "closed" => file = accepted /\ durable = Len(file)

\* close always returns, and so does every record that waited for space when it
\* was called.
CloseReturns == \A t \in Threads : pc[t] = "join" ~> pc[t] = "closed" /\ \A u \in Threads : pc[u] # "space"

===============================================================================
