------------------------------ MODULE Bandwidth ------------------------------
(* How much is sent to whom: a bandwidth budget that several participants share *)
(* (ReplicationBandwidthBudget, ReplicationBandwidthShare), the update          *)
(* scheduler of each of them, which spends it on the entities that waited the   *)
(* longest for their priority, and the tracker of unacknowledged packets, which *)
(* tells the budget what is in flight.                                          *)
(*                                                                              *)
(* A participant asks for its flush when its server completed a batch of        *)
(* frames; the flushes of all of them run when the last one has asked. Bytes    *)
(* are counted in units; what adjust_target makes of loss and round trip is any *)
(* refill between the two bounds of the rate.                                   *)
EXTENDS Integers, FiniteSets, Selection

CONSTANTS
  Participants,  \* clients that may share the budget
  Weight,        \* Weight[p]: its share
  Urgency,       \* Urgency[p]: its place in the order of a round
  Entities,      \* replicated entities, by slot: 1..n
  Size,          \* Size[e]: bytes of its record
  Priority,      \* Priority[p][e]: what p's decider says of it, 0 to filter it
  Overhead,      \* bytes of header and transport charged for a packet
  Mtu,           \* bytes of records in a packet
  Burst,         \* max_burst_bytes
  Refills,       \* what one tick may add to the budget
  MaxRefusals,   \* max_budget_refusals_per_client_tick
  MaxTracked,    \* max_pending_packet_acks_per_client
  MaxPacketId,   \* largest packet id, after which ids start again at 1
  MaxPriority,   \* where the accumulated priority saturates
  MaxOrphaned    \* bound: bytes left in flight by participants that leave

ASSUME BandwidthAssumption ==
  /\ IsFiniteSet(Participants) /\ IsFiniteSet(Entities) /\ Entities = 1..Cardinality(Entities)
  /\ Weight \in [Participants -> Nat \ {0}] /\ Urgency \in [Participants -> Nat]
  /\ Size \in [Entities -> Nat \ {0}] /\ Priority \in [Participants -> [Entities -> Nat]]
  /\ Refills \subseteq Nat \ {0} /\ Refills # {}
  /\ {Overhead, Mtu, Burst, MaxPriority, MaxOrphaned} \subseteq Nat
  /\ {MaxRefusals, MaxTracked} \subseteq Nat \ {0}
  /\ MaxPacketId \in Nat /\ MaxPacketId >= MaxTracked

VARIABLES
  available,  \* available_bytes_
  inflight,   \* in_flight_bytes_
  members,    \* participants_, in the order they were attached
  waiting,    \* whose request is in pending_requests_
  client,     \* the dirty queue and packet tracker of every participant
  orphaned,   \* history: bytes in flight of participants when they were detached
  beat,       \* history: changes with every round
  round       \* history: what a round had, charged, left, sent and refused, until the next step

budgetVars == <<available, inflight, members, waiting, client, orphaned, beat, round>>

Lesser(a, b) == IF a < b THEN a ELSE b
Minus(a, b) == IF b >= a THEN 0 ELSE a - b

NewClient ==
  [list |-> <<>>, queued |-> {}, acc |-> [e \in Entities |-> 0],
   tracked |-> <<>>, next |-> 1]

Nothing == [p \in Participants |-> {}]
NoRound == [had |-> 0, charged |-> 0, left |-> 0, sent |-> Nothing, refused |-> Nothing]

Books == [available |-> available, inflight |-> inflight, client |-> client]

-------------------------------------------------------------------------------
(* The packet tracker. fr numbers the frames packets were sent at; only their   *)
(* order matters, so that the numbers are kept small.                           *)

\* Seeded fault: a packet that is given up stays in flight.
PacketGoneUncounted(b, bytes) == b

\* packet_lost and packet_acked: the bytes are no longer in flight.
PacketGone(b, bytes) == [b EXCEPT !.inflight = Minus(@, bytes)]

ChargedBytes(packets) == Total([i \in DOMAIN packets |-> packets[i].bytes])

AllGone(b, packets) == PacketGone(b, ChargedBytes(packets))

\* send_packet: the id is taken, a packet that still has it is given up, the new
\* one is tracked and paid for, and the oldest beyond the limit are given up.
SendPacket(b, p, packet, fr) ==
  LET cl   == b.client[p]
      id   == cl.next
      same == {i \in DOMAIN cl.tracked : cl.tracked[i].id = id}
      all  == Append(Chosen(cl.tracked, DOMAIN cl.tracked \ same),
                     [id |-> id, bytes |-> packet.bytes, fr |-> fr,
                      records |-> packet.records, latest |-> packet.records])
      paid == [AllGone(b, Chosen(cl.tracked, same)) EXCEPT
                 !.inflight = @ + packet.bytes, !.available = Minus(@, packet.bytes)]
      drop == 1..Minus(Len(all), MaxTracked)
  IN  [AllGone(paid, Chosen(all, drop)) EXCEPT
         !.client[p].tracked = Chosen(all, DOMAIN all \ drop),
         !.client[p].next = IF id = MaxPacketId THEN 1 ELSE id + 1]

SendPackets(b, p, packets, fr) ==
  LET after[i \in 0..Len(packets)] ==
        IF i = 0 THEN b ELSE SendPacket(after[i - 1], p, packets[i], fr)
  IN  after[Len(packets)]

\* A packet no longer carries the latest state of these entities.
Outdated(packet, changed) == [packet EXCEPT !.latest = @ \ changed]

Renumbered(tracked) ==
  LET frames == {tracked[i].fr : i \in DOMAIN tracked}
  IN  [i \in DOMAIN tracked |->
         [tracked[i] EXCEPT !.fr = Cardinality({f \in frames : f < tracked[i].fr}) + 1]]

NextFr(cl) == Cardinality({cl.tracked[i].fr : i \in DOMAIN cl.tracked}) + 1

-------------------------------------------------------------------------------
(* UpdateScheduler::send_client                                                 *)

\* Seeded fault: an entity that was refused does not gain on the others.
AccumulateNothing(acc, weight) == weight

\* What an entity that waits has accumulated.
Accumulate(acc, weight) == Lesser(acc + weight, MaxPriority)

\* The candidates, those with most accumulated priority first.
Candidates(cl, eligible, acc) ==
  LET some == Chosen(cl.list, {i \in DOMAIN cl.list : cl.list[i] \in eligible})
      Before(i, j) == acc[some[i]] > acc[some[j]] \/ (acc[some[i]] = acc[some[j]] /\ i < j)
      place == [i \in DOMAIN some |-> Cardinality({j \in DOMAIN some : Before(j, i)}) + 1]
  IN  [k \in DOMAIN some |-> some[CHOOSE i \in DOMAIN some : place[i] = k]]

\* The records of a packet that is not yet sent, and what went before.
Open(remaining) ==
  [remaining |-> remaining, bytes |-> 0, records |-> {}, packets |-> <<>>,
   refused |-> {}, stop |-> FALSE]

Closed(o) ==
  IF o.records = {} THEN o
  ELSE [o EXCEPT !.remaining = @ - (Overhead + o.bytes),
                 !.packets = Append(@, [bytes |-> Overhead + o.bytes, records |-> o.records]),
                 !.bytes = 0, !.records = {}]

\* Seeded fault: the packet's overhead is not counted against the budget.
FitsWithoutOverhead(o, e) == o.bytes + Size[e] <= o.remaining

\* Does the open packet with this record fit what is left of the budget?
Fits(o, e) == Overhead + o.bytes + Size[e] <= o.remaining

AddRecord(o, e) ==
  LET full == o.records # {} /\ o.bytes + Size[e] > Mtu
      n    == IF full THEN Closed(o) ELSE o
  IN  IF o.stop THEN o
      ELSE IF n.bytes + Size[e] > Mtu THEN n
      ELSE IF ~Fits(n, e)
      THEN [n EXCEPT !.refused = @ \cup {e},
                     !.stop = Cardinality(n.refused) + 1 >= MaxRefusals]
      ELSE [n EXCEPT !.bytes = @ + Size[e], !.records = @ \cup {e}]

Records(packets) == UNION {packets[i].records : i \in DOMAIN packets}

\* The candidates are tried one after the other.
Tried(open, todo) ==
  LET run[i \in 0..Len(todo)] ==
        IF i = 0 THEN open ELSE AddRecord(run[i - 1], todo[i])
  IN  run[Len(todo)]

\* The books after the flush of p with this limit, what it charged and refused.
Flush(b, p, limit, fr) ==
  LET cl   == b.client[p]
      some == {e \in cl.queued : Priority[p][e] > 0}
      acc  == [e \in Entities |->
                 IF e \in some THEN Accumulate(cl.acc[e], Priority[p][e]) ELSE cl.acc[e]]
      todo == Candidates(cl, some, acc)
      done == Closed(Tried(Open(Lesser(b.available, limit)), todo))
      sent == Records(done.packets)
      aged == [cl EXCEPT
                 !.list = Chosen(@, {i \in DOMAIN @ : @[i] \in cl.queued}),
                 !.acc = [e \in Entities |-> IF e \in sent THEN 0 ELSE acc[e]],
                 !.tracked = [i \in DOMAIN @ |-> IF @[i].fr = fr THEN @[i] ELSE Outdated(@[i], sent)]]
  IN  [books   |-> SendPackets([b EXCEPT !.client[p] = aged], p, done.packets, fr),
       charged |-> ChargedBytes(done.packets),
       sent    |-> sent,
       refused |-> done.refused]

-------------------------------------------------------------------------------
(* ReplicationBandwidthShare::run                                               *)

\* The members, the most urgent first.
Order(ms) ==
  LET Before(i, j) == Urgency[ms[i]] > Urgency[ms[j]]
                        \/ (Urgency[ms[i]] = Urgency[ms[j]] /\ i < j)
      place == [i \in DOMAIN ms |-> Cardinality({j \in DOMAIN ms : Before(j, i)}) + 1]
  IN  [k \in DOMAIN ms |-> ms[CHOOSE i \in DOMAIN ms : place[i] = k]]

\* Every member's part of the bytes, what the division leaves over to the first.
Allowances(order, total) ==
  LET weight == Total([i \in DOMAIN order |-> Weight[order[i]]])
      part   == [i \in DOMAIN order |-> (total * Weight[order[i]]) \div weight]
  IN  [i \in DOMAIN order |-> part[i] + IF i <= total - Total(part) THEN 1 ELSE 0]

\* The flush of one member with its part, after those before it.
FirstFlush(prev, p, part, fr) ==
  LET done == Flush(prev.books, p, part, fr)
  IN  [books    |-> done.books,
       charged  |-> prev.charged + done.charged,
       leftover |-> prev.leftover + Minus(part, done.charged),
       sent     |-> [prev.sent EXCEPT ![p] = done.sent],
       refused  |-> [prev.refused EXCEPT ![p] = done.refused]]

FirstPass(b, order) ==
  LET part == Allowances(order, b.available)
      after[i \in 0..Len(order)] ==
        IF i = 0 THEN [books |-> b, charged |-> 0, leftover |-> 0,
                       sent |-> Nothing, refused |-> Nothing]
        ELSE FirstFlush(after[i - 1], order[i], part[i], NextFr(b.client[order[i]]))
  IN  after[Len(order)]

\* A member that was refused something tries again with what is left over.
SecondFlush(prev, p, again, fr) ==
  LET done == Flush(prev.books, p, prev.leftover, fr)
  IN  IF prev.leftover = 0 \/ ~again THEN prev
      ELSE [books    |-> done.books,
            charged  |-> prev.charged + done.charged,
            leftover |-> Minus(prev.leftover, done.charged),
            sent     |-> [prev.sent EXCEPT ![p] = @ \cup done.sent],
            refused  |-> [prev.refused EXCEPT ![p] = done.refused]]

SecondPass(first, b, order) ==
  LET after[i \in 0..Len(order)] ==
        IF i = 0 THEN first
        ELSE SecondFlush(after[i - 1], order[i], first.refused[order[i]] # {},
                         NextFr(b.client[order[i]]))
  IN  after[Len(order)]

\* A single member flushes with all there is.
Alone(b, p) ==
  LET done == Flush(b, p, b.available, NextFr(b.client[p]))
  IN  [books |-> done.books, charged |-> done.charged,
       sent |-> [Nothing EXCEPT ![p] = done.sent],
       refused |-> [Nothing EXCEPT ![p] = done.refused]]

Round(b, ms) ==
  IF Len(ms) = 1 THEN Alone(b, ms[1])
  ELSE IF b.available = 0
  THEN [books |-> b, charged |-> 0, sent |-> Nothing, refused |-> Nothing]
  ELSE SecondPass(FirstPass(b, Order(ms)), b, Order(ms))

\* try_run_pending: the flushes run once every member has asked for its own.
TryRun(b, ms, requests) ==
  IF ms # <<>> /\ requests = {ms[i] : i \in DOMAIN ms}
  THEN \E r \in {Round(b, ms)} :
           /\ waiting' = {}
           /\ beat' = ~beat
           /\ available' = r.books.available
           /\ inflight' = r.books.inflight
           /\ client' = [p \in Participants |->
                           [r.books.client[p] EXCEPT !.tracked = Renumbered(@)]]
           /\ round' = [had |-> b.available, charged |-> r.charged,
                        left |-> r.books.available, sent |-> r.sent, refused |-> r.refused]
  ELSE /\ waiting' = requests
       /\ available' = b.available
       /\ inflight' = b.inflight
       /\ client' = b.client
       /\ round' = NoRound
       /\ UNCHANGED beat

-------------------------------------------------------------------------------
(* Operations                                                                   *)

IsMember(p) == \E i \in DOMAIN members : members[i] = p

\* mark_dirty: the entities join the queue, and no packet that is under way has
\* their latest state any more.
Marked(cl, changed) ==
  LET listed == {cl.list[i] : i \in DOMAIN cl.list}
      slots  == [e \in 1..Cardinality(Entities) |-> e]
  IN  [cl EXCEPT
         !.list = @ \o Chosen(slots, changed \ listed),
         !.queued = @ \cup changed,
         !.acc = [e \in Entities |-> IF e \in changed \ cl.queued THEN 0 ELSE @[e]],
         !.tracked = [i \in DOMAIN @ |-> Outdated(@[i], changed)]]

\* begin_tick: what the budget has at the start of a round.
Refilled(refill) == Lesser(Burst, available + refill)

\* on_server_frame_batch_complete: the server of p completed frames in which these
\* entities changed. The first to ask refills the budget.
BatchComplete(p, changed, refill) ==
  /\ IsMember(p)
  /\ TryRun([available |-> IF waiting = {} THEN Refilled(refill) ELSE available,
             inflight  |-> inflight,
             client    |-> [client EXCEPT ![p] = Marked(@, changed)]],
            members, waiting \cup {p})
  /\ UNCHANGED <<members, orphaned>>

\* The entities whose latest state this packet carried.
Settled(packet) == packet.records \cap packet.latest

\* acknowledge_packet: what the packet and those before it carried is no longer
\* pending, and what did not change since is no longer queued.
AcknowledgeOne(b, p, k) ==
  LET cl   == b.client[p]
      pk   == cl.tracked[k]
      left == [i \in DOMAIN cl.tracked |->
                 IF cl.tracked[i].fr <= pk.fr
                 THEN [cl.tracked[i] EXCEPT !.records = @ \ pk.records] ELSE cl.tracked[i]]
  IN  [PacketGone(b, pk.bytes) EXCEPT
         !.client[p].tracked = Chosen(left, DOMAIN left \ {k}),
         !.client[p].queued = @ \ Settled(pk),
         !.client[p].acc = [e \in Entities |-> IF e \in Settled(pk) THEN 0 ELSE @[e]]]

\* cleanup_packet_acks: packets of which nothing is pending any more are lost.
CleanedUp(b, p) ==
  LET tracked == b.client[p].tracked
      lost    == {i \in DOMAIN tracked : tracked[i].records = {}}
  IN  [AllGone(b, Chosen(tracked, lost)) EXCEPT
         !.client[p].tracked = Chosen(tracked, DOMAIN tracked \ lost)]

\* A message of p with the ack of one packet (process_client_acks_from_packet).
ReceiveAck(p, k) ==
  /\ IsMember(p) /\ k \in DOMAIN client[p].tracked
  /\ LET b == CleanedUp(AcknowledgeOne(Books, p, k), p)
     IN  /\ inflight' = b.inflight
         /\ client' = [b.client EXCEPT ![p].tracked = Renumbered(@)]
  /\ round' = NoRound
  /\ UNCHANGED <<available, members, waiting, orphaned, beat>>

\* remove_client: the participant is detached, which may be what the others
\* waited for; its packets are forgotten.
Detach(p) ==
  /\ IsMember(p)
  /\ members' = Chosen(members, {i \in DOMAIN members : members[i] # p})
  /\ orphaned' = orphaned + ChargedBytes(client[p].tracked)
  /\ orphaned' <= MaxOrphaned
  /\ TryRun([Books EXCEPT !.client[p] = NewClient], members', waiting \ {p})

\* A new client for the same budget.
Attach(p) ==
  /\ ~IsMember(p)
  /\ members' = Append(members, p)
  /\ round' = NoRound
  /\ UNCHANGED <<available, inflight, waiting, client, orphaned, beat>>

BudgetInit ==
  /\ available = Burst /\ inflight = 0
  /\ members = <<>>
  /\ waiting = {}
  /\ client = [p \in Participants |-> NewClient]
  /\ orphaned = 0
  /\ beat = FALSE
  /\ round = NoRound

Batch(p) ==
  \E changed \in SUBSET Entities, refill \in Refills : BatchComplete(p, changed, refill)

BudgetNext ==
  \E p \in Participants :
    \/ Batch(p)
    \/ \E k \in 1..MaxTracked : ReceiveAck(p, k)
    \/ Detach(p)
    \/ Attach(p)

BudgetSpec == BudgetInit /\ [][BudgetNext]_budgetVars

\* The server of every member keeps ticking, so that, unless all members leave
\* again and again, rounds keep running; nothing else has to happen. This follows
\* from weak fairness of Batch(p) for every p, and is said of the state, so that
\* TLC need not evaluate ENABLED of a whole round.
Fairness == []<>(members = <<>>) \/ ([]<>beat /\ []<>~beat)

FairSpec == BudgetSpec /\ Fairness

-------------------------------------------------------------------------------
(* Properties                                                                   *)

Tracked(p) == ChargedBytes(client[p].tracked)

\* The participants, one after the other.
Roster ==
  CHOOSE r \in [1..Cardinality(Participants) -> Participants] :
    /\ \A i, j \in DOMAIN r : r[i] = r[j] => i = j
    /\ \A p \in Participants : \E i \in DOMAIN r : r[i] = p

TrackedBytes == Total([i \in DOMAIN Roster |-> Tracked(Roster[i])])

\* Every variable has the shape the code gives it.
BudgetTypeOK ==
  /\ available \in 0..Burst /\ inflight \in Nat /\ orphaned \in 0..MaxOrphaned
  /\ \A i, j \in DOMAIN members : members[i] = members[j] => i = j
  /\ waiting \subseteq {members[i] : i \in DOMAIN members}
  /\ \A p \in Participants :
       /\ client[p].queued \subseteq {client[p].list[i] : i \in DOMAIN client[p].list}
       /\ client[p].acc \in [Entities -> 0..MaxPriority]
       /\ client[p].next \in 1..MaxPacketId
       /\ Len(client[p].tracked) <= MaxTracked

\* A round never charges more than the budget had, however the bytes were divided
\* and whoever used what others left (run, send_client, spend); and nobody is
\* refused a record for which the round leaves enough: what one member does not
\* use of its share goes to those that need it (run).
RoundUsesBudget ==
  /\ round.charged <= round.had /\ round.left = round.had - round.charged
  /\ \A p \in Participants : \A e \in round.refused[p] : Overhead + Size[e] > round.left

\* The bytes in flight are those of the packets somebody still waits to hear of,
\* reused ids, trimmed packets and packets overtaken by a later ack included, and
\* of the packets of participants that left (track_packet_ack, allocate_packet_id,
\* enforce_pending_packet_ack_limit, cleanup_packet_acks).
InFlightAccounted == inflight = TrackedBytes + orphaned

\* An entity that changed is sent at last, whatever else changes and whoever else
\* uses the budget: what it accumulates outgrows what the others do (send_client).
\* It takes a budget whose every share pays for the largest record.
NobodyStarves ==
  \A p \in Participants, e \in Entities :
    Priority[p][e] > 0 /\ e \in client[p].queued
      ~> e \in round.sent[p] \/ e \notin client[p].queued
===============================================================================
