------------------------------ MODULE PacketLoss ------------------------------
(* The client's estimate of lost update packets (client/timing_stats.cpp): a    *)
(* window of the ids heard lately, relative to the highest one, on a circle of  *)
(* MaxPacketId ids; an id that leaves the window unheard is missing.            *)
(* The server numbers its packets 1, 2, ...; a packet's id is that number on    *)
(* the circle. The network loses, repeats and delays packets, but delivers none *)
(* more than Reorder packets behind the newest.                                 *)
EXTENDS Integers, FiniteSets, FiniteSetsExt

CONSTANTS
  MaxPacketId,   \* packet_id_mask of the configured id bits
  LossWindow,    \* entity_update_packet_loss_window
  Reorder,       \* bound: how far behind the newest a packet may arrive
  MaxSkip,       \* bound: packets lost in a row
  MaxSent        \* bound: packets sent

VARIABLES
  window,   \* ClientTimingStatsCalculator: highest id, heard distances, span
  stats,    \* received, missing and late packets
  heard,    \* history: numbers of the packets that arrived
  first,    \* history: number of the first packet that arrived
  newest    \* history: number of the newest one

lossVars == <<window, stats, heard, first, newest>>

IdOf(n) == ((n - 1) % MaxPacketId) + 1

\* Seeded fault: the circle is taken for one of MaxPacketId + 1 ids.
ForwardDistanceWithZero(from, to) ==
  IF to >= from THEN to - from ELSE MaxPacketId + 1 - from + to

ForwardDistance(from, to) == IF to >= from THEN to - from ELSE MaxPacketId - from + to

WindowSize ==
  IF MaxPacketId <= 1 THEN 1
  ELSE IF LossWindow < MaxPacketId \div 2 THEN LossWindow ELSE MaxPacketId \div 2

\* Packets are late by less than the window, and fewer are lost in a row than
\* half the circle: an id then tells a new packet from a late one.
LossAssumption ==
  /\ {MaxPacketId, LossWindow, Reorder, MaxSkip, MaxSent} \subseteq Nat
  /\ MaxPacketId # 0
  /\ Reorder < WindowSize
  /\ 2 * MaxSkip <= MaxPacketId

\* The highest id moves "by" forward: what falls out of the window is settled.
Slide(by, id) ==
  LET wide == window.span + by
      span == IF wide < WindowSize THEN wide ELSE WindowSize
      old == {d \in window.heard : d + by >= span}
  IN  /\ stats' = [stats EXCEPT !.received = @ + 1,
                                !.missing = @ + (wide - span) - Cardinality(old)]
      /\ window' = [highest |-> id, span |-> span,
                    heard |-> {0} \cup {d + by : d \in window.heard \ old}]

RecordEntityUpdatePacket(id) ==
  LET forward == ForwardDistance(window.highest, id)
      back == ForwardDistance(id, window.highest)
  IN  IF window.span = 0
      THEN /\ window' = [highest |-> id, span |-> 1, heard |-> {0}]
           /\ stats' = [stats EXCEPT !.received = @ + 1]
      ELSE IF forward # 0 /\ forward <= back THEN Slide(forward, id)
      ELSE /\ stats' = [stats EXCEPT !.received = @ + 1, !.late = @ + 1]
           /\ window' = [window EXCEPT !.heard = IF back < window.span THEN @ \cup {back} ELSE @]

Receive(n) ==
  /\ n \in 1..MaxSent
  /\ n >= newest - Reorder
  /\ newest # 0 => n <= newest + MaxSkip
  /\ stats.received < MaxSent
  /\ RecordEntityUpdatePacket(IdOf(n))
  /\ heard' = heard \cup {n}
  /\ first' = IF newest = 0 THEN n ELSE first
  /\ newest' = IF n > newest THEN n ELSE newest

Init ==
  /\ window = [highest |-> 0, span |-> 0, heard |-> {}]
  /\ stats = [received |-> 0, missing |-> 0, late |-> 0]
  /\ heard = {}
  /\ first = 0
  /\ newest = 0

Next == \E n \in 1..MaxSent : Receive(n)

-------------------------------------------------------------------------------
\* While packets are late by less than the window and fewer are lost in a row
\* than half the circle, the missing packets are exactly those between the
\* first and the window that never came: record_entity_update_packet.
MissingIsExact ==
  newest # 0 =>
    stats.missing = Cardinality({n \in first..(newest - window.span) : n \notin heard})

===============================================================================
