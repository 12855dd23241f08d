------------------------------ MODULE Connection ------------------------------
(* Sessions of ashiato-sync: the connect request, response and ack with their  *)
(* resends, the server's client table with its two index maps, the idle        *)
(* timeout and the client's connection state, over a network that loses,       *)
(* repeats and reorders every message (server.cpp, server/transport.cpp,       *)
(* client/transport.cpp, client.cpp).                                          *)
(*                                                                             *)
(* Time advances one unit per tick of either host; the accumulators stop at    *)
(* their limits, beyond which the code never tells them apart. An update is    *)
(* a message with no content here: what updates carry is module Replication.   *)
EXTENDS Integers, Sequences, FiniteSets

CONSTANTS
  Peers,            \* transport addresses of the clients
  Local,            \* stands for the peer of the server's own client
  MaxId,            \* max_client_entity_network_id_client
  HandlerIds,       \* ids connect_handler may give instead of the offered one
  MayReject,        \* may connect_handler reject a request?
  ResendInterval,   \* connect_resend_interval_seconds of both hosts, in ticks
  IdleTimeout,      \* idle_client_timeout_seconds in ticks, 0 = disabled
  MaxInFlight,      \* bound: messages on the way, each direction; more are lost
  AppCalls          \* which of add_client, add_local_client, remove_client are called

Ids == 1..MaxId
NoId == 0

ASSUME ConnectionAssumption ==
  /\ MaxId \in Nat \ {0}
  /\ Local \notin Peers
  /\ HandlerIds \subseteq Nat
  /\ ResendInterval \in Nat \ {0}
  /\ IdleTimeout \in Nat
  /\ MaxInFlight \in Nat
  /\ MayReject \in BOOLEAN
  /\ AppCalls \subseteq {"add_client", "add_local_client", "remove_client"}

VARIABLES
  phase,       \* where the server is in tick
  cursor,      \* index of disconnect_timed_out_clients
  tab,         \* clients_
  byClient,    \* client_to_index_
  byPeer,      \* peer_to_index_
  nextId,      \* next_connect_client_id_
  client,      \* per peer, the client's session transport
  toServer,    \* messages on the way to the server
  inbound,     \* inbound_packets_: received, not yet processed
  toClient,    \* messages on the way to the clients
  heard,       \* history: peers whose message was processed in this tick
  taken        \* history: per peer, the ids its client was ever given

vars == <<phase, cursor, tab, byClient, byPeer, nextId, client, toServer,
          inbound, toClient, heard, taken>>

Phases == {"between", "packets", "sweep"}
States == {"Connecting", "Accepted", "Ready", "Rejected"}

ClientState == [id : Ids, peer : Peers \cup {Local}, ready : BOOLEAN,
                acc : 0..ResendInterval, idle : 0..IdleTimeout]

ClientSide == [state : States, id : 0..MaxId, acc : 0..ResendInterval,
               asked : BOOLEAN]

ToServer == [peer : Peers, kind : {"request", "ack", "ping"}, id : 0..MaxId]
ToClient == [peer : Peers, kind : {"accept", "reject", "update"}, id : 0..MaxId]

Message(p, k, i) == [peer |-> p, kind |-> k, id |-> i]

\* The messages on the way after msgs are sent.
Sent(net, msgs) == IF Cardinality(net \cup msgs) <= MaxInFlight THEN net \cup msgs ELSE net

IsLocal(c) == c.peer = Local

Indices == 1..Len(tab)

\* Saturating sum: the code compares accumulators with their limit only.
UpTo(limit, n) == IF n < limit THEN n ELSE limit

-------------------------------------------------------------------------------
(* The client table                                                            *)

FindNextAvailableClientId ==
  LET candidate(n) == ((nextId - 1 + n) % MaxId) + 1
      free == {n \in 0..(MaxId - 1) : candidate(n) \notin DOMAIN byClient}
  IN  IF free = {} THEN NoId ELSE candidate(CHOOSE n \in free : \A m \in free : n <= m)

Bind(f, key, val) == [k \in DOMAIN f \cup {key} |-> IF k = key THEN val ELSE f[k]]
Unbind(f, key)    == [k \in DOMAIN f \ {key} |-> f[k]]

CanAdd(i, p) ==
  /\ i \in Ids
  /\ i \notin DOMAIN byClient
  /\ p # Local => p \notin DOMAIN byPeer

\* Seeded fault: replication starts with the response, not with its ack.
NewClientStateReady(i, p, r, acc) ==
  [id |-> i, peer |-> p, ready |-> TRUE, acc |-> acc, idle |-> 0]

NewClientState(i, p, r, acc) ==
  [id |-> i, peer |-> p, ready |-> r, acc |-> acc, idle |-> 0]

AddClientState(c) ==
  /\ tab' = Append(tab, c)
  /\ byClient' = Bind(byClient, c.id, Len(tab) + 1)
  /\ byPeer' = IF IsLocal(c) THEN byPeer ELSE Bind(byPeer, c.peer, Len(tab) + 1)
  /\ nextId' = IF c.id < nextId THEN nextId
               ELSE IF c.id >= MaxId THEN 1 ELSE c.id + 1

\* The last client takes the place of the removed one.
SwapRemove(s, i) ==
  [k \in 1..(Len(s) - 1) |-> IF k = i THEN s[Len(s)] ELSE s[k]]

\* Seeded fault: the client that moved keeps its old place in the peer map.
PeersWithoutStale(i) ==
  IF IsLocal(tab[i]) THEN byPeer ELSE Unbind(byPeer, tab[i].peer)

\* Where the peer map points after the removal of the client at index i.
PeersWithout(i) ==
  LET gone == tab[i]
      last == tab[Len(tab)]
      fixed == IF i # Len(tab) /\ ~IsLocal(last)
               THEN [byPeer EXCEPT ![last.peer] = i] ELSE byPeer
  IN  IF IsLocal(gone) THEN fixed ELSE Unbind(fixed, gone.peer)

\* Seeded fault: the id of the client that moved is dropped, not that of the
\* removed one.
IdsWithoutMoved(i) ==
  IF i = Len(tab) THEN Unbind(byClient, tab[i].id)
  ELSE Unbind([byClient EXCEPT ![tab[i].id] = i], tab[Len(tab)].id)

IdsWithout(i) ==
  LET fixed == IF i # Len(tab)
               THEN [byClient EXCEPT ![tab[Len(tab)].id] = i] ELSE byClient
  IN  Unbind(fixed, tab[i].id)

RemoveClientAt(i) ==
  /\ tab' = SwapRemove(tab, i)
  /\ byClient' = IdsWithout(i)
  /\ byPeer' = PeersWithout(i)
  /\ UNCHANGED nextId

-------------------------------------------------------------------------------
(* The server                                                                  *)

\* advance_client_idle_timers, then the packets that were received.
TickBegin ==
  /\ phase = "between"
  /\ phase' = "packets"
  /\ tab' = [i \in Indices |->
               IF IdleTimeout = 0 \/ IsLocal(tab[i]) THEN tab[i]
               ELSE [tab[i] EXCEPT !.idle = UpTo(IdleTimeout, @ + 1)]]
  /\ UNCHANGED <<cursor, byClient, byPeer, nextId, client, toServer, inbound, toClient,
                 heard, taken>>

\* What connect_handler may answer to a request: an id, or NoId for a rejection.
ConnectHandlerAnswers ==
  {FindNextAvailableClientId} \cup HandlerIds
    \cup (IF MayReject THEN {NoId} ELSE {})

\* process_connect_request_packet for a peer that has a session.
RepeatResponse(p) ==
  LET i == byPeer[p]
  IN  /\ p \in DOMAIN byPeer
      /\ tab' = [tab EXCEPT ![i].idle = 0, ![i].acc = 0]
      /\ toClient' = Sent(toClient, {Message(p, "accept", tab[i].id)})
      /\ UNCHANGED <<byClient, byPeer, nextId>>

\* process_connect_request_packet for a new peer, with the handler's answer i.
\* An id in use makes add_client_for_peer fail, and no response is sent.
AnswerRequest(p, i) ==
  /\ p \notin DOMAIN byPeer
  /\ \/ /\ i \notin Ids
        /\ toClient' = Sent(toClient, {Message(p, "reject", NoId)})
        /\ UNCHANGED <<tab, byClient, byPeer, nextId>>
     \/ /\ CanAdd(i, p)
        /\ AddClientState(NewClientState(i, p, FALSE, 0))
        /\ toClient' = Sent(toClient, {Message(p, "accept", i)})
     \/ /\ i \in Ids
        /\ ~CanAdd(i, p)
        /\ UNCHANGED <<tab, byClient, byPeer, nextId, toClient>>

\* Seeded fault: any connect ack makes the session ready.
AckMatchesAny(c, i) == TRUE

\* The id test of process_connection_request_ack_packet.
AckMatches(c, i) == i = c.id

\* A message other than a request, from a peer with a session; a connect ack
\* with the session's id makes it ready, pings are answered or refused.
ConnectedMessage(m) ==
  LET i == byPeer[m.peer]
  IN  /\ m.peer \in DOMAIN byPeer
      /\ m.kind # "request"
      /\ tab' = [tab EXCEPT ![i].idle = 0,
                   ![i].ready = @ \/ (m.kind = "ack" /\ AckMatches(tab[i], m.id))]
      /\ UNCHANGED <<byClient, byPeer, nextId, toClient>>

UnknownPeer(m) ==
  /\ m.peer \notin DOMAIN byPeer
  /\ m.kind # "request"
  /\ UNCHANGED <<tab, byClient, byPeer, nextId, toClient>>

\* process_packet. The tick processes every packet it was handed; a packet left
\* in inbound is one the host hands over before a later tick.
ProcessPacket(m) ==
  /\ phase = "packets"
  /\ m \in inbound
  /\ \/ m.kind = "request" /\ RepeatResponse(m.peer)
     \/ m.kind = "request" /\ \E i \in ConnectHandlerAnswers : AnswerRequest(m.peer, i)
     \/ ConnectedMessage(m)
     \/ UnknownPeer(m)
  /\ inbound' = inbound \ {m}
  /\ heard' = heard \cup {m.peer}
  /\ UNCHANGED <<phase, cursor, client, toServer, taken>>

\* resend_pending_connect_responses: sessions not yet ready are answered again.
Pending == {i \in Indices : ~IsLocal(tab[i]) /\ ~tab[i].ready}
Due == {i \in Pending : tab[i].acc + 1 >= ResendInterval}

ResendConnectResponses ==
  /\ phase = "packets"
  /\ phase' = "sweep"
  /\ cursor' = 1
  /\ tab' = [i \in Indices |->
               IF i \in Due THEN [tab[i] EXCEPT !.acc = 0]
               ELSE IF i \in Pending THEN [tab[i] EXCEPT !.acc = @ + 1] ELSE tab[i]]
  /\ toClient' = Sent(toClient, {Message(tab[i].peer, "accept", tab[i].id) : i \in Due})
  /\ UNCHANGED <<byClient, byPeer, nextId, client, toServer, inbound, heard, taken>>

TimedOut(c) == IdleTimeout # 0 /\ ~IsLocal(c) /\ c.idle >= IdleTimeout

\* Seeded fault: the loop moves on past the client that was swapped in.
CursorAfterRemovalSkips == cursor + 1

\* disconnect_timed_out_clients looks at the same index again after a removal.
CursorAfterRemoval == cursor

DisconnectTimedOut ==
  /\ phase = "sweep"
  /\ cursor \in Indices
  /\ \/ /\ TimedOut(tab[cursor])
        /\ RemoveClientAt(cursor)
        /\ cursor' = CursorAfterRemoval
     \/ /\ ~TimedOut(tab[cursor])
        /\ cursor' = cursor + 1
        /\ UNCHANGED <<tab, byClient, byPeer, nextId>>
  /\ UNCHANGED <<phase, client, toServer, inbound, toClient, heard, taken>>

\* The rest of the tick: the frame batch sends an update to every ready client.
BroadcastUpdates ==
  /\ phase = "sweep"
  /\ cursor \notin Indices
  /\ phase' = "between"
  /\ cursor' = 0
  /\ heard' = {}
  /\ toClient' = Sent(toClient,
       {Message(tab[i].peer, "update", NoId) :
          i \in {j \in Indices : tab[j].ready /\ ~IsLocal(tab[j])}})
  /\ UNCHANGED <<tab, byClient, byPeer, nextId, client, toServer, inbound, taken>>

\* add_client: a client without a connect token takes part from the start, under
\* the id both applications configured.
AddClient(i, p) ==
  /\ "add_client" \in AppCalls
  /\ phase = "between"
  /\ CanAdd(i, p)
  /\ client[p].state = "Connecting" /\ ~client[p].asked
  /\ AddClientState(NewClientState(i, p, TRUE, ResendInterval))
  /\ client' = [client EXCEPT ![p].state = "Ready", ![p].id = i]
  /\ taken' = [taken EXCEPT ![p] = @ \cup {i}]
  /\ UNCHANGED <<phase, cursor, toServer, inbound, toClient, heard>>

\* add_local_client: the server's own client, at most one.
AddLocalClient ==
  /\ "add_local_client" \in AppCalls
  /\ phase = "between"
  /\ \A k \in Indices : ~IsLocal(tab[k])
  /\ FindNextAvailableClientId # NoId
  /\ AddClientState(NewClientState(FindNextAvailableClientId, Local, TRUE, ResendInterval))
  /\ UNCHANGED <<phase, cursor, client, toServer, inbound, toClient, heard, taken>>

RemoveClient(i) ==
  /\ "remove_client" \in AppCalls
  /\ phase = "between"
  /\ i \in DOMAIN byClient
  /\ RemoveClientAt(byClient[i])
  /\ UNCHANGED <<phase, cursor, client, toServer, inbound, toClient, heard, taken>>

-------------------------------------------------------------------------------
(* The client                                                                  *)

\* receive_connect_response and the connection part of receive_entity_update.
Received(c, m) ==
  CASE m.kind = "reject" -> [c EXCEPT !.state = "Rejected", !.id = NoId]
    [] m.kind = "accept" -> [c EXCEPT !.state = "Accepted", !.id = m.id,
                                      !.acc = ResendInterval]
    [] m.kind = "update" -> [c EXCEPT !.state = "Ready"]

ClientReceive(m) ==
  /\ m \in toClient
  /\ client' = [client EXCEPT ![m.peer] = Received(@, m)]
  /\ toClient' \in {toClient, toClient \ {m}}
  /\ taken' = [taken EXCEPT ![m.peer] =
                 IF m.kind = "accept" THEN @ \cup {m.id} ELSE @]
  /\ UNCHANGED <<phase, cursor, tab, byClient, byPeer, nextId, toServer, inbound, heard>>

\* Seeded fault: the request is sent once.
ConnectPacketsOnce(p, n) ==
  LET c == client[p]
  IN  IF c.state = "Connecting" /\ ~c.asked
      THEN {Message(p, "request", NoId)}
      ELSE IF c.state = "Accepted" /\ c.id # NoId /\ n >= ResendInterval
      THEN {Message(p, "ack", c.id)} ELSE {}

\* What drain_connect_packets sends when the accumulator holds n.
ConnectPackets(p, n) ==
  LET c == client[p]
  IN  IF c.state = "Connecting" /\ (~c.asked \/ n >= ResendInterval)
      THEN {Message(p, "request", NoId)}
      ELSE IF c.state = "Accepted" /\ c.id # NoId /\ n >= ResendInterval
      THEN {Message(p, "ack", c.id)} ELSE {}

\* drain_ping_packets: the ping interval is any interval.
PingPackets(p) ==
  IF client[p].state \in {"Accepted", "Ready"}
  THEN {{}, {Message(p, "ping", NoId)}} ELSE {{}}

ClientTick(p) ==
  LET n == UpTo(ResendInterval, client[p].acc + 1)
      sent == ConnectPackets(p, n)
  IN  /\ \E pings \in PingPackets(p) : toServer' = Sent(toServer, sent \cup pings)
      /\ client' = [client EXCEPT ![p] =
                      [@ EXCEPT !.acc = IF sent = {} THEN n ELSE 0,
                                !.asked = \/ client[p].asked
                                          \/ sent # {} /\ client[p].state = "Connecting"]]
      /\ UNCHANGED <<phase, cursor, tab, byClient, byPeer, nextId, inbound, toClient, heard, taken>>

\* receive_packet; a message the network repeats stays on its way.
ReceivePacket(m) ==
  /\ m \in toServer
  /\ Cardinality(inbound) < MaxInFlight
  /\ inbound' = inbound \cup {m}
  /\ toServer' \in {toServer, toServer \ {m}}
  /\ UNCHANGED <<phase, cursor, tab, byClient, byPeer, nextId, client, toClient,
                 heard, taken>>

\* The network drops a message; a client that cannot decode an update does too.
Lose(m) ==
  /\ toServer' = toServer \ {m}
  /\ toClient' = toClient \ {m}
  /\ UNCHANGED <<phase, cursor, tab, byClient, byPeer, nextId, client, inbound, heard, taken>>

-------------------------------------------------------------------------------
Init ==
  /\ phase = "between" /\ cursor = 0
  /\ tab = <<>>
  /\ byClient = [i \in {} |-> 0] /\ byPeer = [p \in {} |-> 0]
  /\ nextId = 1
  /\ client = [p \in Peers |-> [state |-> "Connecting", id |-> NoId, acc |-> 0,
                                asked |-> FALSE]]
  /\ toServer = {} /\ inbound = {} /\ toClient = {}
  /\ heard = {}
  /\ taken = [p \in Peers |-> {}]

Next ==
  \/ TickBegin
  \/ \E m \in inbound : ProcessPacket(m)
  \/ ResendConnectResponses
  \/ DisconnectTimedOut
  \/ BroadcastUpdates
  \/ \E i \in Ids, p \in Peers : AddClient(i, p)
  \/ AddLocalClient
  \/ \E i \in DOMAIN byClient : RemoveClient(i)
  \/ \E m \in toServer : ReceivePacket(m)
  \/ \E m \in toClient : ClientReceive(m)
  \/ \E p \in Peers : ClientTick(p)
  \/ \E m \in toServer \cup toClient : Lose(m)

Spec == Init /\ [][Next]_vars

\* Both applications keep calling tick, a packet that was received is processed,
\* and a message that is sent again and again arrives again and again (what the
\* resends are for). Nothing is said of losses, repeats or the application's
\* calls.
Fairness ==
  /\ WF_vars(TickBegin) /\ WF_vars(ResendConnectResponses)
  /\ WF_vars(DisconnectTimedOut) /\ WF_vars(BroadcastUpdates)
  /\ \A p \in Peers :
       /\ WF_vars(ClientTick(p))
       /\ SF_vars(ReceivePacket(Message(p, "request", NoId)))
       /\ SF_vars(ProcessPacket(Message(p, "request", NoId)))
       /\ SF_vars(\E i \in Ids : ReceivePacket(Message(p, "ack", i)))
       /\ SF_vars(\E i \in Ids : ProcessPacket(Message(p, "ack", i)))
       /\ SF_vars(\E i \in Ids : ClientReceive(Message(p, "accept", i)))
       /\ SF_vars(ClientReceive(Message(p, "update", NoId)))

FairSpec == Spec /\ Fairness

-------------------------------------------------------------------------------
(* Properties                                                                  *)

TypeOK ==
  /\ phase \in Phases
  /\ cursor \in Nat
  /\ tab \in Seq(ClientState)
  /\ DOMAIN byClient \subseteq Ids
  /\ \A i \in DOMAIN byClient : byClient[i] \in Nat
  /\ DOMAIN byPeer \subseteq Peers
  /\ \A p \in DOMAIN byPeer : byPeer[p] \in Nat
  /\ nextId \in Ids
  /\ client \in [Peers -> ClientSide]
  /\ toServer \subseteq ToServer
  /\ inbound \subseteq ToServer
  /\ toClient \subseteq ToClient
  /\ heard \subseteq Peers
  /\ taken \in [Peers -> SUBSET Ids]

\* The two maps name exactly the clients of the table, each at its place, after
\* any order of additions and of removals that move the last client
\* (add_client_state, remove_client): a client is found by its id and by its
\* peer, and by no other.
TableConsistent ==
  /\ DOMAIN byClient = {tab[k].id : k \in Indices}
  /\ \A k \in Indices : byClient[tab[k].id] = k
  /\ DOMAIN byPeer = {tab[k].peer : k \in {j \in Indices : ~IsLocal(tab[j])}}
  /\ \A k \in Indices : ~IsLocal(tab[k]) => byPeer[tab[k].peer] = k

\* disconnect_timed_out_clients leaves no client behind whose idle time reached
\* the limit, whatever clients the removals moved to another index.
SweepIsComplete ==
  phase = "between" \/ (phase = "sweep" /\ cursor > Len(tab)) =>
    \A k \in Indices : ~TimedOut(tab[k])

\* A tick in which a peer was heard does not end with its session removed as
\* idle (advance_client_idle_timers runs before the packets are processed).
HeardIsKept ==
  [][\A p \in heard \cap DOMAIN byPeer :
       phase = "sweep" => p \in DOMAIN byPeer']_vars

\* A session sends updates only to a client that was given the session's id
\* (process_connection_request_ack_packet), even when acks and responses of the
\* peer's earlier sessions arrive late.
ReadyWasTaken ==
  \A k \in Indices : tab[k].ready /\ ~IsLocal(tab[k]) => tab[k].id \in taken[tab[k].peer]

\* While no session ends and none is refused, both hosts agree on the client id
\* of a session that is ready, and a ready client has a ready session.
HostsAgree ==
  /\ \A k \in Indices : tab[k].ready /\ ~IsLocal(tab[k]) =>
       client[tab[k].peer].id = tab[k].id
  /\ \A p \in Peers : client[p].state = "Ready" =>
       p \in DOMAIN byPeer /\ tab[byPeer[p]].ready

\* Whatever messages are lost or repeated, every peer that keeps asking gets a
\* session that becomes ready and stays so (the resends of both hosts), and its
\* client is ready again and again: a late response sends it back to Accepted,
\* but the next update makes it ready (receive_entity_update).
BothReady ==
  \A p \in Peers : /\ <>[](p \in DOMAIN byPeer /\ tab[byPeer[p]].ready)
                   /\ []<>(client[p].state = "Ready")

\* The table seen through client_to_index_ implements the abstract one.
Sessions == INSTANCE SessionTable WITH
  PeerOrLocal <- Peers \cup {Local},
  sessions <- [i \in DOMAIN byClient |-> [peer |-> tab[byClient[i]].peer,
                                          ready |-> tab[byClient[i]].ready]]

\* Every step of the table is a step of the abstract session table or leaves it
\* alone: swap removal and the index maps lose, mix up and double no session
\* (add_client_state, remove_client).
ImplementsSessionTable == Sessions!Spec
===============================================================================
