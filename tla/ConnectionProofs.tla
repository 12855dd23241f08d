---------------------------- MODULE ConnectionProofs ----------------------------
(* Theorems about Connection for every set of peers, every id range, every     *)
(* timeout and every answer of the connect handler.                            *)
EXTENDS Connection, TLAPS, SequenceTheorems, WellFoundedInduction

--------------------------------------------------------------------------------
(* Operators. *)

\* Every set of naturals that is not empty has a least element.
LEMMA LeastNumber ==
    ASSUME NEW T \in SUBSET Nat, T # {}
    PROVE  \E n \in T : \A m \in T : n <= m
<1> DEFINE R == {ss \in Nat \X Nat : ss[1] < ss[2]}
<1>1. IsWellFoundedOn(R, Nat)
  BY NatLessThanWellFounded, Zenon DEF OpToRel
<1> HIDE DEF R
<1>2. PICK n \in T : \A m \in T : ~ (<<m, n>> \in R)
  BY <1>1, WFMin, Zenon
<1>3. \A m \in Nat : m < n => <<m, n>> \in R
  BY DEF R
<1>4. \A m \in T : ~(m < n)
  BY <1>2, <1>3
<1> QED BY <1>4

\* find_next_available_client_id gives an id nobody has, or none.
LEMMA NextAvailableIsFree ==
    ASSUME nextId \in Ids
    PROVE  FindNextAvailableClientId \in (Ids \ DOMAIN byClient) \cup {NoId}
<1> DEFINE candidate(n) == ((nextId - 1 + n) % MaxId) + 1
           open == {n \in 0..(MaxId - 1) : candidate(n) \notin DOMAIN byClient}
<1>1. \A n \in 0..(MaxId - 1) : candidate(n) \in Ids
  <2>1. MaxId \in Nat \ {0} /\ nextId \in 1..MaxId
    BY ConnectionAssumption DEF Ids
  <2>2. \A a \in Nat : a % MaxId \in 0..(MaxId - 1)
    BY <2>1
  <2> QED BY <2>1, <2>2 DEF Ids
<1>2. CASE open = {}
  BY <1>2 DEF FindNextAvailableClientId
<1>3. CASE open # {}
  <2>1. open \in SUBSET Nat
    BY ConnectionAssumption
  <2>2. \E n \in open : \A m \in open : n <= m
    BY <1>3, <2>1, LeastNumber
  <2> DEFINE pick == CHOOSE n \in open : \A m \in open : n <= m
  <2>3. pick \in open
    BY <2>2
  <2>4. FindNextAvailableClientId = candidate(pick)
    BY <1>3 DEF FindNextAvailableClientId
  <2>5. candidate(pick) \in Ids \ DOMAIN byClient
    BY <1>1, <2>3
  <2> QED BY <2>4, <2>5
<1> QED BY <1>2, <1>3

\* What is on the way after a send was on the way or is what was sent.
LEMMA SentBounded ==
    ASSUME NEW net, NEW msgs
    PROVE  Sent(net, msgs) \subseteq net \cup msgs
BY DEF Sent

LEMMA UpToType ==
    ASSUME NEW limit \in Nat, NEW n \in Nat
    PROVE  UpTo(limit, n) \in 0 .. limit
BY DEF UpTo

--------------------------------------------------------------------------------
(* The client table. *)

\* The part of the state the table is made of.
TableType ==
  /\ tab \in Seq(ClientState)
  /\ DOMAIN byClient \subseteq Ids
  /\ \A i \in DOMAIN byClient : byClient[i] \in Nat
  /\ DOMAIN byPeer \subseteq Peers
  /\ \A p \in DOMAIN byPeer : byPeer[p] \in Nat
  /\ nextId \in Ids

\* A client found by its id or by its peer is in the table.
LEMMA Lookup ==
    ASSUME TableType, TableConsistent
    PROVE  /\ Len(tab) \in Nat
           /\ \A k \in Indices : tab[k] \in ClientState
           /\ \A i \in DOMAIN byClient : byClient[i] \in Indices /\ tab[byClient[i]].id = i
           /\ \A p \in DOMAIN byPeer : byPeer[p] \in Indices /\ tab[byPeer[p]].peer = p
<1>1. tab \in Seq(ClientState)
  BY DEF TableType
<1>2. Len(tab) \in Nat /\ \A k \in Indices : tab[k] \in ClientState
  BY <1>1, ElementOfSeq, LenProperties DEF Indices
<1>3. \A i \in DOMAIN byClient : byClient[i] \in Indices /\ tab[byClient[i]].id = i
  BY DEF TableConsistent
<1>4. \A p \in DOMAIN byPeer : byPeer[p] \in Indices /\ tab[byPeer[p]].peer = p
  BY DEF TableConsistent
<1> QED BY <1>2, <1>3, <1>4

\* What add_client_state makes of the table.
Added(c) ==
  /\ tab' \in Seq(ClientState)
  /\ Len(tab') = Len(tab) + 1
  /\ \A k \in 1..Len(tab) : tab'[k] = tab[k]
  /\ tab'[Len(tab) + 1] = c
  /\ DOMAIN byClient' = DOMAIN byClient \cup {c.id}
  /\ byClient'[c.id] = Len(tab) + 1
  /\ \A i \in DOMAIN byClient \ {c.id} : byClient'[i] = byClient[i]
  /\ IsLocal(c) => byPeer' = byPeer
  /\ ~IsLocal(c) =>
       /\ DOMAIN byPeer' = DOMAIN byPeer \cup {c.peer}
       /\ byPeer'[c.peer] = Len(tab) + 1
       /\ \A p \in DOMAIN byPeer \ {c.peer} : byPeer'[p] = byPeer[p]

LEMMA AddEffect ==
    ASSUME TableType, NEW c \in ClientState, AddClientState(c)
    PROVE  Added(c)
<1>1. tab \in Seq(ClientState) /\ tab' = Append(tab, c)
  BY DEF TableType, AddClientState
<1>2. /\ tab' \in Seq(ClientState)
      /\ Len(tab') = Len(tab) + 1
      /\ \A k \in 1..Len(tab) : tab'[k] = tab[k]
      /\ tab'[Len(tab) + 1] = c
  BY <1>1, AppendProperties
<1>3. /\ DOMAIN byClient' = DOMAIN byClient \cup {c.id}
      /\ byClient'[c.id] = Len(tab) + 1
      /\ \A i \in DOMAIN byClient \ {c.id} : byClient'[i] = byClient[i]
  BY DEF AddClientState, Bind
<1>4. IsLocal(c) => byPeer' = byPeer
  BY DEF AddClientState
<1>5. ~IsLocal(c) => /\ DOMAIN byPeer' = DOMAIN byPeer \cup {c.peer}
                     /\ byPeer'[c.peer] = Len(tab) + 1
                     /\ \A p \in DOMAIN byPeer \ {c.peer} : byPeer'[p] = byPeer[p]
  BY DEF AddClientState, Bind
<1> QED BY <1>2, <1>3, <1>4, <1>5 DEF Added

\* Adding a client that may be added keeps the table and its maps in step.
LEMMA AddKeepsTable ==
    ASSUME TableType, TableConsistent, NEW c \in ClientState, CanAdd(c.id, c.peer),
           AddClientState(c)
    PROVE  TableType' /\ TableConsistent'
<1>0. Added(c)
  BY AddEffect
<1>1. Len(tab) \in Nat
  BY Lookup
<1>2. TableType'
  <2>1. DOMAIN byClient' \subseteq Ids /\ \A i \in DOMAIN byClient' : byClient'[i] \in Nat
    BY <1>0, <1>1 DEF Added, TableType, ClientState
  <2>2. DOMAIN byPeer' \subseteq Peers /\ \A p \in DOMAIN byPeer' : byPeer'[p] \in Nat
    <3>1. c.peer \in Peers \cup {Local} /\ (IsLocal(c) <=> c.peer = Local)
      BY DEF ClientState, IsLocal
    <3>2. CASE IsLocal(c)
      BY <1>0, <3>2 DEF Added, TableType
    <3>3. CASE ~IsLocal(c)
      BY <1>0, <1>1, <3>1, <3>3 DEF Added, TableType
    <3> QED BY <3>2, <3>3
  <2>3. nextId' \in Ids
    BY ConnectionAssumption DEF AddClientState, TableType, ClientState, Ids
  <2> QED BY <1>0, <2>1, <2>2, <2>3 DEF TableType, Added
<1>3. Indices' = Indices \cup {Len(tab) + 1}
  BY <1>0, <1>1 DEF Added, Indices
<1>4. \A k \in Indices : tab'[k] = tab[k]
  BY <1>0 DEF Added, Indices
<1>5. tab'[Len(tab) + 1] = c
  BY <1>0 DEF Added
<1>6. DOMAIN byClient' = {tab'[k].id : k \in Indices'}
  BY <1>0, <1>3, <1>4, <1>5 DEF TableConsistent, Added
<1>7. \A k \in Indices' : byClient'[tab'[k].id] = k
  BY <1>0, <1>3, <1>4, <1>5 DEF TableConsistent, Added, CanAdd
<1>8. DOMAIN byPeer' = {tab'[k].peer : k \in {j \in Indices' : ~IsLocal(tab'[j])}}
  <2>1. CASE IsLocal(c)
    BY <1>0, <1>3, <1>4, <1>5, <2>1 DEF TableConsistent, Added
  <2>2. CASE ~IsLocal(c)
    BY <1>0, <1>3, <1>4, <1>5, <2>2 DEF TableConsistent, Added
  <2> QED BY <2>1, <2>2
<1>9. \A k \in Indices' : ~IsLocal(tab'[k]) => byPeer'[tab'[k].peer] = k
  BY <1>0, <1>3, <1>4, <1>5 DEF TableConsistent, Added, CanAdd, IsLocal
<1> QED BY <1>2, <1>6, <1>7, <1>8, <1>9 DEF TableConsistent

\* What remove_client makes of the table: the last client takes the free place.
Removed(i) ==
  /\ tab' \in Seq(ClientState)
  /\ Len(tab') = Len(tab) - 1
  /\ \A k \in 1..Len(tab) - 1 : tab'[k] = IF k = i THEN tab[Len(tab)] ELSE tab[k]
  /\ DOMAIN byClient' = DOMAIN byClient \ {tab[i].id}
  /\ \A j \in DOMAIN byClient' :
       byClient'[j] = IF i # Len(tab) /\ j = tab[Len(tab)].id THEN i ELSE byClient[j]
  /\ DOMAIN byPeer' = IF IsLocal(tab[i]) THEN DOMAIN byPeer ELSE DOMAIN byPeer \ {tab[i].peer}
  /\ \A p \in DOMAIN byPeer' :
       byPeer'[p] = IF i # Len(tab) /\ p = tab[Len(tab)].peer THEN i ELSE byPeer[p]
  /\ nextId' = nextId

LEMMA RemoveEffect ==
    ASSUME TableType, TableConsistent, NEW i \in Indices, RemoveClientAt(i)
    PROVE  Removed(i)
<1> DEFINE n == Len(tab)
<1>1. n \in Nat /\ n >= 1 /\ i \in 1..n /\ \A k \in 1..n : tab[k] \in ClientState
  BY Lookup DEF Indices
<1>2. tab' = [k \in 1..(n - 1) |-> IF k = i THEN tab[n] ELSE tab[k]]
  BY DEF RemoveClientAt, SwapRemove
<1>3. tab' \in Seq(ClientState) /\ Len(tab') = n - 1
  <2>1. \A k \in 1..(n - 1) : (IF k = i THEN tab[n] ELSE tab[k]) \in ClientState
    BY <1>1
  <2>2. n - 1 \in Nat
    BY <1>1
  <2> QED BY <1>2, <2>1, <2>2
<1>4. \A k \in 1..n - 1 : tab'[k] = IF k = i THEN tab[n] ELSE tab[k]
  BY <1>2
<1>5. /\ DOMAIN byClient' = DOMAIN byClient \ {tab[i].id}
      /\ \A j \in DOMAIN byClient' :
           byClient'[j] = IF i # n /\ j = tab[n].id THEN i ELSE byClient[j]
  BY DEF RemoveClientAt, IdsWithout, Unbind
<1>6. /\ DOMAIN byPeer' = IF IsLocal(tab[i]) THEN DOMAIN byPeer ELSE DOMAIN byPeer \ {tab[i].peer}
      /\ \A p \in DOMAIN byPeer' :
           byPeer'[p] = IF i # n /\ p = tab[n].peer THEN i ELSE byPeer[p]
  <2> DEFINE fixed == IF i # n /\ ~IsLocal(tab[n]) THEN [byPeer EXCEPT ![tab[n].peer] = i]
                      ELSE byPeer
  <2>1. byPeer' = IF IsLocal(tab[i]) THEN fixed ELSE Unbind(fixed, tab[i].peer)
    BY DEF RemoveClientAt, PeersWithout
  <2>2. DOMAIN fixed = DOMAIN byPeer
    OBVIOUS
  <2>3. \A p \in DOMAIN byPeer : p # Local
    BY ConnectionAssumption DEF TableType
  <2>4. \A p \in DOMAIN byPeer : fixed[p] = IF i # n /\ p = tab[n].peer THEN i ELSE byPeer[p]
    BY <2>3 DEF IsLocal
  <2> HIDE DEF fixed
  <2> QED BY <2>1, <2>2, <2>4 DEF Unbind
<1>7. nextId' = nextId
  BY DEF RemoveClientAt
<1> QED BY <1>3, <1>4, <1>5, <1>6, <1>7 DEF Removed

\* Removing a client keeps the table and its maps in step.
LEMMA RemoveKeepsTable ==
    ASSUME TableType, TableConsistent, NEW i \in Indices, RemoveClientAt(i)
    PROVE  TableType' /\ TableConsistent'
<1> DEFINE n == Len(tab)
<1>0. Removed(i)
  BY RemoveEffect
<1>1. n \in Nat /\ n >= 1 /\ i \in 1..n
  BY Lookup DEF Indices
<1>2. TableType'
  <2>1. i \in Nat
    BY <1>1
  <2>2. DOMAIN byClient' \subseteq Ids /\ \A j \in DOMAIN byClient' : byClient'[j] \in Nat
    BY <1>0, <2>1 DEF Removed, TableType
  <2>3. DOMAIN byPeer' \subseteq Peers /\ \A p \in DOMAIN byPeer' : byPeer'[p] \in Nat
    BY <1>0, <2>1 DEF Removed, TableType
  <2> QED BY <1>0, <2>2, <2>3 DEF Removed, TableType
<1>3. Indices' = 1..(n - 1)
  BY <1>0 DEF Removed, Indices
\* Where the client now at k was before.
<1> DEFINE From(k) == IF k = i THEN n ELSE k
<1>4. \A k \in Indices' : From(k) \in Indices \ {i} /\ tab'[k] = tab[From(k)]
  BY <1>0, <1>1, <1>3 DEF Removed, Indices
<1>5. \A j \in Indices \ {i} : \E k \in Indices' : j = From(k)
  BY <1>1, <1>3 DEF Indices
<1>6. \A k \in Indices' : From(k) = n <=> k = i
  BY <1>1, <1>3
<1>7. n \in Indices
  BY <1>1 DEF Indices
<1> HIDE DEF n
<1>8. \A j, k \in Indices : tab[j].id = tab[k].id => j = k
  BY DEF TableConsistent
<1>9. \A j, k \in Indices : ~IsLocal(tab[j]) /\ tab[j].peer = tab[k].peer => j = k
  BY DEF TableConsistent, IsLocal
<1>10. DOMAIN byClient' = {tab'[k].id : k \in Indices'}
  <2>1. DOMAIN byClient' = {tab[j].id : j \in Indices \ {i}}
    BY <1>0, <1>8 DEF Removed, TableConsistent
  <2> HIDE DEF From
  <2> QED BY <2>1, <1>4, <1>5
<1>11. \A k \in Indices' : byClient'[tab'[k].id] = k
  <2> SUFFICES ASSUME NEW k \in Indices'
               PROVE  byClient'[tab'[k].id] = k
    OBVIOUS
  <2>1. tab'[k].id \in DOMAIN byClient'
    BY <1>10
  <2>2. From(k) \in Indices \ {i} /\ tab'[k] = tab[From(k)]
    BY <1>4
  <2>3. byClient[tab[From(k)].id] = From(k)
    BY <2>2 DEF TableConsistent
  <2>4. CASE k = i
    BY <1>0, <1>7, <2>1, <2>2, <2>4 DEF Removed, n
  <2>5. CASE k # i
    <3>1. From(k) = k /\ k # n
      BY <1>6, <2>5
    <3>2. tab[k].id # tab[n].id
      BY <1>7, <1>8, <2>2, <3>1
    <3> QED BY <1>0, <2>1, <2>2, <2>3, <3>1, <3>2 DEF Removed, n
  <2> QED BY <2>4, <2>5
<1>12. DOMAIN byPeer' = {tab'[k].peer : k \in {j \in Indices' : ~IsLocal(tab'[j])}}
  <2>1. DOMAIN byPeer' = {tab[j].peer : j \in {k \in Indices \ {i} : ~IsLocal(tab[k])}}
    <3>1. CASE IsLocal(tab[i])
      BY <1>0, <3>1 DEF Removed, TableConsistent
    <3>2. CASE ~IsLocal(tab[i])
      BY <1>0, <1>9, <3>2 DEF Removed, TableConsistent
    <3> QED BY <3>1, <3>2
  <2> HIDE DEF From
  <2> QED BY <2>1, <1>4, <1>5
<1>13. \A k \in Indices' : ~IsLocal(tab'[k]) => byPeer'[tab'[k].peer] = k
  <2> SUFFICES ASSUME NEW k \in Indices', ~IsLocal(tab'[k])
               PROVE  byPeer'[tab'[k].peer] = k
    OBVIOUS
  <2>1. tab'[k].peer \in DOMAIN byPeer'
    BY <1>12
  <2>2. From(k) \in Indices \ {i} /\ tab'[k] = tab[From(k)]
    BY <1>4
  <2>3. byPeer[tab[From(k)].peer] = From(k)
    BY <2>2 DEF TableConsistent
  <2>4. CASE k = i
    BY <1>0, <1>7, <2>1, <2>2, <2>4 DEF Removed, n
  <2>5. CASE k # i
    <3>1. From(k) = k /\ k # n
      BY <1>6, <2>5
    <3>2. tab[k].peer # tab[n].peer
      BY <1>7, <1>9, <2>2, <3>1
    <3> QED BY <1>0, <2>1, <2>2, <2>3, <3>1, <3>2 DEF Removed, n
  <2> QED BY <2>4, <2>5
<1> QED BY <1>2, <1>10, <1>11, <1>12, <1>13 DEF TableConsistent

\* An update in place: the clients keep their places, ids and peers.
InPlace ==
  /\ tab' \in Seq(ClientState)
  /\ Len(tab') = Len(tab)
  /\ \A k \in Indices : tab'[k].id = tab[k].id /\ tab'[k].peer = tab[k].peer
  /\ UNCHANGED <<byClient, byPeer, nextId>>

LEMMA InPlaceKeepsTable ==
    ASSUME TableType, TableConsistent, InPlace
    PROVE  TableType' /\ TableConsistent'
<1>1. Indices' = Indices
  BY DEF InPlace, Indices
<1>2. \A k \in Indices : IsLocal(tab'[k]) <=> IsLocal(tab[k])
  BY DEF InPlace, IsLocal
<1>3. TableType'
  BY DEF TableType, InPlace
<1> QED BY <1>1, <1>2, <1>3, SMTT(30) DEF TableConsistent, InPlace

\* What an entry is replaced by keeps its id and peer, the others stay.
LEMMA ReplacedInPlace ==
    ASSUME TableType, TableConsistent, NEW i \in Indices, NEW c \in ClientState,
           c.id = tab[i].id, c.peer = tab[i].peer,
           tab' = [tab EXCEPT ![i] = c],
           UNCHANGED <<byClient, byPeer, nextId>>
    PROVE  /\ InPlace
           /\ tab'[i] = c
           /\ \A k \in Indices \ {i} : tab'[k] = tab[k]
<1>1. tab \in Seq(ClientState) /\ i \in 1..Len(tab)
  BY DEF TableType, Indices
<1>2. /\ tab' \in Seq(ClientState) /\ Len(tab') = Len(tab)
      /\ \A j \in 1..Len(tab) : tab'[j] = IF j = i THEN c ELSE tab[j]
  BY <1>1, ExceptSeq
<1> QED BY <1>1, <1>2 DEF InPlace, Indices

\* So does a change of every entry.
LEMMA MappedInPlace ==
    ASSUME TableType, TableConsistent, NEW f,
           f \in [Indices -> ClientState],
           \A k \in Indices : f[k].id = tab[k].id /\ f[k].peer = tab[k].peer,
           tab' = f,
           UNCHANGED <<byClient, byPeer, nextId>>
    PROVE  InPlace
<1>1. Len(tab) \in Nat
  BY Lookup
<1>2. f \in Seq(ClientState) /\ Len(f) = Len(tab)
  BY <1>1 DEF Indices
<1> QED BY <1>2 DEF InPlace

--------------------------------------------------------------------------------
(* The inductive invariant. *)

\* The types of everything but the table.
RestType ==
  /\ phase \in Phases
  /\ cursor \in Nat
  /\ client \in [Peers -> ClientSide]
  /\ toServer \subseteq ToServer
  /\ inbound \subseteq ToServer
  /\ toClient \subseteq ToClient
  /\ heard \subseteq Peers
  /\ taken \in [Peers -> SUBSET Ids]

\* Between ticks no client is overdue; a sweep has none behind its cursor.
SweepInv ==
  /\ phase = "between" => \A k \in Indices : ~TimedOut(tab[k])
  /\ phase = "sweep" => /\ cursor \in 1..Len(tab) + 1
                        /\ \A k \in 1..cursor - 1 : ~TimedOut(tab[k])

\* Who was heard in this tick and has a session is not idle.
HeardInv ==
  /\ phase = "between" => heard = {}
  /\ \A p \in heard \cap DOMAIN byPeer : tab[byPeer[p]].idle = 0

\* Only ids a client was given come back in its acks.
GivenInv ==
  /\ \A m \in toClient : m.kind = "accept" => m.id \in Ids
  /\ \A m \in toServer \cup inbound : m.kind = "ack" => m.id \in taken[m.peer]
  /\ \A p \in Peers : client[p].id # NoId => client[p].id \in taken[p]

ConnInv ==
  /\ TableType /\ TableConsistent
  /\ RestType
  /\ SweepInv
  /\ HeardInv
  /\ GivenInv
  /\ ReadyWasTaken

\* A client that is not idle is not timed out.
LEMMA ActiveNotTimedOut ==
    ASSUME NEW c, c.idle = 0
    PROVE  ~TimedOut(c)
BY ConnectionAssumption DEF TimedOut

\* An update in place in which nobody becomes ready keeps ReadyWasTaken.
LEMMA InPlaceReady ==
    ASSUME TableType, TableConsistent, ReadyWasTaken, InPlace,
           \A k \in Indices : tab'[k].ready => tab[k].ready,
           taken' = taken
    PROVE  ReadyWasTaken'
<1>1. Indices' = Indices
  BY DEF InPlace, Indices
<1> QED BY <1>1 DEF ReadyWasTaken, InPlace, IsLocal

\* Adding a client that is ready only under an id its peer was given does too.
LEMMA AddReady ==
    ASSUME TableType, TableConsistent, ReadyWasTaken, NEW c \in ClientState, Added(c),
           \A p \in Peers : taken[p] \subseteq taken'[p],
           c.ready /\ ~IsLocal(c) => c.id \in taken'[c.peer]
    PROVE  ReadyWasTaken'
<1>1. Indices' = Indices \cup {Len(tab) + 1} /\ \A k \in Indices : tab'[k] = tab[k]
  BY Lookup DEF Added, Indices
<1>2. tab'[Len(tab) + 1] = c
  BY DEF Added
<1>3. \A k \in Indices : ~IsLocal(tab[k]) => tab[k].peer \in Peers
  BY Lookup DEF ClientState, IsLocal
<1> QED BY <1>1, <1>2, <1>3 DEF ReadyWasTaken, IsLocal

\* So does a removal.
LEMMA RemoveReady ==
    ASSUME TableType, TableConsistent, ReadyWasTaken, NEW i \in Indices, Removed(i),
           taken' = taken
    PROVE  ReadyWasTaken'
<1>1. \A k \in Indices' : \E j \in Indices : tab'[k] = tab[j]
  BY Lookup DEF Removed, Indices
<1> QED BY <1>1 DEF ReadyWasTaken, IsLocal

\* The clients that stay are the clients that were there.
LEMMA RemoveKeepsEntries ==
    ASSUME TableType, TableConsistent, NEW i \in Indices, Removed(i)
    PROVE  /\ \A k \in Indices' : \E j \in Indices \ {i} : tab'[k] = tab[j]
           /\ \A p \in DOMAIN byPeer' : p \in DOMAIN byPeer /\ tab'[byPeer'[p]] = tab[byPeer[p]]
<1>1. Len(tab) \in Nat /\ i \in 1..Len(tab)
  BY Lookup DEF Indices
<1>2. \A k \in Indices' : \E j \in Indices \ {i} : tab'[k] = tab[j]
  BY <1>1 DEF Removed, Indices
<1>3. ASSUME NEW p \in DOMAIN byPeer'
      PROVE  p \in DOMAIN byPeer /\ tab'[byPeer'[p]] = tab[byPeer[p]]
  <2>1. p \in DOMAIN byPeer /\ (IsLocal(tab[i]) \/ p # tab[i].peer)
    BY <1>3 DEF Removed
  <2>2. byPeer[p] \in Indices /\ tab[byPeer[p]].peer = p /\ p # Local
    BY <2>1, Lookup, ConnectionAssumption DEF TableType
  <2>3. byPeer[p] # i
    BY <2>1, <2>2 DEF IsLocal
  <2>4. CASE i # Len(tab) /\ p = tab[Len(tab)].peer
    <3>1. byPeer[p] = Len(tab)
      BY <1>1, <2>2, <2>4 DEF TableConsistent, Indices, IsLocal
    <3>2. byPeer'[p] = i
      BY <1>3, <2>4 DEF Removed
    <3> QED BY <1>1, <2>1, <2>4, <3>1, <3>2 DEF Removed
  <2>5. CASE ~(i # Len(tab) /\ p = tab[Len(tab)].peer)
    <3>1. byPeer'[p] = byPeer[p]
      BY <1>3, <2>5 DEF Removed
    <3>2. byPeer[p] # Len(tab)
      BY <2>2, <2>3, <2>5
    <3>3. byPeer[p] \in 1..Len(tab) - 1
      BY <1>1, <2>2, <3>2 DEF Indices
    <3> QED BY <2>1, <2>3, <3>1, <3>3 DEF Removed
  <2> QED BY <2>4, <2>5
<1> QED BY <1>2, <1>3

--------------------------------------------------------------------------------
(* The server's steps. *)

\* An entry with its timers reset is an entry of the same client.
LEMMA ResetEntry ==
    ASSUME NEW d \in ClientState, NEW c, c = [d EXCEPT !.idle = 0, !.acc = 0]
    PROVE  /\ c \in ClientState /\ c.id = d.id /\ c.peer = d.peer
           /\ c.ready = d.ready /\ c.idle = 0
<1>1. 0 \in 0..ResendInterval /\ 0 \in 0..IdleTimeout
  BY ConnectionAssumption
<1> QED BY <1>1 DEF ClientState

\* So is an entry somebody was heard of.
LEMMA HeardEntry ==
    ASSUME NEW d \in ClientState, NEW r \in BOOLEAN, NEW c,
           c = [d EXCEPT !.idle = 0, !.ready = r]
    PROVE  /\ c \in ClientState /\ c.id = d.id /\ c.peer = d.peer
           /\ c.ready = r /\ c.idle = 0
<1>1. 0 \in 0..IdleTimeout
  BY ConnectionAssumption
<1> QED BY <1>1 DEF ClientState

LEMMA TickBeginStep ==
    ASSUME ConnInv, TickBegin
    PROVE  ConnInv' /\ InPlace /\ \A k \in Indices : tab'[k].ready = tab[k].ready
<1> USE DEF ConnInv
<1> DEFINE f == [i \in Indices |->
                   IF IdleTimeout = 0 \/ IsLocal(tab[i]) THEN tab[i]
                   ELSE [tab[i] EXCEPT !.idle = UpTo(IdleTimeout, @ + 1)]]
<1>1. \A k \in Indices : tab[k] \in ClientState
  BY Lookup
<1>2. \A k \in Indices : UpTo(IdleTimeout, tab[k].idle + 1) \in 0..IdleTimeout
  <2>1. \A k \in Indices : tab[k].idle + 1 \in Nat
    BY <1>1, ConnectionAssumption DEF ClientState
  <2> QED BY <2>1, UpToType, ConnectionAssumption
<1>3. /\ f \in [Indices -> ClientState]
      /\ \A k \in Indices : f[k].id = tab[k].id /\ f[k].peer = tab[k].peer
                            /\ f[k].ready = tab[k].ready
  BY <1>1, <1>2 DEF ClientState
<1>4. tab' = f /\ UNCHANGED <<byClient, byPeer, nextId>>
  BY DEF TickBegin
<1> HIDE DEF f
<1>5. InPlace
  BY <1>3, <1>4, MappedInPlace
<1>6. TableType' /\ TableConsistent'
  BY <1>5, InPlaceKeepsTable
<1>7. ReadyWasTaken'
  BY <1>3, <1>4, <1>5, InPlaceReady DEF TickBegin
<1>8. RestType' /\ GivenInv'
  BY DEF TickBegin, RestType, GivenInv, Phases
<1>9. SweepInv' /\ HeardInv'
  BY DEF TickBegin, SweepInv, HeardInv
<1> QED BY <1>3, <1>4, <1>5, <1>6, <1>7, <1>8, <1>9

\* process_connect_request_packet for a peer with a session.
LEMMA RepeatResponseStep ==
    ASSUME ConnInv, NEW m \in inbound, ProcessPacket(m), RepeatResponse(m.peer)
    PROVE  ConnInv' /\ InPlace /\ \A k \in Indices : tab'[k].ready = tab[k].ready
<1> USE DEF ConnInv
<1> DEFINE i == byPeer[m.peer]
           c == [tab[i] EXCEPT !.idle = 0, !.acc = 0]
<1>1. m.peer \in Peers /\ m.peer \in DOMAIN byPeer
  BY DEF RestType, ToServer, RepeatResponse
<1>2. i \in Indices /\ tab[i] \in ClientState /\ tab[i].peer = m.peer
  BY <1>1, Lookup
<1>3. /\ c \in ClientState /\ c.id = tab[i].id /\ c.peer = tab[i].peer /\ c.ready = tab[i].ready
      /\ c.idle = 0
  <2>1. c = [tab[i] EXCEPT !.idle = 0, !.acc = 0]
    OBVIOUS
  <2> HIDE DEF c, i
  <2> QED BY <1>2, <2>1, ResetEntry
<1>4. tab' = [tab EXCEPT ![i] = c] /\ UNCHANGED <<byClient, byPeer, nextId>>
  BY DEF RepeatResponse
<1> HIDE DEF c
<1>5. InPlace /\ tab'[i] = c /\ \A k \in Indices \ {i} : tab'[k] = tab[k]
  <2> HIDE DEF i
  <2> QED BY <1>2, <1>3, <1>4, ReplacedInPlace
<1>6. TableType' /\ TableConsistent'
  BY <1>5, InPlaceKeepsTable
<1>7. \A k \in Indices : tab'[k].ready = tab[k].ready
  BY <1>3, <1>5
<1>8. ReadyWasTaken'
  BY <1>5, <1>7, InPlaceReady DEF ProcessPacket
<1>9. toClient' \subseteq toClient \cup {Message(m.peer, "accept", tab[i].id)}
  BY SentBounded DEF RepeatResponse
<1>10. tab[i].id \in Ids
  BY <1>2 DEF ClientState
<1>11. RestType'
  <2>1. Message(m.peer, "accept", tab[i].id) \in ToClient
    BY <1>1, <1>10, ConnectionAssumption DEF ToClient, Message, Ids
  <2> QED BY <1>1, <1>9, <2>1 DEF ProcessPacket, RestType
<1>12. GivenInv'
  BY <1>9, <1>10 DEF ProcessPacket, GivenInv, Message
<1>13. SweepInv'
  BY DEF ProcessPacket, SweepInv
<1>14. HeardInv'
  <2>1. \A p \in DOMAIN byPeer : tab'[byPeer[p]] = IF p = m.peer THEN c ELSE tab[byPeer[p]]
    BY <1>1, <1>2, <1>5, Lookup
  <2> QED BY <1>3, <1>4, <2>1 DEF ProcessPacket, HeardInv
<1> QED BY <1>5, <1>6, <1>7, <1>8, <1>11, <1>12, <1>13, <1>14

\* A message of a peer with a session, an ack of its id among them.
LEMMA ConnectedMessageStep ==
    ASSUME ConnInv, NEW m \in inbound, ProcessPacket(m), ConnectedMessage(m)
    PROVE  /\ ConnInv' /\ InPlace
           /\ \E i \in Indices : /\ tab[i].ready => tab'[i].ready
                                 /\ \A k \in Indices \ {i} : tab'[k] = tab[k]
<1> USE DEF ConnInv
<1> DEFINE i == byPeer[m.peer]
<1>1. m.peer \in Peers /\ m.peer \in DOMAIN byPeer
  BY DEF RestType, ToServer, ConnectedMessage
<1>2. i \in Indices /\ tab[i] \in ClientState /\ tab[i].peer = m.peer
  BY <1>1, Lookup
<1>3. PICK r \in BOOLEAN : /\ tab' = [tab EXCEPT ![i] = [tab[i] EXCEPT !.idle = 0, !.ready = r]]
                           /\ r => tab[i].ready \/ (m.kind = "ack" /\ m.id = tab[i].id)
                           /\ tab[i].ready => r
  <2> DEFINE q == tab[i].ready \/ (m.kind = "ack" /\ AckMatches(tab[i], m.id))
  <2>1. q \in BOOLEAN
    BY <1>2 DEF ClientState
  <2>2. tab' = [tab EXCEPT ![i] = [tab[i] EXCEPT !.idle = 0, !.ready = q]]
    BY DEF ConnectedMessage
  <2>3. q => tab[i].ready \/ (m.kind = "ack" /\ m.id = tab[i].id)
    BY DEF AckMatches
  <2>4. tab[i].ready => q
    OBVIOUS
  <2> HIDE DEF q
  <2> QED BY <2>1, <2>2, <2>3, <2>4
<1> DEFINE c == [tab[i] EXCEPT !.idle = 0, !.ready = r]
<1>4. tab' = [tab EXCEPT ![i] = c] /\ UNCHANGED <<byClient, byPeer, nextId>>
  BY <1>3 DEF ConnectedMessage
<1>5. r => tab[i].ready \/ (m.kind = "ack" /\ m.id = tab[i].id)
  BY <1>3
<1>6. tab[i].ready => r
  BY <1>3
<1>7. /\ c \in ClientState /\ c.id = tab[i].id /\ c.peer = tab[i].peer /\ c.ready = r
      /\ c.idle = 0
  <2> DEFINE d == tab[i]
  <2>1. d \in ClientState
    BY <1>2
  <2> HIDE DEF d
  <2>2. \A b \in BOOLEAN : [d EXCEPT !.idle = 0, !.ready = b] \in ClientState
    BY <2>1, HeardEntry
  <2>3. c = [d EXCEPT !.idle = 0, !.ready = r]
    BY DEF d
  <2>4. c \in ClientState
    BY <2>2, <2>3
  <2>5. c.id = d.id /\ c.peer = d.peer /\ c.idle = 0
    BY <2>1 DEF ClientState, d
  <2>6. c.ready = r
    BY <2>1 DEF ClientState, d
  <2> QED BY <2>4, <2>5, <2>6 DEF d
<1> HIDE DEF c
<1>8. InPlace /\ tab'[i] = c /\ \A k \in Indices \ {i} : tab'[k] = tab[k]
  <2> HIDE DEF i
  <2> QED BY <1>2, <1>4, <1>7, ReplacedInPlace
<1>9. TableType' /\ TableConsistent'
  BY <1>8, InPlaceKeepsTable
<1>10. ReadyWasTaken'
  <2>1. Indices' = Indices /\ taken' = taken
    BY <1>8 DEF InPlace, Indices, ProcessPacket
  <2>2. tab'[i].ready /\ ~IsLocal(tab'[i]) => tab'[i].id \in taken[tab'[i].peer]
    BY <1>2, <1>5, <1>7, <1>8 DEF GivenInv, ReadyWasTaken, IsLocal
  <2> QED BY <1>8, <2>1, <2>2 DEF ReadyWasTaken
<1>11. RestType' /\ GivenInv'
  BY <1>1 DEF ProcessPacket, ConnectedMessage, RestType, GivenInv
<1>12. SweepInv'
  BY DEF ProcessPacket, SweepInv
<1>13. HeardInv'
  <2>1. \A p \in DOMAIN byPeer : tab'[byPeer[p]] = IF p = m.peer THEN c ELSE tab[byPeer[p]]
    BY <1>1, <1>2, <1>8, Lookup
  <2> QED BY <1>4, <1>7, <2>1 DEF ProcessPacket, HeardInv
<1> QED BY <1>2, <1>6, <1>7, <1>8, <1>9, <1>10, <1>11, <1>12, <1>13

\* A new entry is an entry.
LEMMA NewEntry ==
    ASSUME NEW i \in Ids, NEW p \in Peers \cup {Local}, NEW acc \in 0..ResendInterval
    PROVE  /\ NewClientState(i, p, TRUE, acc) \in ClientState
           /\ NewClientState(i, p, FALSE, acc) \in ClientState
BY ConnectionAssumption DEF NewClientState, ClientState

\* Who was heard stays active while a client without idle time is added.
LEMMA AddHeard ==
    ASSUME TableType, TableConsistent, HeardInv, NEW c \in ClientState, Added(c), c.idle = 0,
           heard' \subseteq heard \cup {c.peer}, phase' = "between" => heard' = {}
    PROVE  HeardInv'
<1>1. Len(tab) \in Nat
  BY Lookup
<1>2. \A p \in DOMAIN byPeer : tab'[byPeer[p]] = tab[byPeer[p]]
  BY Lookup DEF Added, Indices
<1>3. ASSUME NEW p \in heard' \cap DOMAIN byPeer'
      PROVE  tab'[byPeer'[p]].idle = 0
  <2>1. CASE ~IsLocal(c) /\ p = c.peer
    BY <2>1 DEF Added
  <2>2. CASE IsLocal(c) \/ p # c.peer
    <3>1. p \in DOMAIN byPeer /\ byPeer'[p] = byPeer[p]
      BY <1>3, <2>2 DEF Added
    <3>2. p # c.peer
      BY <2>2, <3>1, ConnectionAssumption DEF TableType, IsLocal
    <3> QED BY <1>2, <1>3, <3>1, <3>2 DEF HeardInv
  <2> QED BY <2>1, <2>2
<1> QED BY <1>3 DEF HeardInv

\* process_connect_request_packet for a peer without a session.
LEMMA AnswerRequestStep ==
    ASSUME ConnInv, NEW m \in inbound, ProcessPacket(m), NEW i, AnswerRequest(m.peer, i)
    PROVE  /\ ConnInv'
           /\ \/ UNCHANGED <<tab, byClient, byPeer>>
              \/ \E c \in ClientState : CanAdd(c.id, c.peer) /\ AddClientState(c)
<1> USE DEF ConnInv
<1>1. m.peer \in Peers /\ m.peer \notin DOMAIN byPeer /\ m.peer # Local
  BY ConnectionAssumption DEF RestType, ToServer, AnswerRequest
<1>2. /\ phase' = "packets" /\ heard' = heard \cup {m.peer} /\ inbound' = inbound \ {m}
      /\ UNCHANGED <<cursor, client, toServer, taken>>
  BY DEF ProcessPacket
<1>3. SweepInv'
  BY <1>2 DEF SweepInv
<1>4. \/ toClient' = toClient
      \/ toClient' \subseteq toClient \cup {Message(m.peer, "reject", NoId)}
      \/ i \in Ids /\ toClient' \subseteq toClient \cup {Message(m.peer, "accept", i)}
  <2>1. CASE i \notin Ids /\ toClient' = Sent(toClient, {Message(m.peer, "reject", NoId)})
    BY <2>1, SentBounded
  <2>2. CASE i \in Ids /\ toClient' = Sent(toClient, {Message(m.peer, "accept", i)})
    BY <2>2, SentBounded
  <2>3. CASE toClient' = toClient
    BY <2>3
  <2> QED BY <2>1, <2>2, <2>3, Zenon DEF AnswerRequest, CanAdd
<1>5. RestType'
  <2>1. Message(m.peer, "reject", NoId) \in ToClient
    BY <1>1, ConnectionAssumption DEF Message, ToClient, NoId
  <2>2. i \in Ids => Message(m.peer, "accept", i) \in ToClient
    BY <1>1, ConnectionAssumption DEF Message, ToClient, Ids
  <2>3. toClient' \subseteq ToClient
    BY <1>4, <2>1, <2>2 DEF RestType
  <2> QED BY <1>1, <1>2, <2>3 DEF RestType, Phases
<1>6. GivenInv'
  <2>1. \A n \in toClient' : n.kind = "accept" => n.id \in Ids
    BY <1>4 DEF GivenInv, Message
  <2> QED BY <1>2, <2>1 DEF GivenInv
<1>7. CASE UNCHANGED <<tab, byClient, byPeer, nextId>>
  <2>1. TableType' /\ TableConsistent' /\ ReadyWasTaken'
    BY <1>2, <1>7 DEF TableType, TableConsistent, ReadyWasTaken, Indices
  <2>2. HeardInv'
    BY <1>1, <1>2, <1>7 DEF HeardInv
  <2> QED BY <1>3, <1>5, <1>6, <1>7, <2>1, <2>2
<1>8. CASE CanAdd(i, m.peer) /\ AddClientState(NewClientState(i, m.peer, FALSE, 0))
  <2> DEFINE c == NewClientState(i, m.peer, FALSE, 0)
  <2>1. i \in Ids
    BY <1>8 DEF CanAdd
  <2>2. c \in ClientState
    <3>1. 0 \in 0..ResendInterval /\ m.peer \in Peers \cup {Local}
      BY <1>1, ConnectionAssumption
    <3> QED BY <2>1, <3>1, NewEntry
  <2>3. c.id = i /\ c.peer = m.peer /\ c.idle = 0 /\ c.ready = FALSE
    BY DEF NewClientState
  <2>4. CanAdd(c.id, c.peer) /\ AddClientState(c)
    BY <1>8, <2>3
  <2> HIDE DEF c
  <2>5. Added(c)
    BY <2>2, <2>4, AddEffect
  <2>6. TableType' /\ TableConsistent'
    BY <2>2, <2>4, AddKeepsTable
  <2>7. ReadyWasTaken'
    BY <1>2, <2>2, <2>3, <2>5, AddReady
  <2>8. HeardInv'
    BY <1>2, <2>2, <2>3, <2>5, AddHeard
  <2> QED BY <1>3, <1>5, <1>6, <2>2, <2>4, <2>6, <2>7, <2>8
<1> QED BY <1>7, <1>8 DEF AnswerRequest

\* A message of an unknown peer changes nothing.
LEMMA UnknownPeerStep ==
    ASSUME ConnInv, NEW m \in inbound, ProcessPacket(m), UnknownPeer(m)
    PROVE  ConnInv' /\ UNCHANGED <<tab, byClient, byPeer>>
<1> USE DEF ConnInv
<1>1. m.peer \in Peers /\ m.peer \notin DOMAIN byPeer
  BY DEF RestType, ToServer, UnknownPeer
<1>2. TableType' /\ TableConsistent' /\ ReadyWasTaken'
  BY DEF UnknownPeer, ProcessPacket, TableType, TableConsistent, ReadyWasTaken, Indices
<1>3. RestType' /\ GivenInv'
  BY <1>1 DEF UnknownPeer, ProcessPacket, RestType, GivenInv
<1>4. SweepInv' /\ HeardInv'
  BY <1>1 DEF UnknownPeer, ProcessPacket, SweepInv, HeardInv
<1> QED BY <1>2, <1>3, <1>4 DEF UnknownPeer

LEMMA ResendStep ==
    ASSUME ConnInv, ResendConnectResponses
    PROVE  ConnInv' /\ InPlace /\ \A k \in Indices : tab'[k].ready = tab[k].ready
<1> USE DEF ConnInv
<1> DEFINE f == [i \in Indices |->
                   IF i \in Due THEN [tab[i] EXCEPT !.acc = 0]
                   ELSE IF i \in Pending THEN [tab[i] EXCEPT !.acc = @ + 1] ELSE tab[i]]
<1>1. \A k \in Indices : tab[k] \in ClientState
  BY Lookup
<1>2. \A k \in Pending \ Due : tab[k].acc + 1 \in 0..ResendInterval
  BY <1>1, ConnectionAssumption DEF ClientState, Pending, Due
<1>3. 0 \in 0..ResendInterval
  BY ConnectionAssumption
<1>4. /\ f \in [Indices -> ClientState]
      /\ \A k \in Indices : f[k].id = tab[k].id /\ f[k].peer = tab[k].peer
                            /\ f[k].ready = tab[k].ready /\ f[k].idle = tab[k].idle
  BY <1>1, <1>2, <1>3 DEF ClientState
<1>5. tab' = f /\ UNCHANGED <<byClient, byPeer, nextId>>
  BY DEF ResendConnectResponses
<1> HIDE DEF f
<1>6. InPlace
  BY <1>4, <1>5, MappedInPlace
<1>7. TableType' /\ TableConsistent'
  BY <1>6, InPlaceKeepsTable
<1>8. ReadyWasTaken'
  BY <1>4, <1>5, <1>6, InPlaceReady DEF ResendConnectResponses
<1>9. toClient' \subseteq toClient \cup {Message(tab[i].peer, "accept", tab[i].id) : i \in Due}
  BY SentBounded DEF ResendConnectResponses
<1>10. \A i \in Due : tab[i].peer \in Peers /\ tab[i].id \in Ids
  BY <1>1 DEF Due, Pending, ClientState, IsLocal
<1>11. RestType'
  <2>1. \A i \in Due : Message(tab[i].peer, "accept", tab[i].id) \in ToClient
    BY <1>10, ConnectionAssumption DEF Message, ToClient, Ids
  <2>2. toClient' \subseteq ToClient
    BY <1>9, <2>1 DEF RestType
  <2> QED BY <2>2 DEF ResendConnectResponses, RestType, Phases
<1>12. GivenInv'
  BY <1>9, <1>10 DEF ResendConnectResponses, GivenInv, Message
<1>13. SweepInv'
  <2>1. Len(tab') \in Nat
    BY <1>6, Lookup DEF InPlace
  <2> QED BY <2>1 DEF ResendConnectResponses, SweepInv
<1>14. HeardInv'
  BY <1>4, <1>5, Lookup DEF ResendConnectResponses, HeardInv
<1> QED BY <1>4, <1>5, <1>6, <1>7, <1>8, <1>11, <1>12, <1>13, <1>14

\* disconnect_timed_out_clients, at one index.
LEMMA DisconnectStep ==
    ASSUME ConnInv, DisconnectTimedOut
    PROVE  /\ ConnInv'
           /\ \/ UNCHANGED <<tab, byClient, byPeer>>
              \/ cursor \in Indices /\ TimedOut(tab[cursor]) /\ RemoveClientAt(cursor)
<1> USE DEF ConnInv
<1>1. cursor \in Indices /\ Len(tab) \in Nat
  BY Lookup DEF DisconnectTimedOut
<1>2. phase = "sweep" /\ UNCHANGED <<phase, client, toServer, inbound, toClient, heard, taken>>
  BY DEF DisconnectTimedOut
<1>3. RestType'
  <2>1. cursor' \in Nat
    BY <1>1 DEF DisconnectTimedOut, CursorAfterRemoval, Indices
  <2> QED BY <1>2, <2>1 DEF RestType
<1>4. GivenInv'
  BY <1>2 DEF GivenInv
<1>5. CASE TimedOut(tab[cursor]) /\ RemoveClientAt(cursor) /\ cursor' = cursor
  <2>1. Removed(cursor)
    BY <1>1, <1>5, RemoveEffect
  <2>2. TableType' /\ TableConsistent'
    BY <1>1, <1>5, RemoveKeepsTable
  <2>3. ReadyWasTaken'
    BY <1>1, <1>2, <2>1, RemoveReady
  <2>4. SweepInv'
    <3>1. cursor \in 1..Len(tab) /\ \A k \in 1..cursor - 1 : ~TimedOut(tab[k])
      BY <1>1, <1>2 DEF SweepInv, Indices
    <3>2. Len(tab') = Len(tab) - 1 /\ \A k \in 1..cursor - 1 : tab'[k] = tab[k]
      BY <1>1, <2>1, <3>1 DEF Removed
    <3>3. \A k \in 1..cursor - 1 : ~TimedOut(tab'[k])
      BY <3>1, <3>2
    <3>4. cursor \in 1..Len(tab') + 1
      BY <1>1, <3>1, <3>2
    <3> QED BY <1>2, <1>5, <3>3, <3>4 DEF SweepInv, TimedOut, IsLocal
  <2>5. HeardInv'
    BY <1>1, <1>2, <2>1, RemoveKeepsEntries DEF HeardInv
  <2> QED BY <1>1, <1>3, <1>4, <1>5, <2>2, <2>3, <2>4, <2>5
<1>6. CASE ~TimedOut(tab[cursor]) /\ cursor' = cursor + 1
           /\ UNCHANGED <<tab, byClient, byPeer, nextId>>
  <2>1. TableType' /\ TableConsistent' /\ ReadyWasTaken' /\ HeardInv'
    BY <1>2, <1>6, SMTT(30) DEF TableType, TableConsistent, ReadyWasTaken, HeardInv, Indices
  <2>2. SweepInv'
    <3>1. cursor \in 1..Len(tab) /\ \A k \in 1..cursor : ~TimedOut(tab[k])
      BY <1>1, <1>2, <1>6 DEF SweepInv, Indices
    <3> QED BY <1>1, <1>2, <1>6, <3>1 DEF SweepInv, TimedOut, IsLocal
  <2> QED BY <1>3, <1>4, <1>6, <2>1, <2>2
<1> QED BY <1>5, <1>6 DEF DisconnectTimedOut, CursorAfterRemoval

\* The end of the tick.
LEMMA BroadcastStep ==
    ASSUME ConnInv, BroadcastUpdates
    PROVE  ConnInv' /\ UNCHANGED <<tab, byClient, byPeer>>
<1> USE DEF ConnInv
<1>1. TableType' /\ TableConsistent' /\ ReadyWasTaken'
  BY DEF BroadcastUpdates, TableType, TableConsistent, ReadyWasTaken, Indices
<1>2. SweepInv'
  <2>1. Len(tab) \in Nat /\ cursor \in 1..Len(tab) + 1 /\ cursor \notin 1..Len(tab)
    BY Lookup DEF BroadcastUpdates, SweepInv, Indices
  <2>2. cursor = Len(tab) + 1
    BY <2>1
  <2>3. \A k \in 1..Len(tab) : ~TimedOut(tab[k])
    BY <2>1, <2>2 DEF BroadcastUpdates, SweepInv
  <2> QED BY <2>3 DEF BroadcastUpdates, SweepInv, TimedOut, IsLocal, Indices
<1>3. HeardInv'
  BY DEF BroadcastUpdates, HeardInv
<1> DEFINE msgs == {Message(tab[i].peer, "update", NoId) :
                      i \in {j \in Indices : tab[j].ready /\ ~IsLocal(tab[j])}}
<1>4. toClient' \subseteq toClient \cup msgs
  BY SentBounded DEF BroadcastUpdates
<1>5. msgs \subseteq ToClient /\ \A m \in msgs : m.kind = "update"
  <2>1. \A j \in Indices : ~IsLocal(tab[j]) => tab[j].peer \in Peers
    BY Lookup DEF ClientState, IsLocal
  <2>2. NoId \in 0..MaxId
    BY ConnectionAssumption DEF NoId
  <2> QED BY <2>1, <2>2 DEF Message, ToClient
<1> HIDE DEF msgs
<1>6. RestType'
  BY <1>4, <1>5 DEF BroadcastUpdates, RestType, Phases
<1>7. GivenInv'
  BY <1>4, <1>5 DEF BroadcastUpdates, GivenInv
<1> QED BY <1>1, <1>2, <1>3, <1>6, <1>7 DEF BroadcastUpdates

\* A client that is added between ticks, without idle time.
LEMMA AddBetween ==
    ASSUME ConnInv, phase = "between", NEW c \in ClientState, CanAdd(c.id, c.peer),
           AddClientState(c), c.idle = 0,
           UNCHANGED <<phase, cursor, toServer, inbound, toClient, heard>>,
           \A p \in Peers : taken[p] \subseteq taken'[p],
           c.ready /\ ~IsLocal(c) => c.id \in taken'[c.peer]
    PROVE  TableType' /\ TableConsistent' /\ SweepInv' /\ HeardInv' /\ ReadyWasTaken'
<1> USE DEF ConnInv
<1>1. Added(c)
  BY AddEffect
<1>2. TableType' /\ TableConsistent'
  BY AddKeepsTable
<1>3. ReadyWasTaken'
  BY <1>1, AddReady
<1>4. HeardInv'
  BY <1>1, AddHeard DEF HeardInv
<1>5. SweepInv'
  <2>1. Indices' = Indices \cup {Len(tab) + 1} /\ \A k \in Indices : tab'[k] = tab[k]
    BY <1>1, Lookup DEF Added, Indices
  <2>2. tab'[Len(tab) + 1] = c /\ ~TimedOut(c)
    BY <1>1, ActiveNotTimedOut DEF Added
  <2>3. \A k \in Indices' : ~TimedOut(tab'[k])
    BY <2>1, <2>2 DEF SweepInv
  <2> QED BY <2>3 DEF SweepInv, TimedOut, IsLocal
<1> QED BY <1>2, <1>3, <1>4, <1>5

\* add_client
LEMMA AddClientStep ==
    ASSUME ConnInv, NEW i \in Ids, NEW p \in Peers, AddClient(i, p)
    PROVE  ConnInv' /\ \E c \in ClientState : CanAdd(c.id, c.peer) /\ AddClientState(c)
<1> USE DEF ConnInv
<1> DEFINE c == NewClientState(i, p, TRUE, ResendInterval)
<1>1. c \in ClientState
  <2>1. ResendInterval \in 0..ResendInterval
    BY ConnectionAssumption
  <2> QED BY <2>1, NewEntry
<1>2. c.id = i /\ c.peer = p /\ c.idle = 0
  BY DEF NewClientState
<1>3. CanAdd(c.id, c.peer) /\ AddClientState(c)
  BY <1>2 DEF AddClient
<1> HIDE DEF c
<1>4. taken' = [taken EXCEPT ![p] = @ \cup {i}] /\ taken \in [Peers -> SUBSET Ids]
  BY DEF AddClient, RestType
<1>5. (\A q \in Peers : taken[q] \subseteq taken'[q]) /\ i \in taken'[p]
  BY <1>4
<1>6. phase = "between" /\ UNCHANGED <<phase, cursor, toServer, inbound, toClient, heard>>
  BY DEF AddClient
<1>7. TableType' /\ TableConsistent' /\ SweepInv' /\ HeardInv' /\ ReadyWasTaken'
  BY <1>1, <1>2, <1>3, <1>5, <1>6, AddBetween
<1>8. client' = [client EXCEPT ![p].state = "Ready", ![p].id = i]
  BY DEF AddClient
<1>9. RestType'
  <2>1. client' \in [Peers -> ClientSide]
    <3>1. client[p] \in ClientSide /\ i \in 0..MaxId
      BY ConnectionAssumption DEF RestType, Ids
    <3>2. [client[p] EXCEPT !.state = "Ready", !.id = i] \in ClientSide
      BY <3>1 DEF ClientSide, States
    <3> QED BY <1>8, <3>2 DEF RestType
  <2>2. taken' \in [Peers -> SUBSET Ids]
    BY <1>4
  <2> QED BY <1>6, <2>1, <2>2 DEF RestType
<1>10. GivenInv'
  <2>1. \A q \in Peers : client'[q].id # NoId => client'[q].id \in taken'[q]
    BY <1>5, <1>8 DEF GivenInv, RestType, ClientSide
  <2>2. \A m \in toServer \cup inbound : m.peer \in Peers
    BY DEF RestType, ToServer
  <2> QED BY <1>5, <1>6, <2>1, <2>2 DEF GivenInv
<1> QED BY <1>1, <1>3, <1>7, <1>9, <1>10

\* add_local_client
LEMMA AddLocalClientStep ==
    ASSUME ConnInv, AddLocalClient
    PROVE  ConnInv' /\ \E c \in ClientState : CanAdd(c.id, c.peer) /\ AddClientState(c)
<1> USE DEF ConnInv
<1> DEFINE i == FindNextAvailableClientId
           c == NewClientState(i, Local, TRUE, ResendInterval)
<1>1. i \in Ids /\ i \notin DOMAIN byClient
  BY NextAvailableIsFree DEF AddLocalClient, TableType
<1> HIDE DEF i
<1>2. c \in ClientState
  <2>1. ResendInterval \in 0..ResendInterval
    BY ConnectionAssumption
  <2> QED BY <1>1, <2>1, NewEntry
<1>3. c.id = i /\ c.peer = Local /\ c.idle = 0 /\ IsLocal(c)
  BY DEF NewClientState, IsLocal
<1>4. CanAdd(c.id, c.peer) /\ AddClientState(c)
  BY <1>1, <1>3 DEF AddLocalClient, CanAdd, i
<1> HIDE DEF c
<1>5. phase = "between" /\ UNCHANGED <<phase, cursor, client, toServer, inbound, toClient, heard, taken>>
  BY DEF AddLocalClient
<1>6. TableType' /\ TableConsistent' /\ SweepInv' /\ HeardInv' /\ ReadyWasTaken'
  BY <1>2, <1>3, <1>4, <1>5, AddBetween
<1>7. RestType' /\ GivenInv'
  BY <1>5 DEF RestType, GivenInv
<1> QED BY <1>2, <1>4, <1>6, <1>7

\* remove_client
LEMMA RemoveClientStep ==
    ASSUME ConnInv, NEW i \in DOMAIN byClient, RemoveClient(i)
    PROVE  ConnInv' /\ \E k \in Indices : RemoveClientAt(k)
<1> USE DEF ConnInv
<1> DEFINE k == byClient[i]
<1>1. k \in Indices /\ RemoveClientAt(k)
  BY Lookup DEF RemoveClient
<1>2. phase = "between" /\ UNCHANGED <<phase, cursor, client, toServer, inbound, toClient, heard, taken>>
  BY DEF RemoveClient
<1> HIDE DEF k
<1>3. Removed(k)
  BY <1>1, RemoveEffect
<1>4. TableType' /\ TableConsistent'
  BY <1>1, RemoveKeepsTable
<1>5. ReadyWasTaken'
  BY <1>1, <1>2, <1>3, RemoveReady
<1>6. SweepInv'
  <2>1. \A j \in Indices' : \E n \in Indices : tab'[j] = tab[n]
    BY <1>1, <1>3, RemoveKeepsEntries
  <2>2. \A j \in Indices' : ~TimedOut(tab'[j])
    BY <1>2, <2>1 DEF SweepInv
  <2> QED BY <1>2, <2>2 DEF SweepInv, TimedOut, IsLocal
<1>7. HeardInv'
  BY <1>2 DEF HeardInv
<1>8. RestType' /\ GivenInv'
  BY <1>2 DEF RestType, GivenInv
<1> QED BY <1>1, <1>4, <1>5, <1>6, <1>7, <1>8

--------------------------------------------------------------------------------
(* The client's and the network's steps. *)

\* A step that leaves the server alone.
LEMMA ServerIdle ==
    ASSUME ConnInv, UNCHANGED <<phase, cursor, tab, byClient, byPeer, nextId, heard>>,
           \A p \in Peers : taken[p] \subseteq taken'[p]
    PROVE  TableType' /\ TableConsistent' /\ SweepInv' /\ HeardInv' /\ ReadyWasTaken'
<1>1. TableType' /\ TableConsistent' /\ HeardInv'
  BY DEF ConnInv, TableType, TableConsistent, HeardInv, Indices
<1>2. SweepInv'
  BY DEF ConnInv, SweepInv, TimedOut, IsLocal, Indices
<1>3. \A k \in Indices : ~IsLocal(tab[k]) => tab[k].peer \in Peers
  BY Lookup DEF ConnInv, ClientState, IsLocal
<1>4. ReadyWasTaken'
  BY <1>3 DEF ConnInv, ReadyWasTaken, IsLocal, Indices
<1> QED BY <1>1, <1>2, <1>4

\* receive_connect_response and receive_entity_update
LEMMA ClientReceiveStep ==
    ASSUME ConnInv, NEW m \in toClient, ClientReceive(m)
    PROVE  ConnInv'
<1> USE DEF ConnInv
<1>1. m \in ToClient /\ m.peer \in Peers
  BY DEF RestType, ToClient
<1>2. /\ client' = [client EXCEPT ![m.peer] = Received(@, m)]
      /\ toClient' \subseteq toClient
      /\ taken' = [taken EXCEPT ![m.peer] = IF m.kind = "accept" THEN @ \cup {m.id} ELSE @]
      /\ UNCHANGED <<phase, cursor, tab, byClient, byPeer, nextId, toServer, inbound, heard>>
  BY DEF ClientReceive
<1>3. taken' \in [Peers -> SUBSET Ids] /\ \A p \in Peers : taken[p] \subseteq taken'[p]
  BY <1>1, <1>2 DEF RestType, GivenInv
<1>4. TableType' /\ TableConsistent' /\ SweepInv' /\ HeardInv' /\ ReadyWasTaken'
  BY <1>2, <1>3, ServerIdle
<1>5. Received(client[m.peer], m) \in ClientSide
  <2>1. client[m.peer] \in ClientSide /\ NoId \in 0..MaxId /\ ResendInterval \in 0..ResendInterval
    BY <1>1, ConnectionAssumption DEF RestType, NoId
  <2>2. CASE m.kind = "reject"
    BY <2>1, <2>2 DEF Received, ClientSide, States
  <2>3. CASE m.kind = "accept"
    BY <1>1, <2>1, <2>3 DEF Received, ClientSide, States, ToClient
  <2>4. CASE m.kind = "update"
    BY <2>1, <2>4 DEF Received, ClientSide, States
  <2> QED BY <1>1, <2>2, <2>3, <2>4 DEF ToClient
<1>6. RestType'
  BY <1>1, <1>2, <1>3, <1>5 DEF RestType
<1>7. \A p \in Peers : client'[p].id # NoId => client'[p].id \in taken'[p]
  <2>1. CASE m.kind = "reject"
    BY <1>1, <1>2, <2>1 DEF Received, RestType, ClientSide, GivenInv
  <2>2. CASE m.kind = "accept"
    BY <1>1, <1>2, <2>2 DEF Received, RestType, ClientSide, GivenInv
  <2>3. CASE m.kind = "update"
    BY <1>1, <1>2, <2>3 DEF Received, RestType, ClientSide, GivenInv
  <2> QED BY <1>1, <2>1, <2>2, <2>3 DEF ToClient
<1>8. GivenInv'
  <2>1. \A n \in toServer \cup inbound : n.peer \in Peers
    BY DEF RestType, ToServer
  <2> QED BY <1>2, <1>3, <1>7, <2>1 DEF GivenInv
<1> QED BY <1>4, <1>6, <1>8

\* A client whose accumulator moved is a client.
LEMMA TickedClient ==
    ASSUME NEW c \in ClientSide, NEW a \in 0..ResendInterval, NEW b \in BOOLEAN
    PROVE  /\ [c EXCEPT !.acc = a, !.asked = b] \in ClientSide
           /\ [c EXCEPT !.acc = a, !.asked = b].id = c.id
BY DEF ClientSide

\* The client's tick: requests, acks and pings.
LEMMA ClientTickStep ==
    ASSUME ConnInv, NEW p \in Peers, ClientTick(p)
    PROVE  ConnInv'
<1> USE DEF ConnInv
<1> DEFINE n == UpTo(ResendInterval, client[p].acc + 1)
           sent == ConnectPackets(p, n)
<1>1. client[p] \in ClientSide /\ client[p].acc + 1 \in Nat
  BY ConnectionAssumption DEF RestType, ClientSide
<1>2. n \in 0..ResendInterval
  BY <1>1, UpToType, ConnectionAssumption
<1>3. \A m \in sent : /\ m \in ToServer
                      /\ m.kind = "ack" => m.id \in taken[m.peer]
  <2>1. Message(p, "request", NoId) \in ToServer
    BY ConnectionAssumption DEF Message, ToServer, NoId
  <2>2. Message(p, "ack", client[p].id) \in ToServer
    BY <1>1 DEF Message, ToServer, ClientSide
  <2>3. client[p].id # NoId => client[p].id \in taken[p]
    BY DEF GivenInv
  <2> HIDE DEF n
  <2> QED BY <2>1, <2>2, <2>3 DEF ConnectPackets, Message
<1>4. PICK pings \in PingPackets(p) : toServer' = Sent(toServer, sent \cup pings)
  BY DEF ClientTick
<1>5. \A m \in pings : m \in ToServer /\ m.kind # "ack"
  <2>1. Message(p, "ping", NoId) \in ToServer
    BY ConnectionAssumption DEF Message, ToServer, NoId
  <2> QED BY <2>1 DEF PingPackets, Message
<1>6. PICK a \in 0..ResendInterval, b \in BOOLEAN :
        client' = [client EXCEPT ![p] = [@ EXCEPT !.acc = a, !.asked = b]]
  <2> DEFINE a == IF sent = {} THEN n ELSE 0
             b == \/ client[p].asked
                  \/ sent # {} /\ client[p].state = "Connecting"
  <2>1. client' = [client EXCEPT ![p] = [@ EXCEPT !.acc = a, !.asked = b]]
    BY DEF ClientTick
  <2>2. a \in 0..ResendInterval
    BY <1>2, ConnectionAssumption
  <2>3. b \in BOOLEAN
    BY <1>1 DEF ClientSide
  <2> HIDE DEF a, b
  <2> QED BY <2>1, <2>2, <2>3
<1>7. UNCHANGED <<phase, cursor, tab, byClient, byPeer, nextId, inbound, toClient, heard, taken>>
  BY DEF ClientTick
<1> HIDE DEF sent
<1>8. toServer' \subseteq toServer \cup sent \cup pings
  BY <1>4, SentBounded
<1>9. TableType' /\ TableConsistent' /\ SweepInv' /\ HeardInv' /\ ReadyWasTaken'
  BY <1>7, ServerIdle
<1>10. client' \in [Peers -> ClientSide] /\ \A q \in Peers : client'[q].id = client[q].id
  <2>1. client \in [Peers -> ClientSide]
    BY DEF RestType
  <2> DEFINE d == [client[p] EXCEPT !.acc = a, !.asked = b]
  <2>2. d \in ClientSide /\ d.id = client[p].id
    <3>1. CASE b = TRUE
      BY <1>1, <3>1 DEF ClientSide
    <3>2. CASE b = FALSE
      BY <1>1, <3>2 DEF ClientSide
    <3> QED BY <3>1, <3>2, Zenon
  <2>3. client' = [client EXCEPT ![p] = d]
    BY <1>6
  <2> HIDE DEF d
  <2> QED BY <2>1, <2>2, <2>3
<1>11. RestType'
  BY <1>3, <1>5, <1>7, <1>8, <1>10 DEF RestType
<1>12. GivenInv'
  BY <1>3, <1>5, <1>7, <1>8, <1>10 DEF GivenInv
<1> QED BY <1>9, <1>11, <1>12

\* Deliveries to the server, and losses.
LEMMA NetworkStep ==
    ASSUME ConnInv,
           \/ \E m \in toServer : ReceivePacket(m)
           \/ \E m \in toServer \cup toClient : Lose(m)
    PROVE  ConnInv' /\ UNCHANGED <<tab, byClient, byPeer>>
<1> USE DEF ConnInv
<1>1. /\ UNCHANGED <<phase, cursor, tab, byClient, byPeer, nextId, client, heard, taken>>
      /\ toServer' \subseteq toServer /\ toClient' \subseteq toClient
      /\ inbound' \subseteq inbound \cup toServer
  BY DEF ReceivePacket, Lose
<1>2. TableType' /\ TableConsistent' /\ SweepInv' /\ HeardInv' /\ ReadyWasTaken'
  BY <1>1, ServerIdle
<1>3. RestType'
  BY <1>1 DEF RestType
<1>4. GivenInv'
  BY <1>1 DEF GivenInv
<1> QED BY <1>1, <1>2, <1>3, <1>4

--------------------------------------------------------------------------------
(* Every step. *)

\* What a step does to the table.
TableStep ==
  \/ UNCHANGED <<tab, byClient, byPeer>>
  \/ InPlace /\ \A k \in Indices : tab'[k].ready = tab[k].ready
  \/ InPlace /\ \E i \in Indices : /\ tab[i].ready => tab'[i].ready
                                   /\ \A k \in Indices \ {i} : tab'[k] = tab[k]
  \/ \E c \in ClientState : CanAdd(c.id, c.peer) /\ AddClientState(c)
  \/ \E k \in Indices : RemoveClientAt(k) /\ (phase = "sweep" => TimedOut(tab[k]))

LEMMA ProcessPacketStep ==
    ASSUME ConnInv, NEW m \in inbound, ProcessPacket(m)
    PROVE  ConnInv' /\ TableStep
<1>1. CASE RepeatResponse(m.peer)
  BY <1>1, RepeatResponseStep DEF TableStep
<1>2. ASSUME NEW i, AnswerRequest(m.peer, i) PROVE ConnInv' /\ TableStep
  BY <1>2, AnswerRequestStep DEF TableStep
<1>3. CASE ConnectedMessage(m)
  BY <1>3, ConnectedMessageStep DEF TableStep
<1>4. CASE UnknownPeer(m)
  BY <1>4, UnknownPeerStep DEF TableStep
<1> QED BY <1>1, <1>2, <1>3, <1>4, Zenon DEF ProcessPacket

LEMMA ConnStep ==
    ASSUME ConnInv, [Next]_vars
    PROVE  ConnInv' /\ TableStep
<1>1. CASE TickBegin
  BY <1>1, TickBeginStep DEF TableStep
<1>2. ASSUME NEW m \in inbound, ProcessPacket(m) PROVE ConnInv' /\ TableStep
  BY <1>2, ProcessPacketStep
<1>3. CASE ResendConnectResponses
  BY <1>3, ResendStep DEF TableStep
<1>4. CASE DisconnectTimedOut
  BY <1>4, DisconnectStep DEF TableStep
<1>5. CASE BroadcastUpdates
  BY <1>5, BroadcastStep DEF TableStep
<1>6. ASSUME NEW i \in Ids, NEW p \in Peers, AddClient(i, p) PROVE ConnInv' /\ TableStep
  BY <1>6, AddClientStep DEF TableStep
<1>7. CASE AddLocalClient
  BY <1>7, AddLocalClientStep DEF TableStep
<1>8. ASSUME NEW i \in DOMAIN byClient, RemoveClient(i) PROVE ConnInv' /\ TableStep
  <2>1. phase # "sweep"
    BY <1>8 DEF RemoveClient
  <2> QED BY <1>8, <2>1, RemoveClientStep DEF TableStep
<1>9. CASE \E m \in toServer : ReceivePacket(m)
  BY <1>9, NetworkStep DEF TableStep
<1>10. ASSUME NEW m \in toClient, ClientReceive(m) PROVE ConnInv' /\ TableStep
  <2>1. UNCHANGED <<tab, byClient, byPeer>>
    BY <1>10 DEF ClientReceive
  <2> QED BY <1>10, <2>1, ClientReceiveStep DEF TableStep
<1>11. ASSUME NEW p \in Peers, ClientTick(p) PROVE ConnInv' /\ TableStep
  <2>1. UNCHANGED <<tab, byClient, byPeer>>
    BY <1>11 DEF ClientTick
  <2> QED BY <1>11, <2>1, ClientTickStep DEF TableStep
<1>12. CASE \E m \in toServer \cup toClient : Lose(m)
  BY <1>12, NetworkStep DEF TableStep
<1>13. CASE UNCHANGED vars
  BY <1>13 DEF vars, ConnInv, TableType, TableConsistent, RestType, SweepInv, HeardInv,
               GivenInv, ReadyWasTaken, TableStep, Indices, IsLocal, TimedOut
<1> QED BY <1>1, <1>2, <1>3, <1>4, <1>5, <1>6, <1>7, <1>8, <1>9, <1>10, <1>11, <1>12,
           <1>13, Zenon DEF Next

LEMMA ConnInit == Init => ConnInv
<1> SUFFICES ASSUME Init PROVE ConnInv
  OBVIOUS
<1>1. tab = <<>> /\ tab \in Seq(ClientState) /\ Indices = {}
  BY EmptySeq DEF Init, Indices
<1>2. TableType /\ TableConsistent
  BY <1>1, ConnectionAssumption DEF Init, TableType, TableConsistent, Ids
<1>3. RestType
  BY ConnectionAssumption DEF Init, RestType, Phases, ClientSide, States, NoId
<1>4. SweepInv /\ HeardInv /\ GivenInv /\ ReadyWasTaken
  BY <1>1 DEF Init, SweepInv, HeardInv, GivenInv, ReadyWasTaken
<1> QED BY <1>2, <1>3, <1>4 DEF ConnInv

LEMMA ConnInvAlways == Spec => []ConnInv
<1>1. Init => ConnInv
  BY ConnInit
<1>2. ConnInv /\ [Next]_vars => ConnInv'
  BY ConnStep
<1> QED BY <1>1, <1>2, PTL DEF Spec

--------------------------------------------------------------------------------
(* Theorems. *)

\* Every variable of both hosts and of the network keeps its type: ids stay in
\* the wire's range, accumulators within their limits (server.cpp,
\* server/transport.cpp, client/transport.cpp).
THEOREM TypeCorrect == Spec => []TypeOK
<1>1. ConnInv => TypeOK
  BY DEF ConnInv, TableType, RestType, TypeOK
<1> QED BY <1>1, ConnInvAlways, PTL

\* client_to_index_ and peer_to_index_ name exactly the clients of the table,
\* each at its place, after every order of additions and swap removals.
THEOREM TableConsistentAlways == Spec => []TableConsistent
<1>1. ConnInv => TableConsistent
  BY DEF ConnInv
<1> QED BY <1>1, ConnInvAlways, PTL

\* disconnect_timed_out_clients leaves no overdue client behind.
THEOREM SweepIsCompleteAlways == Spec => []SweepIsComplete
<1>1. ConnInv => SweepIsComplete
  <2> SUFFICES ASSUME ConnInv, phase = "between" \/ (phase = "sweep" /\ cursor > Len(tab)),
                      NEW k \in Indices
               PROVE  ~TimedOut(tab[k])
    BY DEF SweepIsComplete
  <2>1. Len(tab) \in Nat
    BY Lookup DEF ConnInv
  <2>2. CASE phase = "between"
    BY <2>2 DEF ConnInv, SweepInv
  <2>3. CASE phase = "sweep" /\ cursor > Len(tab)
    BY <2>1, <2>3 DEF ConnInv, SweepInv, Indices
  <2> QED BY <2>2, <2>3
<1> QED BY <1>1, ConnInvAlways, PTL

\* A session that sends updates belongs to a client that was given its id, however
\* late acks and responses of earlier sessions arrive.
THEOREM ReadyWasTakenAlways == Spec => []ReadyWasTaken
<1>1. ConnInv => ReadyWasTaken
  BY DEF ConnInv
<1> QED BY <1>1, ConnInvAlways, PTL

\* A peer heard in a tick keeps its session through that tick's sweep.
THEOREM HeardIsKeptAlways == Spec => HeardIsKept
<1>1. ASSUME ConnInv, [Next]_vars, NEW p \in heard \cap DOMAIN byPeer, phase = "sweep"
      PROVE  p \in DOMAIN byPeer'
  <2>1. TableType /\ TableConsistent /\ TableStep
    BY <1>1, ConnStep DEF ConnInv
  <2>2. CASE UNCHANGED <<tab, byClient, byPeer>>
    BY <1>1, <2>2
  <2>3. CASE InPlace
    BY <1>1, <2>3 DEF InPlace
  <2>4. ASSUME NEW c \in ClientState, AddClientState(c) PROVE p \in DOMAIN byPeer'
    BY <1>1, <2>1, <2>4, AddEffect DEF Added
  <2>5. ASSUME NEW k \in Indices, RemoveClientAt(k), TimedOut(tab[k])
        PROVE  p \in DOMAIN byPeer'
    <3>1. Removed(k)
      BY <2>1, <2>5, RemoveEffect
    <3>2. tab[byPeer[p]].idle = 0 /\ byPeer[p] \in Indices
      BY <1>1, <2>1, Lookup DEF ConnInv, HeardInv
    <3>3. byPeer[p] # k
      BY <2>5, <3>2, ActiveNotTimedOut
    <3>4. ~IsLocal(tab[k]) => tab[k].peer # p
      BY <2>1, <3>3 DEF TableConsistent
    <3> QED BY <1>1, <3>1, <3>4 DEF Removed
  <2> QED BY <1>1, <2>1, <2>2, <2>3, <2>4, <2>5 DEF TableStep
<1>2. ConnInv /\ [Next]_vars =>
        [\A p \in heard \cap DOMAIN byPeer : phase = "sweep" => p \in DOMAIN byPeer']_vars
  BY <1>1
<1> QED BY <1>2, ConnInvAlways, PTL DEF Spec, HeardIsKept

--------------------------------------------------------------------------------
(* The refinement. *)

\* The sessions the maps and the table stand for.
Shown == [i \in DOMAIN byClient |-> [peer |-> tab[byClient[i]].peer,
                                     ready |-> tab[byClient[i]].ready]]

\* A change in place that makes nobody ready does not show.
LEMMA InPlaceShown ==
    ASSUME ConnInv, InPlace, \A k \in Indices : tab'[k].ready = tab[k].ready
    PROVE  Shown' = Shown
<1>1. \A i \in DOMAIN byClient : byClient[i] \in Indices
  BY Lookup DEF ConnInv
<1>2. byClient' = byClient
  BY DEF InPlace
<1>3. \A i \in DOMAIN byClient : /\ tab'[byClient[i]].peer = tab[byClient[i]].peer
                                 /\ tab'[byClient[i]].ready = tab[byClient[i]].ready
  BY <1>1 DEF InPlace
<1> QED BY <1>2, <1>3 DEF Shown

\* A session that becomes ready.
LEMMA ReadyShown ==
    ASSUME ConnInv, InPlace, NEW k \in Indices, tab[k].ready => tab'[k].ready,
           \A j \in Indices \ {k} : tab'[j] = tab[j]
    PROVE  Shown' = Shown \/ \E i \in Ids : Sessions!BecomeReady(i)
<1>0. PICK id \in Ids : id = tab[k].id
  BY Lookup DEF ConnInv, ClientState
<1>1. /\ tab[k] \in ClientState /\ tab'[k] \in ClientState
      /\ id \in DOMAIN byClient /\ byClient[id] = k
      /\ \A i \in DOMAIN byClient : byClient[i] \in Indices /\ tab[byClient[i]].id = i
  <2>1. tab'[k] \in ClientState
    <3>1. tab' \in Seq(ClientState) /\ k \in 1..Len(tab')
      BY DEF InPlace, Indices
    <3> QED BY <3>1, ElementOfSeq
  <2> QED BY <1>0, <2>1, Lookup DEF ConnInv, TableConsistent
<1>2. tab[k].ready \in BOOLEAN /\ tab'[k].ready \in BOOLEAN
  BY <1>1 DEF ClientState
<1>3. CASE tab'[k].ready = tab[k].ready
  BY <1>3, InPlaceShown
<1>4. CASE tab[k].ready = FALSE /\ tab'[k].ready = TRUE
  <2>1. byClient' = byClient
    BY DEF InPlace
  <2>2. \A i \in DOMAIN byClient \ {id} : tab'[byClient[i]] = tab[byClient[i]]
    BY <1>1
  <2>3. tab'[k].peer = tab[k].peer
    BY DEF InPlace
  <2>4. Shown' = [Shown EXCEPT ![id].ready = TRUE]
    <3> DEFINE old == [peer |-> tab[k].peer, ready |-> tab[k].ready]
               new == [peer |-> tab'[k].peer, ready |-> tab'[k].ready]
    <3>0. old = [peer |-> tab[k].peer, ready |-> tab[k].ready]
      OBVIOUS
    <3>1. new = [peer |-> tab[k].peer, ready |-> TRUE]
      BY <1>4, <2>3, Zenon
    <3>2. Shown[id] = old /\ Shown'[id] = new
      BY <1>1, <2>1 DEF Shown
    <3>3. \A i \in DOMAIN byClient \ {id} : Shown'[i] = Shown[i]
      BY <2>1, <2>2 DEF Shown
    <3>4. Shown = [i \in DOMAIN byClient |-> Shown[i]] /\ Shown' = [i \in DOMAIN byClient |-> Shown'[i]]
      BY <2>1 DEF Shown
    <3> HIDE DEF old, new, Shown
    <3>5. \A r : [old EXCEPT !.ready = r] = [peer |-> tab[k].peer, ready |-> r]
      BY <3>0
    <3>6. new = [old EXCEPT !.ready = TRUE]
      BY <3>1, <3>5, Zenon
    <3> QED BY <1>1, <3>2, <3>3, <3>4, <3>6
  <2>5. id \in DOMAIN Shown /\ ~Shown[id].ready
    BY <1>1, <1>4 DEF Shown
  <2> QED BY <2>4, <2>5 DEF Sessions!BecomeReady, Shown
<1> QED BY <1>2, <1>3, <1>4

\* A client that is added opens a session.
LEMMA AddShown ==
    ASSUME ConnInv, NEW c \in ClientState, CanAdd(c.id, c.peer), AddClientState(c)
    PROVE  Sessions!Open(c.id, c.peer, c.ready)
<1>1. Added(c)
  BY AddEffect DEF ConnInv
<1>2. /\ Len(tab) \in Nat
      /\ \A i \in DOMAIN byClient : byClient[i] \in Indices /\ tab[byClient[i]].id = i
      /\ c.id \notin DOMAIN byClient
  BY Lookup DEF ConnInv, CanAdd
<1>3. c.peer # Local => \A i \in DOMAIN byClient : tab[byClient[i]].peer # c.peer
  BY <1>2 DEF ConnInv, TableConsistent, CanAdd, IsLocal
<1>4. \A i \in DOMAIN byClient : tab'[byClient'[i]] = tab[byClient[i]]
  BY <1>1, <1>2 DEF Added, Indices
<1>5. tab'[byClient'[c.id]] = c
  BY <1>1 DEF Added
<1>6. Shown' = [j \in DOMAIN Shown \cup {c.id} |->
                  IF j = c.id THEN [peer |-> c.peer, ready |-> c.ready] ELSE Shown[j]]
  BY <1>1, <1>2, <1>4, <1>5 DEF Shown, Added
<1>7. c.id \notin DOMAIN Shown /\ (c.peer # Local => \A j \in DOMAIN Shown : Shown[j].peer # c.peer)
  BY <1>2, <1>3 DEF Shown
<1> QED BY <1>6, <1>7 DEF Sessions!Open, Shown

\* A client that is removed closes its session and no other.
LEMMA RemoveShown ==
    ASSUME ConnInv, NEW k \in Indices, RemoveClientAt(k)
    PROVE  \E i \in Ids : Sessions!Close(i)
<1>0. PICK id \in Ids : id = tab[k].id
  BY Lookup DEF ConnInv, ClientState
<1>1. Removed(k)
  BY RemoveEffect DEF ConnInv
<1>2. /\ Len(tab) \in Nat
      /\ \A i \in DOMAIN byClient : byClient[i] \in Indices /\ tab[byClient[i]].id = i
      /\ id \in DOMAIN byClient
      /\ \A j \in Indices : byClient[tab[j].id] = j
  BY <1>0, Lookup DEF ConnInv, TableConsistent
<1>3. \A i \in DOMAIN byClient \ {id} : tab'[byClient'[i]] = tab[byClient[i]]
  <2> SUFFICES ASSUME NEW i \in DOMAIN byClient \ {id}
               PROVE  tab'[byClient'[i]] = tab[byClient[i]]
    OBVIOUS
  <2>1. byClient[i] \in Indices \ {k}
    BY <1>0, <1>2
  <2>2. CASE i = tab[Len(tab)].id
    BY <1>0, <1>1, <1>2, <2>1, <2>2 DEF Removed, Indices
  <2>3. CASE i # tab[Len(tab)].id
    BY <1>0, <1>1, <1>2, <2>1, <2>3 DEF Removed, Indices
  <2> QED BY <2>2, <2>3
<1>4. Shown' = [j \in DOMAIN Shown \ {id} |-> Shown[j]]
  BY <1>0, <1>1, <1>3 DEF Shown, Removed
<1> QED BY <1>2, <1>4 DEF Sessions!Close, Shown

\* Every step of the hosts and the network is a step of the abstract session
\* table or leaves it alone: swap removals and the two index maps lose, mix up
\* and double no session (add_client_state, remove_client).
THEOREM ConnectionImplementsSessionTable == Spec => ImplementsSessionTable
<1>1. Init => Sessions!Init
  BY DEF Init, Sessions!Init
<1>2. ASSUME ConnInv, [Next]_vars
      PROVE  Sessions!Next \/ Shown' = Shown
  <2>1. TableStep
    BY <1>2, ConnStep
  <2>2. CASE UNCHANGED <<tab, byClient, byPeer>>
    BY <2>2 DEF Shown
  <2>3. CASE InPlace /\ \A k \in Indices : tab'[k].ready = tab[k].ready
    BY <1>2, <2>3, InPlaceShown
  <2>4. ASSUME InPlace, NEW k \in Indices, tab[k].ready => tab'[k].ready,
               \A j \in Indices \ {k} : tab'[j] = tab[j]
        PROVE  Sessions!Next \/ Shown' = Shown
    <3>1. (\E i \in Ids : Sessions!BecomeReady(i)) \/ Shown' = Shown
      BY <1>2, <2>4, ReadyShown
    <3> QED BY <3>1, Zenon DEF Sessions!Next
  <2>5. ASSUME NEW c \in ClientState, CanAdd(c.id, c.peer), AddClientState(c)
        PROVE  Sessions!Next
    <3>1. c.id \in Ids /\ c.peer \in Peers \cup {Local} /\ c.ready \in BOOLEAN
      BY DEF ClientState
    <3>2. Sessions!Open(c.id, c.peer, c.ready)
      BY <1>2, <2>5, AddShown
    <3> QED BY <3>1, <3>2, Zenon DEF Sessions!Next
  <2>6. ASSUME NEW k \in Indices, RemoveClientAt(k) PROVE Sessions!Next
    <3>1. \E i \in Ids : Sessions!Close(i)
      BY <1>2, <2>6, RemoveShown
    <3> QED BY <3>1, Zenon DEF Sessions!Next
  <2> QED BY <2>1, <2>2, <2>3, <2>4, <2>5, <2>6, Zenon DEF TableStep
<1>3. ConnInv /\ [Next]_vars => [Sessions!Next]_Shown
  BY <1>2
<1> QED BY <1>1, <1>3, ConnInvAlways, PTL DEF Spec, ImplementsSessionTable, Sessions!Spec, Shown

--------------------------------------------------------------------------------
(* Both hosts agree while sessions last. *)

\* No session ends, and the connect handler refuses nobody.
Lasting ==
  /\ IdleTimeout = 0
  /\ "remove_client" \notin AppCalls
  /\ ~MayReject
  /\ HandlerIds \subseteq Ids

\* What a message on its way to a client says is still so: an accepted peer has
\* that id, one that gets updates is ready, and one that was refused found every
\* id in use.
StillSo(m) ==
  /\ m.kind = "accept" => m.peer \in DOMAIN byPeer /\ tab[byPeer[m.peer]].id = m.id
  /\ m.kind = "update" => m.peer \in DOMAIN byPeer /\ tab[byPeer[m.peer]].ready
  /\ m.kind = "reject" => m.peer \notin DOMAIN byPeer /\ Ids \subseteq DOMAIN byClient

HostInv ==
  /\ \A m \in toClient : StillSo(m)
  /\ \A p \in Peers :
       /\ \A i \in taken[p] : /\ p \in DOMAIN byPeer /\ tab[byPeer[p]].id = i
                              /\ client[p].id = i
       /\ client[p].state = "Ready" => p \in DOMAIN byPeer /\ tab[byPeer[p]].ready

\* Sessions stay, with their ids, and stay ready.
Lasts ==
  /\ DOMAIN byClient \subseteq DOMAIN byClient'
  /\ \A p \in DOMAIN byPeer :
       /\ p \in DOMAIN byPeer' /\ tab'[byPeer'[p]].id = tab[byPeer[p]].id
       /\ tab[byPeer[p]].ready => tab'[byPeer'[p]].ready

\* A new peer appears only while an id is free, when nobody was refused.
NewPeerHasId == DOMAIN byPeer' = DOMAIN byPeer \/ ~(Ids \subseteq DOMAIN byClient)

\* find_next_available_client_id finds an id if there is one.
LEMMA NoneAvailable ==
    ASSUME nextId \in Ids, FindNextAvailableClientId \notin Ids
    PROVE  Ids \subseteq DOMAIN byClient
<1> DEFINE candidate(n) == ((nextId - 1 + n) % MaxId) + 1
           open == {n \in 0..(MaxId - 1) : candidate(n) \notin DOMAIN byClient}
<1>0. MaxId \in Nat \ {0} /\ nextId \in 1..MaxId
  BY ConnectionAssumption DEF Ids
<1>1. open = {}
  <2> SUFFICES ASSUME open # {} PROVE FALSE
    OBVIOUS
  <2>1. open \in SUBSET Nat
    BY ConnectionAssumption
  <2>2. \E n \in open : \A m \in open : n <= m
    BY <2>1, LeastNumber
  <2> DEFINE pick == CHOOSE n \in open : \A m \in open : n <= m
  <2>3. pick \in open
    BY <2>2
  <2>4. FindNextAvailableClientId = candidate(pick)
    BY DEF FindNextAvailableClientId
  <2>5. pick \in Nat
    BY <2>1, <2>3
  <2> HIDE DEF pick, open
  <2>6. nextId - 1 + pick \in Nat
    BY <1>0, <2>5
  <2>7. (nextId - 1 + pick) % MaxId \in 0..(MaxId - 1)
    BY <1>0, <2>6
  <2> QED BY <1>0, <2>4, <2>7 DEF Ids
<1>2. ASSUME NEW j \in Ids PROVE \E n \in 0..(MaxId - 1) : candidate(n) = j
  <2>1. j \in 1..MaxId
    BY DEF Ids
  <2>2. CASE j >= nextId
    <3>1. j - nextId \in 0..(MaxId - 1) /\ nextId - 1 + (j - nextId) = j - 1
      BY <1>0, <2>1, <2>2
    <3>2. (j - 1) % MaxId = j - 1
      BY <1>0, <2>1
    <3> QED BY <2>1, <3>1, <3>2
  <2>3. CASE j < nextId
    <3>1. j - nextId + MaxId \in 0..(MaxId - 1)
      BY <1>0, <2>1, <2>3
    <3>2. nextId - 1 + (j - nextId + MaxId) = (j - 1) + MaxId
      BY <1>0, <2>1
    <3>3. ((j - 1) + MaxId) % MaxId = j - 1
      BY <1>0, <2>1
    <3> QED BY <2>1, <3>1, <3>2, <3>3
  <2> QED BY <1>0, <2>1, <2>2, <2>3
<1> QED BY <1>1, <1>2

\* A step under which sessions last and whose new messages are true.
LEMMA HostKept ==
    ASSUME ConnInv, HostInv, Lasts, NewPeerHasId,
           \A m \in toClient' : m \in toClient \/ StillSo(m)',
           \A p \in Peers : /\ taken'[p] = taken[p]
                            /\ client'[p].id = client[p].id
                            /\ client'[p].state = client[p].state
    PROVE  HostInv'
<1>1. ASSUME NEW m \in toClient PROVE StillSo(m)'
  <2>1. StillSo(m)
    BY DEF HostInv
  <2>2. CASE m.kind = "accept"
    BY <2>1, <2>2 DEF StillSo, Lasts
  <2>3. CASE m.kind = "update"
    BY <2>1, <2>3 DEF StillSo, Lasts
  <2>4. CASE m.kind = "reject"
    BY <2>1, <2>4 DEF StillSo, Lasts, NewPeerHasId
  <2> QED BY <2>2, <2>3, <2>4 DEF StillSo
<1>2. \A m \in toClient' : StillSo(m)'
  BY <1>1
<1>3. ASSUME NEW p \in Peers
      PROVE  /\ \A i \in taken'[p] : /\ p \in DOMAIN byPeer' /\ tab'[byPeer'[p]].id = i
                                     /\ client'[p].id = i
             /\ client'[p].state = "Ready" => p \in DOMAIN byPeer' /\ tab'[byPeer'[p]].ready
  BY DEF HostInv, Lasts
<1> QED BY <1>2, <1>3 DEF HostInv

\* A table that is updated in place, where nobody stops being ready.
LEMMA InPlaceLasts ==
    ASSUME ConnInv, InPlace, \A k \in Indices : tab[k].ready => tab'[k].ready
    PROVE  Lasts /\ NewPeerHasId
<1>1. \A p \in DOMAIN byPeer : byPeer[p] \in Indices
  BY Lookup DEF ConnInv
<1> QED BY <1>1 DEF InPlace, Lasts, NewPeerHasId

LEMMA UnchangedLasts ==
    ASSUME UNCHANGED <<tab, byClient, byPeer>>
    PROVE  Lasts /\ NewPeerHasId
BY DEF Lasts, NewPeerHasId

\* A client that is added.
LEMMA AddLasts ==
    ASSUME ConnInv, NEW c \in ClientState, CanAdd(c.id, c.peer), AddClientState(c)
    PROVE  Lasts /\ NewPeerHasId /\ Added(c)
<1>1. Added(c)
  BY AddEffect DEF ConnInv
<1>2. \A p \in DOMAIN byPeer : byPeer[p] \in 1..Len(tab)
  BY Lookup DEF ConnInv, Indices
<1>3. c.id \in Ids /\ c.id \notin DOMAIN byClient
  BY DEF CanAdd
<1>4. NewPeerHasId
  BY <1>3 DEF NewPeerHasId
<1>5. \A p \in DOMAIN byPeer : p \in DOMAIN byPeer' /\ byPeer'[p] = byPeer[p]
  BY <1>1 DEF Added, CanAdd, IsLocal
<1>6. \A p \in DOMAIN byPeer : tab'[byPeer[p]] = tab[byPeer[p]]
  BY <1>1, <1>2 DEF Added
<1>7. DOMAIN byClient \subseteq DOMAIN byClient'
  BY <1>1 DEF Added
<1>8. Lasts
  BY <1>5, <1>6, <1>7, Zenon DEF Lasts
<1> QED BY <1>1, <1>4, <1>8

\* The packets of a tick.
LEMMA HostProcessPacket ==
    ASSUME Lasting, ConnInv, HostInv, NEW m \in inbound, ProcessPacket(m)
    PROVE  HostInv'
<1>0. UNCHANGED <<client, taken>>
  BY DEF ProcessPacket
<1>1. CASE RepeatResponse(m.peer)
  <2> DEFINE i == byPeer[m.peer]
             answer == Message(m.peer, "accept", tab[i].id)
  <2>1. InPlace /\ \A k \in Indices : tab'[k].ready = tab[k].ready
    BY <1>1, RepeatResponseStep
  <2>2. Lasts /\ NewPeerHasId
    BY <2>1, InPlaceLasts
  <2>3. m.peer \in DOMAIN byPeer /\ toClient' = Sent(toClient, {answer})
    BY <1>1 DEF RepeatResponse
  <2>4. toClient' \subseteq toClient \cup {answer}
    BY <2>3, SentBounded
  <2>5. m.peer \in DOMAIN byPeer' /\ tab'[byPeer'[m.peer]].id = tab[i].id
    BY <2>2, <2>3 DEF Lasts
  <2>6. ASSUME NEW n, n = answer PROVE StillSo(n)'
    BY <2>5, <2>6 DEF StillSo, Message
  <2> HIDE DEF answer
  <2> QED BY <1>0, <2>2, <2>4, <2>6, HostKept
<1>2. ASSUME NEW i \in ConnectHandlerAnswers, AnswerRequest(m.peer, i) PROVE HostInv'
  <2>1. m.peer \in Peers /\ m.peer \notin DOMAIN byPeer /\ m.peer # Local
    BY <1>2, ConnectionAssumption DEF ConnInv, RestType, ToServer, AnswerRequest
  <2>2. CASE /\ i \notin Ids
             /\ toClient' = Sent(toClient, {Message(m.peer, "reject", NoId)})
             /\ UNCHANGED <<tab, byClient, byPeer, nextId>>
    <3> DEFINE answer == Message(m.peer, "reject", NoId)
    <3>1. i = FindNextAvailableClientId
      BY <1>2, <2>2 DEF ConnectHandlerAnswers, Lasting
    <3>2. Ids \subseteq DOMAIN byClient
      BY <2>2, <3>1, NoneAvailable DEF ConnInv, TableType
    <3>3. StillSo(answer)'
      BY <2>1, <2>2, <3>2 DEF StillSo, Message
    <3>4. toClient' \subseteq toClient \cup {answer}
      BY <2>2, SentBounded
    <3> HIDE DEF answer
    <3> QED BY <1>0, <2>2, <3>3, <3>4, UnchangedLasts, HostKept
  <2>3. CASE /\ CanAdd(i, m.peer)
             /\ AddClientState(NewClientState(i, m.peer, FALSE, 0))
             /\ toClient' = Sent(toClient, {Message(m.peer, "accept", i)})
    <3> DEFINE c == NewClientState(i, m.peer, FALSE, 0)
               answer == Message(m.peer, "accept", i)
    <3>1. i \in Ids
      BY <2>3 DEF CanAdd
    <3>2. c \in ClientState
      <4>1. 0 \in 0..ResendInterval /\ m.peer \in Peers \cup {Local}
        BY <2>1, ConnectionAssumption
      <4> QED BY <3>1, <4>1, NewEntry
    <3>3. c.id = i /\ c.peer = m.peer
      BY DEF NewClientState
    <3>4. CanAdd(c.id, c.peer) /\ AddClientState(c)
      BY <2>3, <3>3
    <3> HIDE DEF c
    <3>5. Lasts /\ NewPeerHasId /\ Added(c)
      BY <3>2, <3>4, AddLasts
    <3>6. m.peer \in DOMAIN byPeer' /\ tab'[byPeer'[m.peer]].id = i
      BY <2>1, <3>3, <3>5 DEF Added, IsLocal
    <3>7. StillSo(answer)'
      BY <3>6 DEF StillSo, Message
    <3>8. toClient' \subseteq toClient \cup {answer}
      BY <2>3, SentBounded
    <3> HIDE DEF answer
    <3> QED BY <1>0, <3>5, <3>7, <3>8, HostKept
  <2>4. CASE UNCHANGED <<tab, byClient, byPeer, nextId, toClient>>
    BY <1>0, <2>4, UnchangedLasts, HostKept
  <2> QED BY <1>2, <2>2, <2>3, <2>4 DEF AnswerRequest
<1>3. CASE ConnectedMessage(m)
  <2>1. /\ InPlace
        /\ \E i \in Indices : /\ tab[i].ready => tab'[i].ready
                              /\ \A k \in Indices \ {i} : tab'[k] = tab[k]
    BY <1>3, ConnectedMessageStep
  <2>2. \A k \in Indices : tab[k].ready => tab'[k].ready
    BY <2>1
  <2>3. toClient' = toClient
    BY <1>3 DEF ConnectedMessage
  <2> QED BY <1>0, <2>1, <2>2, <2>3, InPlaceLasts, HostKept
<1>4. CASE UnknownPeer(m)
  <2>1. UNCHANGED <<tab, byClient, byPeer, toClient>>
    BY <1>4 DEF UnknownPeer
  <2> QED BY <1>0, <2>1, UnchangedLasts, HostKept
<1> QED BY <1>1, <1>2, <1>3, <1>4, Zenon DEF ProcessPacket

\* The rest of the server's tick.
LEMMA HostServerTick ==
    ASSUME Lasting, ConnInv, HostInv,
           TickBegin \/ ResendConnectResponses \/ DisconnectTimedOut \/ BroadcastUpdates
    PROVE  HostInv'
<1>0. \A k \in Indices : ~IsLocal(tab[k]) => tab[k].peer \in DOMAIN byPeer /\ byPeer[tab[k].peer] = k
  BY DEF ConnInv, TableConsistent
<1>1. CASE TickBegin
  <2>1. InPlace /\ \A k \in Indices : tab'[k].ready = tab[k].ready
    BY <1>1, TickBeginStep
  <2>2. UNCHANGED <<client, taken, toClient>>
    BY <1>1 DEF TickBegin
  <2> QED BY <2>1, <2>2, InPlaceLasts, HostKept
<1>2. CASE ResendConnectResponses
  <2> DEFINE answers == {Message(tab[i].peer, "accept", tab[i].id) : i \in Due}
  <2>1. InPlace /\ \A k \in Indices : tab'[k].ready = tab[k].ready
    BY <1>2, ResendStep
  <2>2. UNCHANGED <<client, taken>> /\ toClient' = Sent(toClient, answers)
    BY <1>2 DEF ResendConnectResponses
  <2>3. ASSUME NEW n \in answers PROVE StillSo(n)'
    <3>0. PICK i \in Due : n = Message(tab[i].peer, "accept", tab[i].id)
      OBVIOUS
    <3>1. i \in Indices /\ ~IsLocal(tab[i])
      BY <2>3 DEF Due, Pending
    <3>2. byPeer' = byPeer /\ tab[i].peer \in DOMAIN byPeer /\ byPeer[tab[i].peer] = i
      BY <1>0, <2>1, <3>1 DEF InPlace
    <3>3. tab'[i].id = tab[i].id
      BY <2>1, <3>1 DEF InPlace
    <3> QED BY <3>0, <3>2, <3>3 DEF StillSo, Message
  <2>4. toClient' \subseteq toClient \cup answers
    BY <2>2, SentBounded
  <2> HIDE DEF answers
  <2> QED BY <2>1, <2>2, <2>3, <2>4, InPlaceLasts, HostKept
<1>3. CASE DisconnectTimedOut
  <2>1. UNCHANGED <<client, taken, toClient>>
    BY <1>3 DEF DisconnectTimedOut
  <2>2. UNCHANGED <<tab, byClient, byPeer>>
    BY <1>3, DisconnectStep DEF TimedOut, Lasting
  <2> QED BY <2>1, <2>2, UnchangedLasts, HostKept
<1>4. CASE BroadcastUpdates
  <2> DEFINE ready == {j \in Indices : tab[j].ready /\ ~IsLocal(tab[j])}
             updates == {Message(tab[i].peer, "update", NoId) : i \in ready}
  <2>1. UNCHANGED <<tab, byClient, byPeer, client, taken>> /\ toClient' = Sent(toClient, updates)
    BY <1>4 DEF BroadcastUpdates
  <2>2. ASSUME NEW n \in updates PROVE StillSo(n)'
    <3>1. PICK i \in ready : n = Message(tab[i].peer, "update", NoId)
      OBVIOUS
    <3> QED BY <1>0, <2>1, <3>1 DEF StillSo, Message
  <2>3. toClient' \subseteq toClient \cup updates
    BY <2>1, SentBounded
  <2> HIDE DEF updates
  <2> QED BY <2>1, <2>2, <2>3, UnchangedLasts, HostKept
<1> QED BY <1>1, <1>2, <1>3, <1>4

\* add_client: the only step that makes a client ready without an update.
LEMMA HostAddClient ==
    ASSUME ConnInv, HostInv, NEW i \in Ids, NEW p \in Peers, AddClient(i, p)
    PROVE  HostInv'
<1> DEFINE c == NewClientState(i, p, TRUE, ResendInterval)
<1>1. c \in ClientState
  <2>1. ResendInterval \in 0..ResendInterval
    BY ConnectionAssumption
  <2> QED BY <2>1, NewEntry
<1>2. c.id = i /\ c.peer = p /\ c.ready = TRUE
  BY DEF NewClientState
<1>3. CanAdd(c.id, c.peer) /\ AddClientState(c)
  BY <1>2 DEF AddClient
<1> HIDE DEF c
<1>4. Lasts /\ NewPeerHasId /\ Added(c)
  BY <1>1, <1>3, AddLasts
<1>5. p # Local /\ p \notin DOMAIN byPeer
  BY <1>2, <1>3, ConnectionAssumption DEF CanAdd
<1>6. p \in DOMAIN byPeer' /\ tab'[byPeer'[p]] = c
  BY <1>2, <1>4, <1>5 DEF Added, IsLocal
<1>7. /\ client' = [client EXCEPT ![p].state = "Ready", ![p].id = i]
      /\ taken' = [taken EXCEPT ![p] = @ \cup {i}]
      /\ toClient' = toClient
  BY DEF AddClient
<1>8. client \in [Peers -> ClientSide] /\ taken \in [Peers -> SUBSET Ids]
  BY DEF ConnInv, RestType
<1>9. taken[p] = {}
  BY <1>5 DEF HostInv
<1>10. \A m \in toClient' : StillSo(m)'
  <2> SUFFICES ASSUME NEW m \in toClient PROVE StillSo(m)'
    BY <1>7
  <2>1. StillSo(m)
    BY DEF HostInv
  <2>2. m.kind # "reject"
    BY <1>3, <2>1 DEF StillSo, CanAdd
  <2> QED BY <1>4, <2>1, <2>2 DEF StillSo, Lasts
<1>11. taken'[p] = {i} /\ client'[p].id = i
  BY <1>7, <1>8, <1>9 DEF ClientSide
<1>12. \A q \in Peers \ {p} : taken'[q] = taken[q] /\ client'[q] = client[q]
  BY <1>7, <1>8
<1>13. ASSUME NEW q \in Peers
       PROVE  /\ \A j \in taken'[q] : /\ q \in DOMAIN byPeer' /\ tab'[byPeer'[q]].id = j
                                      /\ client'[q].id = j
              /\ client'[q].state = "Ready" => q \in DOMAIN byPeer' /\ tab'[byPeer'[q]].ready
  <2>1. CASE q = p
    BY <1>2, <1>6, <1>11, <2>1
  <2>2. CASE q # p
    BY <1>4, <1>12, <2>2 DEF HostInv, Lasts
  <2> QED BY <2>1, <2>2
<1> QED BY <1>10, <1>13 DEF HostInv

\* receive_connect_response and receive_entity_update
LEMMA HostClientReceive ==
    ASSUME ConnInv, HostInv, NEW m \in toClient, ClientReceive(m)
    PROVE  HostInv'
<1>1. /\ client' = [client EXCEPT ![m.peer] = Received(@, m)]
      /\ toClient' \subseteq toClient
      /\ taken' = [taken EXCEPT ![m.peer] = IF m.kind = "accept" THEN @ \cup {m.id} ELSE @]
      /\ UNCHANGED <<tab, byClient, byPeer>>
  BY DEF ClientReceive
<1>2. /\ client \in [Peers -> ClientSide] /\ taken \in [Peers -> SUBSET Ids]
      /\ m.peer \in Peers /\ m.kind \in {"accept", "reject", "update"}
  BY DEF ConnInv, RestType, ToClient
<1>3. StillSo(m)
  BY DEF HostInv
<1>4. \A n \in toClient' : StillSo(n)'
  BY <1>1 DEF HostInv, StillSo
<1>5. \A q \in Peers \ {m.peer} : taken'[q] = taken[q] /\ client'[q] = client[q]
  BY <1>1, <1>2
<1>6. client[m.peer] \in ClientSide
  BY <1>2
<1>7. /\ \A j \in taken'[m.peer] : /\ m.peer \in DOMAIN byPeer /\ tab[byPeer[m.peer]].id = j
                                   /\ client'[m.peer].id = j
      /\ client'[m.peer].state = "Ready" => m.peer \in DOMAIN byPeer /\ tab[byPeer[m.peer]].ready
  <2>1. CASE m.kind = "reject"
    <3>1. taken'[m.peer] = {}
      BY <1>1, <1>2, <1>3, <2>1 DEF HostInv, StillSo
    <3>2. client'[m.peer].state = "Rejected"
      BY <1>1, <1>2, <1>6, <2>1 DEF Received, ClientSide
    <3> QED BY <3>1, <3>2
  <2>2. CASE m.kind = "accept"
    <3>1. taken'[m.peer] = taken[m.peer] \cup {m.id}
      BY <1>1, <1>2, <2>2
    <3>2. client'[m.peer].state = "Accepted" /\ client'[m.peer].id = m.id
      BY <1>1, <1>2, <1>6, <2>2 DEF Received, ClientSide
    <3> QED BY <1>2, <1>3, <2>2, <3>1, <3>2 DEF HostInv, StillSo
  <2>3. CASE m.kind = "update"
    <3>1. taken'[m.peer] = taken[m.peer]
      BY <1>1, <1>2, <2>3
    <3>2. client'[m.peer].id = client[m.peer].id
      BY <1>1, <1>2, <1>6, <2>3 DEF Received, ClientSide
    <3> QED BY <1>2, <1>3, <2>3, <3>1, <3>2 DEF HostInv, StillSo
  <2> QED BY <1>2, <2>1, <2>2, <2>3
<1> QED BY <1>1, <1>4, <1>5, <1>7 DEF HostInv

\* A client's tick moves neither its state nor its id.
LEMMA HostClientTick ==
    ASSUME ConnInv, HostInv, NEW p \in Peers, ClientTick(p)
    PROVE  HostInv'
<1>1. UNCHANGED <<tab, byClient, byPeer, toClient, taken>>
  BY DEF ClientTick
<1>2. PICK a, b : client' = [client EXCEPT ![p] = [@ EXCEPT !.acc = a, !.asked = b]]
  BY DEF ClientTick
<1>3. client \in [Peers -> ClientSide]
  BY DEF ConnInv, RestType
<1> DEFINE d == [client[p] EXCEPT !.acc = a, !.asked = b]
<1>4. d.id = client[p].id /\ d.state = client[p].state
  BY <1>3 DEF ClientSide
<1>5. client' = [client EXCEPT ![p] = d]
  BY <1>2
<1> HIDE DEF d
<1>6. \A q \in Peers : client'[q].id = client[q].id /\ client'[q].state = client[q].state
  BY <1>3, <1>4, <1>5
<1> QED BY <1>1, <1>6, UnchangedLasts, HostKept

LEMMA HostStep ==
    ASSUME Lasting, ConnInv, HostInv, [Next]_vars
    PROVE  HostInv'
<1>1. CASE TickBegin \/ ResendConnectResponses \/ DisconnectTimedOut \/ BroadcastUpdates
  BY <1>1, HostServerTick
<1>2. ASSUME NEW m \in inbound, ProcessPacket(m) PROVE HostInv'
  BY <1>2, HostProcessPacket
<1>3. ASSUME NEW i \in Ids, NEW p \in Peers, AddClient(i, p) PROVE HostInv'
  BY <1>3, HostAddClient
<1>4. CASE AddLocalClient
  <2>1. \E c \in ClientState : CanAdd(c.id, c.peer) /\ AddClientState(c)
    BY <1>4, AddLocalClientStep
  <2>2. Lasts /\ NewPeerHasId
    BY <2>1, AddLasts
  <2>3. UNCHANGED <<client, taken, toClient>>
    BY <1>4 DEF AddLocalClient
  <2> QED BY <2>2, <2>3, HostKept
<1>5. ASSUME NEW i \in DOMAIN byClient, RemoveClient(i) PROVE HostInv'
  BY <1>5 DEF RemoveClient, Lasting
<1>6. CASE \/ \E m \in toServer : ReceivePacket(m)
           \/ \E m \in toServer \cup toClient : Lose(m)
  <2>1. UNCHANGED <<tab, byClient, byPeer, client, taken>> /\ toClient' \subseteq toClient
    BY <1>6 DEF ReceivePacket, Lose
  <2> QED BY <2>1, UnchangedLasts, HostKept
<1>7. ASSUME NEW m \in toClient, ClientReceive(m) PROVE HostInv'
  BY <1>7, HostClientReceive
<1>8. ASSUME NEW p \in Peers, ClientTick(p) PROVE HostInv'
  BY <1>8, HostClientTick
<1>9. CASE UNCHANGED vars
  BY <1>9, UnchangedLasts, HostKept DEF vars
<1> QED BY <1>1, <1>2, <1>3, <1>4, <1>5, <1>6, <1>7, <1>8, <1>9, Zenon DEF Next

\* While no session ends and the handler refuses nobody, both hosts agree on the
\* id of every ready session and a ready client has a ready session, whatever
\* requests, responses, acks and updates are lost, repeated or late, for every
\* number of peers and ids.
THEOREM HostsAgreeAlways == Lasting => (Spec => []HostsAgree)
<1> SUFFICES ASSUME Lasting PROVE Spec => []HostsAgree
  OBVIOUS
<1>1. ConnInv /\ HostInv => HostsAgree
  <2> SUFFICES ASSUME ConnInv, HostInv PROVE HostsAgree
    OBVIOUS
  <2>1. ASSUME NEW k \in Indices, tab[k].ready, ~IsLocal(tab[k])
        PROVE  client[tab[k].peer].id = tab[k].id
    <3>1. tab[k].peer \in Peers
      BY <2>1, Lookup DEF ConnInv, ClientState, IsLocal
    <3>2. tab[k].id \in taken[tab[k].peer]
      BY <2>1 DEF ConnInv, ReadyWasTaken
    <3> QED BY <3>1, <3>2 DEF HostInv
  <2>2. \A p \in Peers : client[p].state = "Ready" => p \in DOMAIN byPeer /\ tab[byPeer[p]].ready
    BY DEF HostInv
  <2> QED BY <2>1, <2>2 DEF HostsAgree
<1>2. Init => HostInv
  BY DEF Init, HostInv
<1>3. ConnInv /\ HostInv /\ [Next]_vars => HostInv'
  BY HostStep
<1> QED BY <1>1, <1>2, <1>3, ConnInvAlways, PTL DEF Spec

================================================================================
