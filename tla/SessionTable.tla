----------------------------- MODULE SessionTable -----------------------------
(* What the server's client table promises to its users: a client id names at  *)
(* most one session, a peer has at most one, a session becomes ready at most   *)
(* once and leaves the table as a whole. The table of clients_,                *)
(* client_to_index_ and peer_to_index_ in server.cpp implements it (module     *)
(* Connection).                                                                *)
EXTENDS Integers

CONSTANTS Ids, PeerOrLocal, Local

VARIABLE sessions    \* client id -> session, for the ids in use

Session == [peer : PeerOrLocal, ready : BOOLEAN]

Init == sessions = [i \in {} |-> 0]

\* A peer without a session is given one, under an id not in use.
Open(i, p, r) ==
  /\ i \notin DOMAIN sessions
  /\ p # Local => \A j \in DOMAIN sessions : sessions[j].peer # p
  /\ sessions' = [j \in DOMAIN sessions \cup {i} |->
                    IF j = i THEN [peer |-> p, ready |-> r] ELSE sessions[j]]

BecomeReady(i) ==
  /\ i \in DOMAIN sessions
  /\ ~sessions[i].ready
  /\ sessions' = [sessions EXCEPT ![i].ready = TRUE]

Close(i) ==
  /\ i \in DOMAIN sessions
  /\ sessions' = [j \in DOMAIN sessions \ {i} |-> sessions[j]]

Next ==
  \E i \in Ids :
    \/ \E p \in PeerOrLocal, r \in BOOLEAN : Open(i, p, r)
    \/ BecomeReady(i)
    \/ Close(i)

Spec == Init /\ [][Next]_sessions
===============================================================================
