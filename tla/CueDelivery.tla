----------------------------- MODULE CueDelivery -----------------------------
(* Cues from the simulation to the clients: the queue jobs emit them into       *)
(* (CueDispatcher), the drain at the end of a fixed step, the copies that wait  *)
(* at every client's entity, the records that carry them again and again, the   *)
(* ACK that ends it and the expiry (server.cpp, components.cpp,                 *)
(* registration.hpp, server_client_replicator.cpp).                             *)
(*                                                                              *)
(* A packet has one record here, which carries a frame of one entity and all    *)
(* its pending cues; their order is that of emission (nr) and never changes, so *)
(* the lists of cues are sets. Decoding is module Replication's; whether an ACK *)
(* is eligible as baseline is any.                                              *)
EXTENDS Integers, FiniteSets

CONSTANTS
  Clients,      \* clients the server replicates to
  Host,         \* the server's own client
  Entities,     \* entities the application replicates
  Relevances,   \* relevance of a cue in whole frames
  MaxPending,   \* max_pending_quantized_frames_per_entity
  MaxFrame,     \* bound: frames
  MaxCues       \* bound: cues emitted

ASSUME CueAssumption == Relevances \subseteq Nat

VARIABLES
  frame,   \* frame_ and FrameInfo::frame
  phase,   \* where the server is in tick
  queue,   \* CueDispatcher::cues_
  owner,   \* NetworkOwner of every entity
  state,   \* ClientEntityState and dirty entry of every client and entity
  net,     \* records on their way; each may arrive late, twice or never
  acks,    \* ACKs on their way
  seen,    \* per client and entity, the frame its registry shows
  heard,   \* the cues every client was given
  owed,    \* history: the cues captured for a client that it must still get
  nr       \* history: cues emitted

vars == <<frame, phase, queue, owner, state, net, acks, seen, heard, owed, nr>>

Everyone == Clients \cup {Host}

\* The entity is not replicated to the client.
NoState == [known |-> FALSE, cues |-> {}, pending |-> {}, queued |-> FALSE,
            dirty |-> 0, base |-> 0]
NewState == [NoState EXCEPT !.known = TRUE]

Larger(a, b) == IF a < b THEN b ELSE a

-------------------------------------------------------------------------------
(* Emission                                                                     *)

\* CueDispatcher::emit and enqueue: a cue of the frame FrameInfo shows. Jobs emit
\* during the step; the application between ticks; a listener when the cues of
\* the frame were drained already.
Emit(e, relevance, only) ==
  /\ nr < MaxCues
  /\ frame # 0
  /\ queue' = queue \cup {[nr |-> nr + 1, of |-> e, frame |-> frame, only |-> only,
                           expire |-> frame + relevance]}
  /\ nr' = nr + 1
  /\ UNCHANGED <<frame, phase, owner, state, net, acks, seen, heard, owed>>

-------------------------------------------------------------------------------
(* The fixed step                                                               *)

\* The next frame begins, in the same tick or in the next one.
BeginStep ==
  /\ phase \in {"between", "flush"}
  /\ frame < MaxFrame
  /\ frame' = frame + 1
  /\ phase' = "jobs"
  /\ UNCHANGED <<queue, owner, state, net, acks, seen, heard, owed, nr>>

\* A job gives an entity to a client.
Transfer(e, c) ==
  /\ phase = "jobs"
  /\ owner[e] # c
  /\ owner' = [owner EXCEPT ![e] = c]
  /\ UNCHANGED <<frame, phase, queue, state, net, acks, seen, heard, owed, nr>>

\* mark_dirty
MarkDirty(s) ==
  LET dirty == Larger(s.dirty, frame)
  IN  [s EXCEPT !.queued = TRUE, !.dirty = IF dirty <= s.base THEN s.base + 1 ELSE dirty]

\* only_replicate_to_owner
MayHear(c, cue) == cue.only => owner[cue.of] = c

\* The cues of an entity among those of the queue that the client is to be given.
CapturedFor(c, e) == {cue \in queue : cue.of = e /\ MayHear(c, cue)}

\* attach_cue_to_clients for one client that replicates the entity.
Attached(s, cues) == MarkDirty([s EXCEPT !.cues = @ \cup cues])

\* capture_queued_cues
Captured(s, c, e) ==
  IF s.known /\ CapturedFor(c, e) # {} THEN Attached(s, CapturedFor(c, e)) ELSE s

\* rediscover_replicated_entities: a stopped entity loses its state at every
\* client, a started one gets a new state that is dirty.
Rediscovered(started, stopped, changed) ==
  [c \in Clients |-> [e \in Entities |->
     IF e \in stopped THEN NoState
     ELSE IF e \in started THEN MarkDirty(NewState)
     ELSE IF e \in changed /\ state[c][e].known THEN MarkDirty(state[c][e])
     ELSE state[c][e]]]

\* play_local_cue: the server's own client is given the cues of entities that
\* are alive at once.
LocallyPlayed(st) ==
  {cue \in queue : (\E c \in Clients : st[c][cue.of].known) /\ MayHear(Host, cue)}

\* on_registry_dirty_frame: rediscovery, the drain of the queue, the listeners
\* (whose own emissions stay queued) and the capture of the drained cues.
ObserveFrame(started, stopped, changed) ==
  LET st == Rediscovered(started, stopped, changed)
  IN  /\ phase = "jobs"
      /\ phase' = "flush"
      /\ queue' = {}
      /\ state' = [c \in Clients |-> [e \in Entities |-> Captured(st[c][e], c, e)]]
      \* A restarted entity is another one to the client.
      /\ seen' = [c \in Clients |-> [e \in Entities |-> IF e \in started THEN 0 ELSE seen[c][e]]]
      /\ net' = {r \in net : r.of \notin stopped}
      /\ acks' = {a \in acks : a.of \notin stopped}
      /\ heard' = [heard EXCEPT ![Host] = @ \cup LocallyPlayed(st)]
      /\ owed' = [c \in Clients |->
                    {cue \in owed[c] : cue.of \notin stopped} \cup
                    {cue \in queue : /\ cue.frame = frame
                                     /\ st[c][cue.of].known /\ MayHear(c, cue)}]
      /\ UNCHANGED <<frame, owner, nr>>

-------------------------------------------------------------------------------
(* Sending                                                                      *)

\* expire_pending_cues
Expired(s) == [s EXCEPT !.cues = {cue \in @ : frame <= cue.expire}]

\* The pending frames after one more, the oldest given up beyond the limit.
PushPending(pending, f) ==
  IF Cardinality(pending) < MaxPending THEN pending \cup {f}
  ELSE (pending \cup {f}) \ {CHOOSE g \in pending : \A h \in pending : g <= h}

\* The record of an entity was sent: it counts as changed in this frame.
Recorded(s) ==
  [s EXCEPT !.pending = PushPending(@, frame), !.dirty = Larger(@, frame)]

\* send_client, with any of the queued entities refused by the budget.
SendClient(c, batch) ==
  LET fresh == [e \in Entities |-> Expired(state[c][e])]
  IN  /\ phase = "flush"
      /\ batch \subseteq {e \in Entities : state[c][e].queued /\ frame \notin state[c][e].pending}
      /\ state' = [state EXCEPT ![c] = [e \in Entities |->
                     IF e \in batch THEN Recorded(fresh[e]) ELSE fresh[e]]]
      /\ net' = net \cup {[to |-> c, of |-> e, frame |-> frame, cues |-> fresh[e].cues] :
                            e \in batch}
      /\ owed' = [owed EXCEPT ![c] = {cue \in @ : frame <= cue.expire}]
      /\ UNCHANGED <<frame, phase, queue, owner, acks, seen, heard, nr>>

\* The tick ends.
EndTick ==
  /\ phase = "flush"
  /\ phase' = "between"
  /\ UNCHANGED <<frame, queue, owner, state, net, acks, seen, heard, owed, nr>>

\* apply_update of one record: a frame the client has passed is rejected.
ReceiveUpdate(r) ==
  /\ r.frame > seen[r.to][r.of]
  /\ seen' = [seen EXCEPT ![r.to][r.of] = r.frame]
  /\ heard' = [heard EXCEPT ![r.to] = @ \cup r.cues]
  /\ acks' = acks \cup {[to |-> r.to, of |-> r.of, frame |-> r.frame]}
  /\ UNCHANGED <<frame, phase, queue, owner, state, net, owed, nr>>

\* Seeded fault: an ACK counts for every cue that waits.
AcknowledgedAll(cues, f) == {}

\* acknowledge_cues
AcknowledgedCues(cues, f) == {cue \in cues : cue.frame > f}

\* acknowledge_entity, for a frame that is still pending.
Acknowledged(s, f, eligible) ==
  [s EXCEPT !.base = IF eligible THEN f ELSE @,
            !.queued = @ /\ ~(eligible /\ f >= s.dirty),
            !.pending = {g \in @ : g > f},
            !.cues = AcknowledgedCues(@, f)]

\* Packets are processed at the beginning of a tick.
ReceiveAck(a, eligible) ==
  /\ phase = "between"
  /\ a.frame \in state[a.to][a.of].pending
  /\ state' = [state EXCEPT ![a.to][a.of] = Acknowledged(@, a.frame, eligible)]
  /\ UNCHANGED <<frame, phase, queue, owner, net, acks, seen, heard, owed, nr>>

-------------------------------------------------------------------------------
Init ==
  /\ frame = 0 /\ phase = "between" /\ queue = {}
  /\ owner \in [Entities -> Everyone]
  /\ state = [c \in Clients |-> [e \in Entities |-> NoState]]
  /\ net = {} /\ acks = {}
  /\ seen = [c \in Clients |-> [e \in Entities |-> 0]]
  /\ heard = [c \in Everyone |-> {}]
  /\ owed = [c \in Clients |-> {}]
  /\ nr = 0

Replicated == {e \in Entities : \E c \in Clients : state[c][e].known}

Next ==
  \/ \E e \in Entities, relevance \in Relevances, only \in BOOLEAN : Emit(e, relevance, only)
  \/ BeginStep
  \/ \E e \in Entities, c \in Everyone : Transfer(e, c)
  \/ \E started \in SUBSET (Entities \ Replicated) :
       \E stopped \in SUBSET Replicated : \E changed \in SUBSET Replicated :
         ObserveFrame(started, stopped, changed)
  \/ \E c \in Clients, batch \in SUBSET Entities : SendClient(c, batch)
  \/ EndTick
  \/ \E r \in net : ReceiveUpdate(r)
  \/ \E a \in acks, eligible \in BOOLEAN : ReceiveAck(a, eligible)

Spec == Init /\ [][Next]_vars

-------------------------------------------------------------------------------
(* Properties                                                                   *)

Cue == [nr : Nat, of : Entities, frame : Nat, only : BOOLEAN, expire : Nat]
ClientEntity == [known : BOOLEAN, cues : SUBSET Cue, pending : SUBSET Nat,
                 queued : BOOLEAN, dirty : Nat, base : Nat]

TypeOK ==
  /\ frame \in Nat /\ phase \in {"between", "jobs", "flush"} /\ nr \in Nat
  /\ queue \subseteq Cue
  /\ owner \in [Entities -> Everyone]
  /\ state \in [Clients -> [Entities -> ClientEntity]]
  /\ net \subseteq [to : Clients, of : Entities, frame : Nat, cues : SUBSET Cue]
  /\ acks \subseteq [to : Clients, of : Entities, frame : Nat]
  /\ seen \in [Clients -> [Entities -> Nat]]
  /\ heard \in [Everyone -> SUBSET Cue]
  /\ owed \in [Clients -> SUBSET Cue]

\* A cue emitted during its frame is not forgotten: as long as it is relevant and
\* its entity replicated it waits at the client's entity until the client has
\* been given it, whatever older frames are acknowledged (attach_cue_to_clients,
\* acknowledge_cues, expire_pending_cues).
CueIsKept ==
  \A c \in Clients : \A cue \in owed[c] :
    cue \in heard[c] \/ cue \in state[c][cue.of].cues

===============================================================================
