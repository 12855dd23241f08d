--------------------------- MODULE ClientViewProofs ---------------------------
(* Theorems about what a client makes of what reaches it: CueDelivery,         *)
(* ClientClock, PacketLoss and Prediction, for every set of clients and        *)
(* entities, every relevance, delay, configuration, capacity and limit.        *)
(*                                                                             *)
(* CueIsKept is not inductive: an ACK ends every waiting cue up to its frame,  *)
(* and only what records and ACKs under way stand for says that the client has *)
(* been given those. The invariant says it of both (RecordsCarry, AcksCover);  *)
(* a new cue cannot be older than what is under way because its frame has not  *)
(* been sent yet (NotAhead), and an entity that starts owes nothing            *)
(* (OwedIsKnown).                                                              *)
(*                                                                             *)
(* The clock: every target is clamped where it is computed, and every sample   *)
(* of the offset is off by at most the longest delay and a frame, so that a    *)
(* weighted mean of two is too (ClockInv).                                     *)
(*                                                                             *)
(* The window of received packets: it shows the distances of what arrived, and *)
(* the packets counted missing are those that left it without (LossInv). Ids   *)
(* wrap, so this rests on the newest and the arriving packet being less than   *)
(* half the ids apart (LossAssumption).                                        *)
(*                                                                             *)
(* Prediction: what holds of one entity (EntityOK) says nothing of how far a   *)
(* rollback may go back, and a rollback is chosen by one entity and applied to *)
(* all of them. The invariant therefore relates every frame that some entity   *)
(* could roll back to, to what the rings of every other one still hold         *)
(* (Reached), and the last simulated frame to the clock (ClockOK).             *)
EXTENDS MCClientView, NaturalFacts, FiniteSetTheorems

--------------------------------------------------------------------------------
(* Cues on their way to a client (CueDelivery)                                *)

\* Nothing under way is of a later frame, nor of a frame that is being simulated.
NotAhead ==
  \A r \in net \cup acks : r.frame <= frame /\ (phase = "jobs" => r.frame < frame)

\* A record carries what the client must still get of its frame or an older one.
RecordsCarry ==
  \A r \in net : \A cue \in owed[r.to] :
    cue.of = r.of /\ cue.frame <= r.frame => cue \in heard[r.to] \/ cue \in r.cues

\* An ACK stands for cues the client was given.
AcksCover ==
  \A a \in acks : \A cue \in owed[a.to] :
    cue.of = a.of /\ cue.frame <= a.frame => cue \in heard[a.to]

\* Cues are owed for entities that are replicated.
OwedIsKnown == \A c \in Clients : \A cue \in owed[c] : state[c][cue.of].known

CueInv ==
  /\ TypeOK /\ NotAhead /\ RecordsCarry /\ AcksCover /\ OwedIsKnown /\ CueIsKept

--------------------------------------------------------------------------------
(* The entity's state at a client. *)

LEMMA LargerType ==
    ASSUME NEW a \in Nat, NEW b \in Nat
    PROVE  Larger(a, b) \in Nat
BY DEF Larger

\* mark_dirty touches neither the cues nor whether the entity is known.
LEMMA MarkDirtyKeeps ==
    ASSUME frame \in Nat, NEW s \in ClientEntity
    PROVE  /\ MarkDirty(s) \in ClientEntity
           /\ MarkDirty(s).cues = s.cues /\ MarkDirty(s).known = s.known
<1> DEFINE dirty == Larger(s.dirty, frame)
           new == IF dirty <= s.base THEN s.base + 1 ELSE dirty
<1>1. s.dirty \in Nat /\ s.base \in Nat
  BY DEF ClientEntity
<1>2. dirty \in Nat
  BY <1>1, LargerType
<1>3. new \in Nat
  BY <1>1, <1>2
<1>4. MarkDirty(s) = [s EXCEPT !.queued = TRUE, !.dirty = new]
  BY DEF MarkDirty
<1> HIDE DEF new
<1> QED BY <1>3, <1>4 DEF ClientEntity

LEMMA NewStateType ==
    /\ NoState \in ClientEntity /\ NoState.cues = {}
    /\ NewState \in ClientEntity /\ NewState.cues = {}
BY DEF NoState, NewState, ClientEntity

\* attach_cue_to_clients adds cues and keeps those that wait.
LEMMA CapturedKeeps ==
    ASSUME frame \in Nat, queue \subseteq Cue, NEW s \in ClientEntity, NEW c, NEW e
    PROVE  /\ Captured(s, c, e) \in ClientEntity
           /\ Captured(s, c, e).known = s.known
           /\ s.cues \subseteq Captured(s, c, e).cues
           /\ s.known => CapturedFor(c, e) \subseteq Captured(s, c, e).cues
<1> DEFINE more == CapturedFor(c, e)
           t == [s EXCEPT !.cues = @ \cup more]
<1>1. more \subseteq Cue
  BY DEF CapturedFor
<1> HIDE DEF more
<1>2. t \in ClientEntity /\ t.cues = s.cues \cup more /\ t.known = s.known
  BY <1>1 DEF ClientEntity
<1>3. Attached(s, more) = MarkDirty(t)
  BY DEF Attached
<1> HIDE DEF t
<1>4. /\ MarkDirty(t) \in ClientEntity
      /\ MarkDirty(t).cues = s.cues \cup more /\ MarkDirty(t).known = s.known
  BY <1>2, MarkDirtyKeeps
<1>5. CASE s.known /\ more # {}
  BY <1>3, <1>4, <1>5 DEF Captured, more
<1>6. CASE ~(s.known /\ more # {})
  BY <1>6 DEF Captured, more
<1> QED BY <1>5, <1>6

\* expire_pending_cues, and the bookkeeping of a record.
LEMMA ExpiredKeeps ==
    ASSUME frame \in Nat, NEW s \in ClientEntity
    PROVE  /\ Expired(s) \in ClientEntity /\ Recorded(Expired(s)) \in ClientEntity
           /\ Expired(s).cues = {cue \in s.cues : frame <= cue.expire}
           /\ Recorded(Expired(s)).cues = {cue \in s.cues : frame <= cue.expire}
           /\ Expired(s).known = s.known /\ Recorded(Expired(s)).known = s.known
<1> DEFINE left == {cue \in s.cues : frame <= cue.expire}
           t == [s EXCEPT !.cues = left]
<1>1. left \subseteq Cue
  BY DEF ClientEntity
<1>2. Expired(s) = t
  BY DEF Expired
<1> HIDE DEF left
<1>3. t \in ClientEntity /\ t.cues = left /\ t.known = s.known
  BY <1>1 DEF ClientEntity
<1> HIDE DEF t
<1> DEFINE pending == PushPending(t.pending, frame)
           dirty == Larger(t.dirty, frame)
<1>4. pending \subseteq Nat /\ dirty \in Nat
  <2>1. t.pending \subseteq Nat /\ t.dirty \in Nat
    BY <1>3 DEF ClientEntity
  <2> QED BY <2>1, LargerType DEF PushPending
<1>5. Recorded(t) = [t EXCEPT !.pending = pending, !.dirty = dirty]
  BY DEF Recorded
<1> HIDE DEF pending, dirty
<1>6. Recorded(t) \in ClientEntity /\ Recorded(t).cues = left /\ Recorded(t).known = s.known
  BY <1>3, <1>4, <1>5 DEF ClientEntity
<1> QED BY <1>2, <1>3, <1>6 DEF left

\* acknowledge_entity ends the cues up to the frame, and no others.
LEMMA AcknowledgedKeeps ==
    ASSUME NEW s \in ClientEntity, NEW f \in Nat, NEW eligible \in BOOLEAN
    PROVE  /\ Acknowledged(s, f, eligible) \in ClientEntity
           /\ Acknowledged(s, f, eligible).cues = {cue \in s.cues : cue.frame > f}
           /\ Acknowledged(s, f, eligible).known = s.known
<1> DEFINE base == IF eligible THEN f ELSE s.base
           queued == s.queued /\ ~(eligible /\ f >= s.dirty)
           pending == {g \in s.pending : g > f}
           cues == {cue \in s.cues : cue.frame > f}
<1>1. base \in Nat /\ queued \in BOOLEAN /\ pending \subseteq Nat /\ cues \subseteq Cue
  BY DEF ClientEntity
<1>2. Acknowledged(s, f, eligible) =
        [s EXCEPT !.base = base, !.queued = queued, !.pending = pending, !.cues = cues]
  BY DEF Acknowledged, AcknowledgedCues
<1> HIDE DEF base, queued, pending, cues
<1>3. PICK b \in Nat, q \in BOOLEAN, p \in SUBSET Nat, x \in SUBSET Cue :
        b = base /\ q = queued /\ p = pending /\ x = cues
  BY <1>1
<1>4. /\ Acknowledged(s, f, eligible) \in ClientEntity
      /\ Acknowledged(s, f, eligible).cues = cues
      /\ Acknowledged(s, f, eligible).known = s.known
  <2> DEFINE u == [s EXCEPT !.base = b, !.queued = q, !.pending = p, !.cues = x]
  <2>1. u \in ClientEntity /\ u.cues = x /\ u.known = s.known
    BY DEF ClientEntity
  <2>2. Acknowledged(s, f, eligible) = u
    BY <1>2, <1>3
  <2> HIDE DEF u
  <2> QED BY <2>1, <2>2, <1>3
<1> QED BY <1>4 DEF cues

--------------------------------------------------------------------------------
(* One lemma per action. *)

LEMMA InitStep ==
    ASSUME Init PROVE CueInv
<1>1. TypeOK
  BY NewStateType DEF Init, TypeOK
<1> QED BY <1>1 DEF Init, CueInv, NotAhead, RecordsCarry, AcksCover, OwedIsKnown, CueIsKept

LEMMA EmitStep ==
    ASSUME CueInv, NEW e \in Entities, NEW relevance \in Relevances,
           NEW only \in BOOLEAN, Emit(e, relevance, only)
    PROVE  CueInv'
<1> DEFINE cue == [nr |-> nr + 1, of |-> e, frame |-> frame, only |-> only,
                   expire |-> frame + relevance]
<1>1. cue \in Cue
  BY CueAssumption DEF Cue, CueInv, TypeOK
<1>2. queue' = queue \cup {cue} /\ nr' = nr + 1
  BY DEF Emit
<1> HIDE DEF cue
<1>3. TypeOK'
  BY <1>1, <1>2 DEF CueInv, TypeOK, Emit
<1> QED BY <1>3 DEF CueInv, Emit, NotAhead, RecordsCarry, AcksCover, OwedIsKnown, CueIsKept

LEMMA BeginStepStep ==
    ASSUME CueInv, BeginStep PROVE CueInv'
<1>1. TypeOK'
  BY DEF CueInv, TypeOK, BeginStep
<1>2. NotAhead'
  <2> SUFFICES ASSUME NEW r \in net \cup acks PROVE r.frame < frame + 1
    BY DEF NotAhead, BeginStep, CueInv, TypeOK
  <2> QED BY DEF CueInv, TypeOK, NotAhead
<1> QED
  BY <1>1, <1>2 DEF CueInv, BeginStep, RecordsCarry, AcksCover, OwedIsKnown, CueIsKept

LEMMA TransferStep ==
    ASSUME CueInv, NEW e \in Entities, NEW c \in Everyone, Transfer(e, c)
    PROVE  CueInv'
<1>1. TypeOK'
  BY DEF CueInv, TypeOK, Transfer
<1> QED
  BY <1>1 DEF CueInv, Transfer, NotAhead, RecordsCarry, AcksCover, OwedIsKnown, CueIsKept

LEMMA EndTickStep ==
    ASSUME CueInv, EndTick PROVE CueInv'
<1>1. TypeOK'
  BY DEF CueInv, TypeOK, EndTick
<1> QED
  BY <1>1 DEF CueInv, EndTick, NotAhead, RecordsCarry, AcksCover, OwedIsKnown, CueIsKept

\* What the rediscovery leaves of an entity's state: that of an entity which was
\* replicated and goes on being so keeps its cues.
LEMMA RediscoveredKeeps ==
    ASSUME TypeOK, NEW started, NEW stopped, NEW changed, NEW c \in Clients, NEW e \in Entities
    PROVE  /\ Rediscovered(started, stopped, changed)[c][e] \in ClientEntity
           /\ e \notin started \cup stopped =>
                /\ Rediscovered(started, stopped, changed)[c][e].cues = state[c][e].cues
                /\ Rediscovered(started, stopped, changed)[c][e].known = state[c][e].known
<1> DEFINE s == state[c][e]
<1>1. frame \in Nat /\ s \in ClientEntity
  BY DEF TypeOK
<1>2. Rediscovered(started, stopped, changed)[c][e] =
        IF e \in stopped THEN NoState
        ELSE IF e \in started THEN MarkDirty(NewState)
        ELSE IF e \in changed /\ s.known THEN MarkDirty(s) ELSE s
  BY DEF Rediscovered
<1>3. MarkDirty(NewState) \in ClientEntity
  BY <1>1, NewStateType, MarkDirtyKeeps
<1>4. MarkDirty(s) \in ClientEntity /\ MarkDirty(s).cues = s.cues /\ MarkDirty(s).known = s.known
  BY <1>1, MarkDirtyKeeps
<1> HIDE DEF s
<1> QED
  <2>1. CASE e \in stopped
    BY <1>2, <2>1, NewStateType
  <2>2. CASE e \notin stopped /\ e \in started
    BY <1>2, <1>3, <2>2
  <2>3. CASE e \notin stopped /\ e \notin started
    BY <1>1, <1>2, <1>4, <2>3 DEF s
  <2> QED BY <2>1, <2>2, <2>3

LEMMA ObserveFrameStep ==
    ASSUME CueInv, NEW started \in SUBSET (Entities \ Replicated),
           NEW stopped \in SUBSET Replicated, NEW changed \in SUBSET Replicated,
           ObserveFrame(started, stopped, changed)
    PROVE  CueInv'
<1> DEFINE st == Rediscovered(started, stopped, changed)
<1>0. TypeOK
  BY DEF CueInv
<1>1. /\ phase = "jobs" /\ phase' = "flush" /\ frame' = frame /\ nr' = nr /\ owner' = owner
      /\ queue' = {}
      /\ net' \subseteq net /\ acks' \subseteq acks
  BY DEF ObserveFrame
<1>2. heard' \in [Everyone -> SUBSET Cue] /\ \A c \in Clients : heard[c] \subseteq heard'[c]
  <2>1. LocallyPlayed(st) \subseteq Cue
    BY <1>0 DEF LocallyPlayed, TypeOK
  <2>2. heard' = [heard EXCEPT ![Host] = @ \cup LocallyPlayed(st)]
    BY DEF ObserveFrame
  <2> HIDE DEF st
  <2> QED BY <1>0, <2>1, <2>2 DEF TypeOK, Everyone
<1>3. state' = [c \in Clients |-> [e \in Entities |-> Captured(st[c][e], c, e)]]
  BY DEF ObserveFrame
<1>4. \A c \in Clients : owed'[c] =
        {cue \in owed[c] : cue.of \notin stopped} \cup
        {cue \in queue : cue.frame = frame /\ st[c][cue.of].known /\ MayHear(c, cue)}
  BY DEF ObserveFrame
<1>5. ASSUME NEW c \in Clients, NEW e \in Entities
      PROVE  /\ st[c][e] \in ClientEntity
             /\ e \notin started \cup stopped =>
                  st[c][e].cues = state[c][e].cues /\ st[c][e].known = state[c][e].known
  BY <1>0, RediscoveredKeeps
<1>6. seen' \in [Clients -> [Entities -> Nat]]
  BY <1>0 DEF ObserveFrame, TypeOK
<1>7. DOMAIN owed' = Clients /\ owed' = [c \in Clients |-> owed'[c]]
  BY DEF ObserveFrame
<1> HIDE DEF st
<1>8. ASSUME NEW c \in Clients, NEW e \in Entities
      PROVE  /\ state'[c][e] \in ClientEntity
             /\ state'[c][e].known = st[c][e].known
             /\ st[c][e].cues \subseteq state'[c][e].cues
             /\ st[c][e].known => CapturedFor(c, e) \subseteq state'[c][e].cues
  <2>1. state'[c][e] = Captured(st[c][e], c, e)
    BY <1>3
  <2>2. frame \in Nat /\ queue \subseteq Cue /\ st[c][e] \in ClientEntity
    BY <1>0, <1>5 DEF TypeOK
  <2> QED BY <2>1, <2>2, CapturedKeeps
\* A cue the client must get is an old one of an entity that goes on, or a new one.
<1>9. ASSUME NEW c \in Clients, NEW cue \in owed'[c]
      PROVE  \/ cue \in owed[c] /\ cue.of \in Entities /\ cue.of \notin started \cup stopped
             \/ /\ cue \in queue /\ cue.of \in Entities /\ cue.frame = frame
                /\ st[c][cue.of].known /\ cue \in CapturedFor(c, cue.of)
  <2>1. CASE cue \in owed[c] /\ cue.of \notin stopped
    <3>1. cue.of \in Entities
      BY <2>1, <1>0 DEF TypeOK, Cue
    <3>2. state[c][cue.of].known
      BY <2>1 DEF CueInv, OwedIsKnown
    <3> QED BY <2>1, <3>1, <3>2 DEF Replicated
  <2>2. CASE cue \in queue /\ cue.frame = frame /\ st[c][cue.of].known /\ MayHear(c, cue)
    BY <2>2, <1>0 DEF TypeOK, Cue, CapturedFor
  <2> QED BY <1>4, <2>1, <2>2
<1>10. TypeOK'
  <2>1. state' \in [Clients -> [Entities -> ClientEntity]]
    BY <1>3, <1>8
  <2>2. owed' \in [Clients -> SUBSET Cue]
    <3>1. \A c \in Clients : owed'[c] \subseteq Cue
      BY <1>9, <1>0 DEF TypeOK
    <3> QED BY <3>1, <1>7
  <2> QED BY <2>1, <2>2, <1>0, <1>1, <1>2, <1>6 DEF TypeOK
<1>11. NotAhead'
  BY <1>1, <1>0 DEF CueInv, NotAhead
<1>12. OwedIsKnown'
  <2> SUFFICES ASSUME NEW c \in Clients, NEW cue \in owed'[c] PROVE state'[c][cue.of].known
    BY DEF OwedIsKnown
  <2>1. CASE cue \in owed[c] /\ cue.of \in Entities /\ cue.of \notin started \cup stopped
    BY <2>1, <1>5, <1>8 DEF CueInv, OwedIsKnown
  <2>2. CASE cue.of \in Entities /\ st[c][cue.of].known
    BY <2>2, <1>8
  <2> QED BY <1>9, <2>1, <2>2
<1>13. CueIsKept'
  <2> SUFFICES ASSUME NEW c \in Clients, NEW cue \in owed'[c]
               PROVE  cue \in heard'[c] \/ cue \in state'[c][cue.of].cues
    BY DEF CueIsKept
  <2>1. CASE cue \in owed[c] /\ cue.of \in Entities /\ cue.of \notin started \cup stopped
    <3>1. cue \in heard[c] \/ cue \in state[c][cue.of].cues
      BY <2>1 DEF CueInv, CueIsKept
    <3> QED BY <2>1, <3>1, <1>2, <1>5, <1>8
  <2>2. CASE cue.of \in Entities /\ st[c][cue.of].known /\ cue \in CapturedFor(c, cue.of)
    BY <2>2, <1>8
  <2> QED BY <1>9, <2>1, <2>2
<1>14. RecordsCarry'
  <2> SUFFICES ASSUME NEW r \in net', NEW cue \in owed'[r.to], cue.of = r.of, cue.frame <= r.frame
               PROVE  cue \in heard'[r.to] \/ cue \in r.cues
    BY DEF RecordsCarry
  <2>1. r \in net /\ r.to \in Clients /\ r.frame < frame /\ r.frame \in Nat /\ frame \in Nat
    BY <1>0, <1>1 DEF TypeOK, CueInv, NotAhead
  <2>2. cue \in owed[r.to]
    BY <2>1, <1>9
  <2> QED BY <2>1, <2>2, <1>2 DEF CueInv, RecordsCarry
<1>15. AcksCover'
  <2> SUFFICES ASSUME NEW a \in acks', NEW cue \in owed'[a.to], cue.of = a.of, cue.frame <= a.frame
               PROVE  cue \in heard'[a.to]
    BY DEF AcksCover
  <2>1. a \in acks /\ a.to \in Clients /\ a.frame < frame /\ a.frame \in Nat /\ frame \in Nat
    BY <1>0, <1>1 DEF TypeOK, CueInv, NotAhead
  <2>2. cue \in owed[a.to]
    BY <2>1, <1>9
  <2> QED BY <2>1, <2>2, <1>2 DEF CueInv, AcksCover
<1> QED BY <1>10, <1>11, <1>12, <1>13, <1>14, <1>15 DEF CueInv

LEMMA SendClientStep ==
    ASSUME CueInv, NEW c \in Clients, NEW batch \in SUBSET Entities, SendClient(c, batch)
    PROVE  CueInv'
<1> DEFINE fresh == [e \in Entities |-> Expired(state[c][e])]
           sent == {[to |-> c, of |-> e, frame |-> frame, cues |-> fresh[e].cues] : e \in batch}
<1>0. TypeOK
  BY DEF CueInv
<1>1. /\ phase = "flush" /\ phase' = phase /\ frame' = frame /\ nr' = nr /\ owner' = owner
      /\ queue' = queue /\ acks' = acks /\ seen' = seen /\ heard' = heard
      /\ net' = net \cup sent
      /\ state' = [state EXCEPT ![c] = [e \in Entities |->
                     IF e \in batch THEN Recorded(fresh[e]) ELSE fresh[e]]]
      /\ owed' = [owed EXCEPT ![c] = {cue \in @ : frame <= cue.expire}]
  BY DEF SendClient
<1>2. ASSUME NEW e \in Entities
      PROVE  /\ fresh[e] \in ClientEntity /\ Recorded(fresh[e]) \in ClientEntity
             /\ fresh[e].cues = {cue \in state[c][e].cues : frame <= cue.expire}
             /\ Recorded(fresh[e]).cues = {cue \in state[c][e].cues : frame <= cue.expire}
             /\ fresh[e].known = state[c][e].known
             /\ Recorded(fresh[e]).known = state[c][e].known
  <2>1. frame \in Nat /\ state[c][e] \in ClientEntity /\ fresh[e] = Expired(state[c][e])
    BY <1>0 DEF TypeOK
  <2> HIDE DEF fresh
  <2> QED BY <2>1, ExpiredKeeps
<1> HIDE DEF fresh
<1>3. ASSUME NEW r \in sent
      PROVE  /\ r \in [to : Clients, of : Entities, frame : Nat, cues : SUBSET Cue]
             /\ r.to = c /\ r.frame = frame /\ r.of \in Entities
             /\ r.cues = {cue \in state[c][r.of].cues : frame <= cue.expire}
  <2>1. PICK e \in batch : r = [to |-> c, of |-> e, frame |-> frame, cues |-> fresh[e].cues]
    OBVIOUS
  <2>2. e \in Entities /\ fresh[e].cues \subseteq Cue /\ frame \in Nat
    BY <1>0, <1>2 DEF TypeOK, ClientEntity
  <2> QED BY <2>1, <2>2, <1>2
<1> HIDE DEF sent
<1>4. \A e \in Entities :
        /\ state'[c][e] \in ClientEntity
        /\ state'[c][e].cues = {cue \in state[c][e].cues : frame <= cue.expire}
        /\ state'[c][e].known = state[c][e].known
  <2> TAKE e \in Entities
  <2>1. state'[c][e] = IF e \in batch THEN Recorded(fresh[e]) ELSE fresh[e]
    BY <1>0, <1>1 DEF TypeOK
  <2>2. CASE e \in batch
    BY <2>1, <2>2, <1>2
  <2>3. CASE e \notin batch
    BY <2>1, <2>3, <1>2
  <2> QED BY <2>2, <2>3
<1>5. \A d \in Clients : d # c => state'[d] = state[d] /\ owed'[d] = owed[d]
  BY <1>0, <1>1 DEF TypeOK
<1>6. owed'[c] = {cue \in owed[c] : frame <= cue.expire}
  BY <1>0, <1>1 DEF TypeOK
<1>7. \A d \in Clients : owed'[d] \subseteq owed[d] /\ \A cue \in owed'[d] : cue.of \in Entities
  BY <1>0, <1>5, <1>6 DEF TypeOK, Cue
<1>8. TypeOK'
  <2>1. state' \in [Clients -> [Entities -> ClientEntity]]
    <3>1. state'[c] \in [Entities -> ClientEntity]
      BY <1>0, <1>1, <1>4 DEF TypeOK
    <3>2. state' = [state EXCEPT ![c] = state'[c]]
      BY <1>0, <1>1 DEF TypeOK
    <3> QED BY <3>1, <3>2, <1>0 DEF TypeOK
  <2>2. owed' \in [Clients -> SUBSET Cue]
    BY <1>0, <1>1 DEF TypeOK
  <2>3. net' \subseteq [to : Clients, of : Entities, frame : Nat, cues : SUBSET Cue]
    BY <1>0, <1>1, <1>3 DEF TypeOK
  <2> QED BY <2>1, <2>2, <2>3, <1>0, <1>1 DEF TypeOK
<1>9. NotAhead'
  BY <1>0, <1>1, <1>3 DEF CueInv, NotAhead, TypeOK
<1>10. OwedIsKnown'
  <2> SUFFICES ASSUME NEW d \in Clients, NEW cue \in owed'[d] PROVE state'[d][cue.of].known
    BY DEF OwedIsKnown
  <2>1. state[d][cue.of].known /\ cue.of \in Entities
    BY <1>7 DEF CueInv, OwedIsKnown
  <2> QED BY <2>1, <1>4, <1>5
<1>11. CueIsKept'
  <2> SUFFICES ASSUME NEW d \in Clients, NEW cue \in owed'[d]
               PROVE  cue \in heard[d] \/ cue \in state'[d][cue.of].cues
    BY <1>1 DEF CueIsKept
  <2>1. (cue \in heard[d] \/ cue \in state[d][cue.of].cues) /\ cue.of \in Entities
    BY <1>7 DEF CueInv, CueIsKept
  <2> QED BY <2>1, <1>4, <1>5, <1>6
<1>12. RecordsCarry'
  <2> SUFFICES ASSUME NEW r \in net', NEW cue \in owed'[r.to], cue.of = r.of, cue.frame <= r.frame
               PROVE  cue \in heard[r.to] \/ cue \in r.cues
    BY <1>1 DEF RecordsCarry
  <2>1. CASE r \in net
    <3>1. r.to \in Clients
      BY <2>1, <1>0 DEF TypeOK
    <3> QED BY <2>1, <3>1, <1>7 DEF CueInv, RecordsCarry
  <2>2. CASE r \in sent
    <3>1. cue \in owed[c] /\ frame <= cue.expire
      BY <2>2, <1>3, <1>6
    <3>2. cue \in heard[c] \/ cue \in state[c][cue.of].cues
      BY <3>1 DEF CueInv, CueIsKept
    <3> QED BY <2>2, <3>1, <3>2, <1>3
  <2> QED BY <2>1, <2>2, <1>1
<1>13. AcksCover'
  <2> SUFFICES ASSUME NEW a \in acks, NEW cue \in owed'[a.to], cue.of = a.of, cue.frame <= a.frame
               PROVE  cue \in heard[a.to]
    BY <1>1 DEF AcksCover
  <2>1. a.to \in Clients
    BY <1>0 DEF TypeOK
  <2> QED BY <2>1, <1>7 DEF CueInv, AcksCover
<1> QED BY <1>8, <1>9, <1>10, <1>11, <1>12, <1>13 DEF CueInv

LEMMA ReceiveUpdateStep ==
    ASSUME CueInv, NEW r \in net, ReceiveUpdate(r)
    PROVE  CueInv'
<1> DEFINE ack == [to |-> r.to, of |-> r.of, frame |-> r.frame]
<1>0. TypeOK
  BY DEF CueInv
<1>1. r \in [to : Clients, of : Entities, frame : Nat, cues : SUBSET Cue]
  BY <1>0 DEF TypeOK
<1>2. ack \in [to : Clients, of : Entities, frame : Nat]
      /\ ack.to = r.to /\ ack.of = r.of /\ ack.frame = r.frame
  BY <1>1
<1>3. /\ acks' = acks \cup {ack}
      /\ heard' = [heard EXCEPT ![r.to] = @ \cup r.cues]
      /\ seen' = [seen EXCEPT ![r.to][r.of] = r.frame]
      /\ UNCHANGED <<frame, phase, queue, owner, state, net, owed, nr>>
  BY DEF ReceiveUpdate
<1> HIDE DEF ack
<1>4. /\ \A c \in Clients : heard[c] \subseteq heard'[c]
      /\ r.cues \subseteq heard'[r.to]
  BY <1>0, <1>1, <1>3 DEF TypeOK, Everyone
<1>5. TypeOK'
  <2>1. heard' \in [Everyone -> SUBSET Cue]
    BY <1>0, <1>1, <1>3 DEF TypeOK, Everyone
  <2>2. seen' \in [Clients -> [Entities -> Nat]]
    BY <1>0, <1>1, <1>3 DEF TypeOK
  <2>3. acks' \subseteq [to : Clients, of : Entities, frame : Nat]
    BY <1>0, <1>2, <1>3 DEF TypeOK
  <2> QED BY <2>1, <2>2, <2>3, <1>0, <1>3 DEF TypeOK
<1>6. NotAhead'
  BY <1>2, <1>3 DEF CueInv, NotAhead
<1>7. OwedIsKnown'
  BY <1>3 DEF CueInv, OwedIsKnown
<1>8. CueIsKept'
  BY <1>3, <1>4 DEF CueInv, CueIsKept
<1>9. RecordsCarry'
  <2> SUFFICES ASSUME NEW q \in net, NEW cue \in owed[q.to], cue.of = q.of, cue.frame <= q.frame
               PROVE  cue \in heard'[q.to] \/ cue \in q.cues
    BY <1>3 DEF RecordsCarry
  <2>1. q.to \in Clients
    BY <1>0 DEF TypeOK
  <2> QED BY <2>1, <1>4 DEF CueInv, RecordsCarry
<1>10. AcksCover'
  <2> SUFFICES ASSUME NEW a \in acks', NEW cue \in owed[a.to], cue.of = a.of, cue.frame <= a.frame
               PROVE  cue \in heard'[a.to]
    BY <1>3 DEF AcksCover
  <2>1. CASE a \in acks
    <3>1. a.to \in Clients
      BY <2>1, <1>0 DEF TypeOK
    <3> QED BY <2>1, <3>1, <1>4 DEF CueInv, AcksCover
  <2>2. CASE a = ack
    <3>1. cue \in heard[r.to] \/ cue \in r.cues
      BY <2>2, <1>2 DEF CueInv, RecordsCarry
    <3> QED BY <2>2, <3>1, <1>1, <1>2, <1>4
  <2> QED BY <2>1, <2>2, <1>3
<1> QED BY <1>5, <1>6, <1>7, <1>8, <1>9, <1>10 DEF CueInv

LEMMA ReceiveAckStep ==
    ASSUME CueInv, NEW a \in acks, NEW eligible \in BOOLEAN, ReceiveAck(a, eligible)
    PROVE  CueInv'
<1> DEFINE s == state[a.to][a.of]
           t == Acknowledged(s, a.frame, eligible)
<1>0. TypeOK
  BY DEF CueInv
<1>1. a.to \in Clients /\ a.of \in Entities /\ a.frame \in Nat /\ s \in ClientEntity
  BY <1>0 DEF TypeOK
<1>2. /\ state' = [state EXCEPT ![a.to][a.of] = t]
      /\ UNCHANGED <<frame, phase, queue, owner, net, acks, seen, heard, owed, nr>>
  BY DEF ReceiveAck
<1>3. /\ t \in ClientEntity /\ t.known = s.known
      /\ t.cues = {cue \in s.cues : cue.frame > a.frame}
  BY <1>1, AcknowledgedKeeps
<1> HIDE DEF t
<1>4. /\ state' \in [Clients -> [Entities -> ClientEntity]]
      /\ state'[a.to][a.of] = t
      /\ \A c \in Clients, e \in Entities :
           ~(c = a.to /\ e = a.of) => state'[c][e] = state[c][e]
  BY <1>0, <1>1, <1>2, <1>3 DEF TypeOK
<1>5. TypeOK'
  BY <1>0, <1>2, <1>4 DEF TypeOK
<1>6. NotAhead' /\ RecordsCarry' /\ AcksCover'
  BY <1>2 DEF CueInv, NotAhead, RecordsCarry, AcksCover
<1>7. ASSUME NEW c \in Clients, NEW cue \in owed[c]
      PROVE  /\ state'[c][cue.of].known
             /\ cue \in heard[c] \/ cue \in state'[c][cue.of].cues
  <2>1. cue.of \in Entities /\ cue.frame \in Nat
    BY <1>0 DEF TypeOK, Cue
  <2>2. /\ state[c][cue.of].known
        /\ cue \in heard[c] \/ cue \in state[c][cue.of].cues
    BY DEF CueInv, OwedIsKnown, CueIsKept
  <2>3. CASE c = a.to /\ cue.of = a.of
    <3>1. cue.frame <= a.frame => cue \in heard[c]
      BY <2>3 DEF CueInv, AcksCover
    <3>2. cue.frame <= a.frame \/ cue.frame > a.frame
      BY <2>1, <1>1
    <3> QED BY <2>2, <2>3, <3>1, <3>2, <1>3, <1>4
  <2>4. CASE ~(c = a.to /\ cue.of = a.of)
    BY <2>1, <2>2, <2>4, <1>4
  <2> QED BY <2>3, <2>4
<1>8. OwedIsKnown' /\ CueIsKept'
  BY <1>2, <1>7 DEF OwedIsKnown, CueIsKept
<1> QED BY <1>5, <1>6, <1>8 DEF CueInv

LEMMA CueStep ==
    ASSUME CueInv, [Next]_vars PROVE CueInv'
<1>1. CASE UNCHANGED vars
  BY <1>1 DEF vars, CueInv, TypeOK, NotAhead, RecordsCarry, AcksCover, OwedIsKnown, CueIsKept
<1>2. CASE Next
  BY <1>2, EmitStep, BeginStepStep, TransferStep, ObserveFrameStep, SendClientStep,
     EndTickStep, ReceiveUpdateStep, ReceiveAckStep DEF Next
<1> QED BY <1>1, <1>2

--------------------------------------------------------------------------------
\* Type correctness of the server's cue queue, the state of every client's
\* entities, the records and the ACKs.
THEOREM TypeCorrect == Spec => []TypeOK
<1>1. CueInv => TypeOK
  BY DEF CueInv
<1> QED BY InitStep, CueStep, <1>1, PTL DEF Spec

\* However records and ACKs are lost, repeated, delayed or reordered, and however
\* entities start, stop and change owner, no cue emitted during its frame is
\* given up before the client was given it, it expired or its entity stopped
\* (capture_queued_cues, acknowledge_cues, expire_pending_cues).
THEOREM CueIsKeptAlways == Spec => []CueIsKept
<1>1. CueInv => CueIsKept
  BY DEF CueInv
<1> QED BY InitStep, CueStep, <1>1, PTL DEF Spec

--------------------------------------------------------------------------------
(* The clock of a client (ClientClock)                                        *)

\* The lags and the leads that fit the rings they index.
LagRange == 0 .. (cfg.lagCapacity - 1)
LeadRange == 0 .. (cfg.inputCapacity - 1)

\* The fields of the clock; every lag and lead of it fits its ring.
ClockState ==
  [local : Nat, offset : Int, buffered : Int, predicted : Int,
   lag : LagRange, desiredLag : LagRange, targetLag : LagRange,
   desiredLead : LeadRange, targetLead : LeadRange, currentLead : Int, dilation : Int,
   latency : Int, jitter : Int, samples : Int, warmup : Int,
   synced : BOOLEAN, booted : BOOLEAN]

\* What validate_client_options has accepted.
GoodConfig == cfg \in Clk!ClockConfig /\ Clk!ValidTiming(cfg)

\* The fields of a valid configuration.
LEMMA ConfigFacts ==
    ASSUME GoodConfig
    PROVE  /\ {cfg.lagCapacity, cfg.inputCapacity, cfg.lag, cfg.minLag, cfg.lead, cfg.minLead,
               cfg.minDilation, cfg.maxDilation, cfg.gain, cfg.minGap, cfg.jitterMultiplier,
               cfg.safety, cfg.warmup, cfg.maxSteps} \subseteq Nat
           /\ cfg.smoothing \in Nat \ {0}
           /\ cfg.lag \in LagRange /\ cfg.minLag \in LagRange
           /\ cfg.lead \in LeadRange /\ cfg.minLead \in LeadRange
BY DEF GoodConfig, Clk!ClockConfig, Clk!ValidTiming, LagRange, LeadRange

\* A frame has a duration.
LEMMA SubPositive == Sub \in Nat /\ Sub > 0
BY ClientAssumption DEF Clk!ClockAssumption

\* Division by a positive number.
LEMMA DivType ==
    ASSUME NEW x \in Int, NEW y \in Nat, y > 0
    PROVE  x \div y \in Int
OBVIOUS

LEMMA DivBounds ==
    ASSUME NEW x \in Int, NEW y \in Nat, y > 0
    PROVE  (x \div y) * y <= x /\ x < (x \div y) * y + y
OBVIOUS

\* A frame number as a time.
LEMMA ScaledFrame ==
    ASSUME NEW x \in Int, NEW y \in Nat
    PROVE  x * y \in Int
OBVIOUS

\* A quotient lies between 0 and what was divided.
LEMMA QuotientBetween ==
    ASSUME NEW d \in Int, NEW s \in Nat, s > 0
    PROVE  /\ d \div s \in Int
           /\ d >= 0 => 0 <= d \div s /\ d \div s <= d
           /\ d <= 0 => d <= d \div s /\ d \div s <= 0
<1>1. PICK q \in Int : q = d \div s
  BY DivType
<1>2. PICK p \in Int : p = q * s
  BY <1>1
<1>3. p <= d /\ d < p + s
  BY <1>1, <1>2, DivBounds
<1>4. q >= 0 => p >= q
  BY <1>1, <1>2
<1>5. q <= -1 => p <= -s
  <2>1. SUFFICES ASSUME q <= -1 PROVE p <= -s
    OBVIOUS
  <2>2. q * s <= (-1) * s
    BY <2>1
  <2> QED BY <2>2, <1>2
<1>6. q >= 1 => p >= s
  <2>1. SUFFICES ASSUME q >= 1 PROVE p >= s
    OBVIOUS
  <2>2. q * s >= 1 * s
    BY <2>1
  <2> QED BY <2>2, <1>2
<1>7. q + 1 <= 0 => p + s <= q + 1
  <2>1. SUFFICES ASSUME q + 1 <= 0 PROVE p + s <= q + 1
    OBVIOUS
  <2>2. (q + 1) * s <= q + 1
    BY <2>1
  <2>3. (q + 1) * s = q * s + s
    OBVIOUS
  <2> QED BY <2>2, <2>3, <1>2
<1>8. q \in Int /\ (d >= 0 => 0 <= q /\ q <= d) /\ (d <= 0 => d <= q /\ q <= 0)
  BY <1>3, <1>4, <1>5, <1>6, <1>7
<1> QED BY <1>1, <1>8

\* Smoothing ends between the old value and the sample.
LEMMA SmoothedBetween ==
    ASSUME GoodConfig, NEW old \in Int, NEW new \in Int
    PROVE  /\ Clk!Smoothed(old, new) \in Int
           /\ old <= new => old <= Clk!Smoothed(old, new) /\ Clk!Smoothed(old, new) <= new
           /\ new <= old => new <= Clk!Smoothed(old, new) /\ Clk!Smoothed(old, new) <= old
<1>1. PICK s \in Nat : s = cfg.smoothing /\ s > 0
  BY ConfigFacts
<1>2. PICK q \in Int : q = (new - old) \div s
  BY <1>1, DivType
<1>3. (new - old >= 0 => 0 <= q /\ q <= new - old) /\ (new - old <= 0 => new - old <= q /\ q <= 0)
  BY <1>1, <1>2, QuotientBetween
<1>4. Clk!Smoothed(old, new) = old + q
  BY <1>1, <1>2 DEF Clk!Smoothed
<1> QED BY <1>3, <1>4

\* Conversions between times and frames yield integers.
LEMMA CeilFramesType ==
    ASSUME NEW x \in Int
    PROVE  Clk!CeilFrames(x) \in Int
<1>1. Clk!AtLeast(x, 0) \in Int
  BY DEF Clk!AtLeast
<1> QED BY <1>1, SubPositive, DivType DEF Clk!CeilFrames

LEMMA RoundedType ==
    ASSUME NEW x \in Int
    PROVE  Clk!RoundedFrameCount(x) \in Int
BY SubPositive, DivType DEF Clk!RoundedFrameCount

LEMMA FrameOfType ==
    ASSUME NEW x \in Int
    PROVE  Clk!FrameOf(x) \in Int /\ Clk!FrameOf(x) * Sub \in Int
BY SubPositive, DivType DEF Clk!FrameOf

\* What a target is clamped to fits the ring.
LEMMA TargetsInRange ==
    ASSUME GoodConfig, NEW x \in Int
    PROVE  Clk!ClampLagTarget(x) \in LagRange /\ Clk!ClampLeadTarget(x) \in LeadRange
BY ConfigFacts DEF Clk!ClampLagTarget, Clk!ClampLeadTarget, Clk!Clamp, Clk!AtLeast, Clk!AtMost,
   LagRange, LeadRange

\* So does the absolute value.
LEMMA AbsType == ASSUME NEW x \in Int PROVE Clk!Abs(x) \in Int
BY DEF Clk!Abs

\* The step changes neither the time nor what the estimate of the server's time
\* rests on.
SameTime(c, d) ==
  d.local = c.local /\ d.offset = c.offset /\ d.synced = c.synced /\ d.booted = c.booted

\* The fields of a clock.
LEMMA ClockFields ==
    ASSUME NEW c \in ClockState
    PROVE  /\ c.local \in Nat
           /\ {c.offset, c.buffered, c.predicted, c.currentLead, c.dilation, c.latency,
               c.jitter, c.samples, c.warmup} \subseteq Int
           /\ {c.lag, c.desiredLag, c.targetLag} \subseteq LagRange
           /\ {c.desiredLead, c.targetLead} \subseteq LeadRange
           /\ c.synced \in BOOLEAN /\ c.booted \in BOOLEAN
BY DEF ClockState

\* The ranges of lag and lead are numbers.
LEMMA RangesAreIntegers ==
    ASSUME GoodConfig
    PROVE  LagRange \subseteq Nat /\ LeadRange \subseteq Nat
BY ConfigFacts DEF LagRange, LeadRange

\* compute_auto_targets
LEMMA AutoTargetsKeep ==
    ASSUME GoodConfig, NEW c \in ClockState
    PROVE  Clk!ComputeAutoTargets(c) \in ClockState /\ SameTime(c, Clk!ComputeAutoTargets(c))
<1>1. PICK x \in Int : x = c.latency + cfg.jitterMultiplier * c.jitter
  BY ConfigFacts, ClockFields
<1>2. PICK y \in Int : y = 2 * x + cfg.safety * Sub
  BY ConfigFacts, SubPositive
<1>3. PICK lag \in LagRange : lag = Clk!ClampLagTarget(Clk!CeilFrames(x))
  BY CeilFramesType, TargetsInRange
<1>4. PICK ahead \in LeadRange : ahead = Clk!ClampLeadTarget(Clk!CeilFrames(y))
  BY CeilFramesType, TargetsInRange
<1>5. Clk!ComputeAutoTargets(c) =
        [c EXCEPT !.desiredLag = lag, !.targetLag = lag,
                  !.desiredLead = ahead, !.targetLead = ahead]
  BY <1>1, <1>2, <1>3, <1>4 DEF Clk!ComputeAutoTargets
<1> QED BY <1>5 DEF ClockState, SameTime

\* record_ping_sample
LEMMA PingSampleKeeps ==
    ASSUME GoodConfig, NEW c \in ClockState, NEW sample \in Int
    PROVE  /\ Clk!RecordPingSample(c, sample) \in ClockState
           /\ SameTime(c, Clk!RecordPingSample(c, sample))
<1>0. /\ c.latency \in Int /\ c.jitter \in Int /\ c.samples \in Int /\ c.warmup \in Int
      /\ cfg.warmup \in Int
  BY ConfigFacts, ClockFields
<1>1. PICK x \in Int :
        x = IF c.samples = 0 THEN sample ELSE Clk!Smoothed(c.latency, sample)
  BY <1>0, SmoothedBetween
<1>2. PICK a \in Int : a = Clk!Abs(sample - c.latency)
  BY <1>0, AbsType
<1>3. PICK y \in Int : y = IF c.samples = 0 THEN 0 ELSE Clk!Smoothed(c.jitter, a)
  BY <1>0, <1>2, SmoothedBetween
<1>4. PICK n \in Int : n = Clk!AtMost(c.samples + 1, 1)
  BY <1>0 DEF Clk!AtMost
<1>5. PICK w \in Int : w = Clk!AtMost(c.warmup + 1, Clk!AtLeast(cfg.warmup, c.warmup))
  BY <1>0 DEF Clk!AtMost, Clk!AtLeast
<1> DEFINE sampled == [c EXCEPT !.latency = x, !.jitter = y, !.samples = n, !.warmup = w]
<1>6. sampled \in ClockState /\ SameTime(c, sampled)
  BY DEF ClockState, SameTime
<1>7. Clk!RecordPingSample(c, sample) =
        IF Clk!WarmedUp(sampled) THEN Clk!ComputeAutoTargets(sampled) ELSE sampled
  BY <1>1, <1>2, <1>3, <1>4, <1>5 DEF Clk!RecordPingSample
<1> HIDE DEF sampled
<1>8. /\ Clk!ComputeAutoTargets(sampled) \in ClockState
      /\ SameTime(sampled, Clk!ComputeAutoTargets(sampled))
  BY <1>6, AutoTargetsKeep
<1> QED BY <1>6, <1>7, <1>8 DEF SameTime

\* The buffered time and the estimate are integers.
LEMMA BufferedForType ==
    ASSUME GoodConfig, NEW c \in ClockState
    PROVE  Clk!BufferedFor(c) \in Int /\ Clk!EstimatedServerTime(c) \in Int
<1>1. PICK l \in Nat : l = c.lag
  BY RangesAreIntegers, ClockFields
<1>2. PICK x \in Int : x = Clk!EstimatedServerTime(c)
  BY ClockFields DEF Clk!EstimatedServerTime
<1>3. PICK y \in Int : y = l * Sub
  BY SubPositive
<1>4. Clk!AtLeast(x - y, 0) \in Int
  BY DEF Clk!AtLeast
<1> QED BY <1>1, <1>2, <1>3, <1>4 DEF Clk!BufferedFor

\* reconfigure_frames_from_estimated_server_time
LEMMA ReconfigureKeeps ==
    ASSUME GoodConfig, NEW c \in ClockState
    PROVE  Clk!ReconfigureFrames(c) \in ClockState /\ SameTime(c, Clk!ReconfigureFrames(c))
<1>1. PICK ahead \in Int : ahead = IF cfg.autoLead THEN c.targetLead ELSE cfg.lead
  BY ConfigFacts, ClockFields, RangesAreIntegers
<1>2. PICK b \in Int : b = Clk!BufferedFor(c)
  BY BufferedForType
<1>3. PICK r \in Int : r = Clk!RoundedFrameCount(Clk!EstimatedServerTime(c))
  BY BufferedForType, RoundedType
<1>4. PICK p \in Int : p = (r + ahead) * Sub
  BY SubPositive, ScaledFrame
<1>5. Clk!ReconfigureFrames(c) =
        [c EXCEPT !.buffered = b, !.predicted = p, !.currentLead = ahead]
  BY <1>1, <1>2, <1>3, <1>4 DEF Clk!ReconfigureFrames
<1> QED BY <1>5 DEF ClockState, SameTime

\* An estimate of the offset is off by less than the longest delay and a frame.
Close(x) == skew - Clk!MaxDelay - Sub < x /\ x < skew + Clk!MaxDelay + Sub

\* Once there is an estimate, it is close.
Estimated(c) == c.booted \/ c.synced => Close(c.offset)

\* The longest delay bounds every other.
LEMMA LongestDelay ==
    /\ Clk!MaxDelay \in Nat
    /\ \A d \in Delays : d \in Nat /\ d <= Clk!MaxDelay
<1>1. PICK longest \in Delays : \A d \in Delays : d <= longest
  BY ClientAssumption DEF Clk!ClockAssumption
<1>2. Delays \subseteq Nat
  BY ClientAssumption DEF Clk!ClockAssumption
<1>3. \E x \in Delays : \A y \in Delays : x >= y
  BY <1>1, <1>2
<1>4. /\ (CHOOSE x \in Delays : \A y \in Delays : x >= y) \in Delays
      /\ \A y \in Delays : (CHOOSE x \in Delays : \A z \in Delays : x >= z) >= y
  BY <1>3, Zenon
<1>5. /\ Clk!MaxDelay \in Delays
      /\ \A y \in Delays : Clk!MaxDelay >= y
  BY <1>4, Zenon DEF Clk!MaxDelay, Clk!Max
<1> QED BY <1>2, <1>5

\* Half the sum of both ways is closer than the longest of them.
LEMMA SampleIsClose ==
    ASSUME skew \in Int, NEW sent \in Int, NEW now \in Int, NEW up \in Delays,
           now - sent - up \in Delays
    PROVE  /\ Clk!SampleOffset(sent, sent + skew + up, sent + skew + up, now) \in Int
           /\ Close(Clk!SampleOffset(sent, sent + skew + up, sent + skew + up, now))
<1>1. PICK down \in Delays : down = now - sent - up
  OBVIOUS
<1>2. /\ Clk!MaxDelay \in Nat /\ up \in Nat /\ down \in Nat
      /\ up <= Clk!MaxDelay /\ down <= Clk!MaxDelay
  BY LongestDelay
<1>3. PICK q \in Int : q = (2 * skew + up - down) \div 2
  BY <1>2, DivType
<1>4. q * 2 <= 2 * skew + up - down /\ 2 * skew + up - down < q * 2 + 2
  BY <1>2, <1>3, DivBounds
<1>5. ((sent + skew + up) - sent) + ((sent + skew + up) - now) = 2 * skew + up - down
  BY <1>1, <1>2
<1>6. Clk!SampleOffset(sent, sent + skew + up, sent + skew + up, now) = q
  BY <1>3, <1>5 DEF Clk!SampleOffset
<1>7. Close(q)
  BY <1>2, <1>3, <1>4, SubPositive DEF Close
<1> QED BY <1>6, <1>7

\* Smoothing between close offsets stays close.
LEMMA SmoothedIsClose ==
    ASSUME GoodConfig, skew \in Int, NEW x \in Int, NEW y \in Int, Close(x), Close(y)
    PROVE  Close(Clk!Smoothed(x, y))
<1>1. PICK z \in Int : /\ z = Clk!Smoothed(x, y)
                       /\ x <= y => x <= z /\ z <= y
                       /\ y <= x => y <= z /\ z <= x
  BY SmoothedBetween
<1>2. Close(z)
  BY <1>1, LongestDelay, SubPositive DEF Close
<1> QED BY <1>1, <1>2

\* record_time_sync_sample, of a pong the server answered at once
LEMMA TimeSyncKeeps ==
    ASSUME GoodConfig, skew \in Int, NEW c \in ClockState, Estimated(c),
           NEW sent \in Int, NEW up \in Delays, c.local - sent - up \in Delays,
           NEW answered, answered = sent + skew + up
    PROVE  /\ Clk!RecordTimeSyncSample(c, sent, answered, answered) \in ClockState
           /\ Estimated(Clk!RecordTimeSyncSample(c, sent, answered, answered))
<1> DEFINE result == Clk!RecordTimeSyncSample(c, sent, answered, answered)
<1>0. up \in Nat /\ c.local \in Nat /\ answered \in Int /\ c.offset \in Int
      /\ c.synced \in BOOLEAN /\ c.booted \in BOOLEAN
  BY LongestDelay, ClockFields
<1>1. PICK o \in Int : o = Clk!SampleOffset(sent, answered, answered, c.local) /\ Close(o)
  BY <1>0, SampleIsClose
<1>2. PICK trip \in Int : trip = (c.local - sent) - (answered - answered)
  BY <1>0
<1>3. PICK half \in Int : half = trip \div 2
  BY DivType
<1>4. PICK sampled \in ClockState : sampled = Clk!RecordPingSample(c, half) /\ SameTime(c, sampled)
  BY PingSampleKeeps
<1>5. PICK jumps \in BOOLEAN :
        jumps = (c.booted /\ Clk!Abs(o - c.offset) >= Clk!ReconfigureThreshold(sampled))
  OBVIOUS
<1>6. PICK moved \in Int :
        /\ moved = IF ~c.synced \/ jumps THEN o ELSE Clk!Smoothed(sampled.offset, o)
        /\ Close(moved)
  <2>1. CASE ~c.synced \/ jumps
    BY <1>1, <2>1
  <2>2. CASE c.synced /\ ~jumps
    <3>1. sampled.offset = c.offset /\ Close(c.offset)
      BY <1>4, <2>2 DEF SameTime, Estimated
    <3>2. Clk!Smoothed(sampled.offset, o) \in Int /\ Close(Clk!Smoothed(sampled.offset, o))
      BY <1>0, <1>1, <3>1, SmoothedBetween, SmoothedIsClose
    <3> QED BY <2>2, <3>2
  <2> QED BY <2>1, <2>2, <1>0
<1> DEFINE synced == [sampled EXCEPT !.offset = moved, !.synced = TRUE]
<1>7. synced \in ClockState /\ synced.offset = moved
  BY DEF ClockState
<1>8. result = IF sent > c.local \/ answered > answered \/ trip < 0 THEN c
               ELSE IF jumps THEN Clk!ReconfigureFrames(synced) ELSE synced
  BY <1>1, <1>2, <1>3, <1>4, <1>5, <1>6 DEF Clk!RecordTimeSyncSample
<1> HIDE DEF synced
<1>9. Clk!ReconfigureFrames(synced) \in ClockState
      /\ Clk!ReconfigureFrames(synced).offset = moved
  BY <1>7, ReconfigureKeeps DEF SameTime
<1>10. result \in ClockState /\ Estimated(result)
  <2> HIDE DEF result
  <2> QED BY <1>6, <1>7, <1>8, <1>9 DEF Estimated
<1> QED BY <1>10

\* maybe_bootstrap, with a frame that the server has been in lately
LEMMA BootstrapKeeps ==
    ASSUME GoodConfig, skew \in Int, NEW c \in ClockState, Estimated(c),
           NEW f \in Int, Close(f * Sub - c.local),
           NEW seed \in BOOLEAN, NEW complete \in BOOLEAN
    PROVE  /\ Clk!MaybeBootstrap(c, f, seed, complete) \in ClockState
           /\ Estimated(Clk!MaybeBootstrap(c, f, seed, complete))
<1>0. c.local \in Nat /\ c.offset \in Int /\ c.synced \in BOOLEAN /\ c.booted \in BOOLEAN
      /\ c.warmup \in Int /\ f * Sub \in Int
  BY ClockFields, SubPositive, ScaledFrame
<1>1. PICK anchors \in BOOLEAN :
        anchors = (\/ ~c.synced
                   \/ Clk!Abs(Clk!EstimatedServerTime(c) - f * Sub) >= Clk!ReconfigureThreshold(c))
  OBVIOUS
<1>2. PICK o \in Int : o = IF anchors THEN f * Sub - c.local ELSE c.offset
  BY <1>0
<1>3. Close(o)
  BY <1>0, <1>1, <1>2 DEF Estimated
<1>4. PICK placed \in ClockState : placed = [c EXCEPT !.offset = o]
  BY DEF ClockState
<1>5. PICK b \in Int : b = Clk!BufferedFor(placed)
  BY BufferedForType
<1>6. PICK p \in Int : p = (IF seed THEN f + cfg.lead ELSE f) * Sub
  BY ConfigFacts, SubPositive, ScaledFrame
<1>7. PICK w \in Int : w = IF complete \/ ~seed THEN cfg.warmup ELSE placed.warmup
  BY ConfigFacts, ClockFields
<1>8. cfg.lead \in Int
  BY ConfigFacts
<1> DEFINE new == [placed EXCEPT !.buffered = b, !.predicted = p, !.currentLead = cfg.lead,
                                 !.warmup = w, !.booted = TRUE]
<1>9. new \in ClockState /\ new.offset = o
  <2>1. placed.offset = o
    BY <1>4 DEF ClockState
  <2> QED BY <2>1, <1>8 DEF ClockState
<1>10. Clk!MaybeBootstrap(c, f, seed, complete) = IF c.booted THEN c ELSE new
  BY <1>1, <1>2, <1>4, <1>5, <1>6, <1>7 DEF Clk!MaybeBootstrap
<1> HIDE DEF new
<1> QED BY <1>3, <1>9, <1>10 DEF Estimated

\* lead_target_from_observed
LEMMA LeadTargetInRange ==
    ASSUME GoodConfig, NEW c \in ClockState, NEW downstream \in Int
    PROVE  Clk!LeadTargetFromObserved(c, downstream) \in LeadRange
<1>1. PICK up \in Int :
        up = IF Clk!WarmedUp(c) THEN c.latency + cfg.jitterMultiplier * c.jitter
             ELSE cfg.lead * Sub
  BY ConfigFacts, ClockFields, SubPositive
<1>2. PICK most \in Int : most = Clk!AtLeast(up, downstream)
  BY DEF Clk!AtLeast
<1>3. PICK margin \in Int : margin = cfg.safety * Sub
  BY ConfigFacts, SubPositive
<1>4. Clk!ClampLeadTarget(Clk!CeilFrames(downstream + most + margin)) \in LeadRange
  BY CeilFramesType, TargetsInRange
<1> QED BY <1>1, <1>2, <1>3, <1>4 DEF Clk!LeadTargetFromObserved

\* The larger of two numbers of a range is in it.
LEMMA LargerInRange ==
    ASSUME NEW n \in Nat, NEW x \in 0 .. (n - 1), NEW y \in 0 .. (n - 1)
    PROVE  Clk!AtLeast(x, y) \in 0 .. (n - 1)
BY DEF Clk!AtLeast

\* A step of the lag goes to the target or one frame towards it.
LEMMA RecoveryStepInRange ==
    ASSUME GoodConfig, NEW x \in LagRange, NEW y \in LagRange
    PROVE  Clk!FastRecoveryStep(x, y) \in LagRange
BY ConfigFacts DEF Clk!FastRecoveryStep, LagRange

\* record_buffered_timing_from_server_update
LEMMA BufferedTimingKeeps ==
    ASSUME GoodConfig, NEW c \in ClockState, NEW f \in Int, NEW downstream \in Int,
           NEW observed \in Int, NEW has \in BOOLEAN
    PROVE  /\ Clk!RecordBufferedTiming(c, f, downstream, observed, has) \in ClockState
           /\ SameTime(c, Clk!RecordBufferedTiming(c, f, downstream, observed, has))
<1>0. c.targetLag \in LagRange /\ c.desiredLag \in LagRange /\ c.lag \in LagRange
      /\ cfg.lagCapacity \in Nat
  BY ClockFields, ConfigFacts
<1>1. PICK updated \in LagRange : updated = Clk!ClampLagTarget(Clk!RoundedFrameCount(downstream))
  BY RoundedType, TargetsInRange
<1>2. Clk!AtLeast(c.desiredLag, updated) \in LagRange /\ Clk!AtLeast(c.targetLag, updated) \in LagRange
  BY <1>0, LargerInRange DEF LagRange
<1>3. PICK target \in LagRange :
        target = IF ~cfg.autoLag THEN c.targetLag
                 ELSE IF cfg.fastRecovery /\ downstream > 0 THEN Clk!AtLeast(c.desiredLag, updated)
                 ELSE IF Clk!WarmedUp(c) /\ downstream > 0 THEN Clk!AtLeast(c.targetLag, updated)
                 ELSE c.desiredLag
  BY <1>0, <1>2
<1>4. Clk!FastRecoveryStep(c.lag, target) \in LagRange
  BY <1>0, RecoveryStepInRange
<1>5. PICK lag \in LagRange :
        Clk!RecordBufferedTiming(c, f, downstream, observed, has) =
          [c EXCEPT !.targetLag = target, !.lag = lag]
  <2> DEFINE measured == Clk!AtLeast(f * Sub - observed, 0)
             adjusts == /\ has /\ cfg.autoLag
                        /\ Clk!WarmedUp(c) \/ (cfg.fastRecovery /\ downstream > 0)
             large == cfg.fastRecovery /\ Clk!Abs(target - c.lag) >= cfg.minGap
             grows == c.lag < target /\ (large \/ downstream > 0 \/ measured >= c.lag * Sub)
             shrinks == c.lag > target /\ (large \/ measured <= c.lag * Sub)
             new == IF adjusts /\ (grows \/ shrinks) THEN Clk!FastRecoveryStep(c.lag, target)
                    ELSE c.lag
  <2>1. Clk!RecordBufferedTiming(c, f, downstream, observed, has) =
          [c EXCEPT !.targetLag = target, !.lag = new]
    BY <1>1, <1>3 DEF Clk!RecordBufferedTiming
  <2>2. new \in LagRange
    BY <1>0, <1>4
  <2> HIDE DEF new
  <2> QED BY <2>1, <2>2
<1> QED BY <1>5 DEF ClockState, SameTime

\* record_prediction_timing_from_server_update
LEMMA PredictionTimingKeeps ==
    ASSUME GoodConfig, NEW c \in ClockState, NEW f \in Int, NEW downstream \in Int,
           NEW observed \in Int, NEW lastInput \in Int
    PROVE  /\ Clk!RecordPredictionTiming(c, f, downstream, observed, lastInput) \in ClockState
           /\ SameTime(c, Clk!RecordPredictionTiming(c, f, downstream, observed, lastInput))
<1>0. /\ c.targetLead \in LeadRange /\ c.desiredLead \in LeadRange /\ cfg.lead \in LeadRange
      /\ cfg.inputCapacity \in Nat
      /\ {cfg.minDilation, cfg.maxDilation, cfg.gain} \subseteq Nat
  BY ClockFields, ConfigFacts
<1>1. PICK ahead \in LeadRange : ahead = IF downstream > 0 THEN Clk!LeadTargetFromObserved(c, downstream)
                                         ELSE c.desiredLead
  BY <1>0, LeadTargetInRange
<1>2. Clk!AtLeast(c.desiredLead, ahead) \in LeadRange
  BY <1>0, LargerInRange DEF LeadRange
<1>3. PICK target \in LeadRange :
        target = IF ~cfg.autoLead THEN cfg.lead
                 ELSE IF ~cfg.fastRecovery THEN c.targetLead
                 ELSE Clk!AtLeast(c.desiredLead, ahead)
  BY <1>0, <1>2
<1>4. PICK measured \in Int : measured = Clk!AtLeast(observed - f * Sub, 0)
  BY SubPositive, ScaledFrame DEF Clk!AtLeast
<1>5. PICK available \in Int : available = Clk!AtLeast(lastInput - f, 0)
  BY DEF Clk!AtLeast
<1>6. PICK now \in Int : now = Clk!AtLeast(Clk!RoundedFrameCount(measured), available)
  <2>1. Clk!RoundedFrameCount(measured) \in Int
    BY RoundedType
  <2> QED BY <2>1 DEF Clk!AtLeast
<1>7. PICK error \in Int : error = target * Sub - measured
  BY RangesAreIntegers, SubPositive
<1>8. PICK dilation \in Int :
        dilation = IF Clk!WarmedUp(c) /\ cfg.autoLead THEN Clk!DilationFromError(error) ELSE 4
  <2>1. error * cfg.gain \in Int
    BY <1>0
  <2>2. Clk!Clamp(cfg.minDilation, cfg.maxDilation, 4 + error * cfg.gain) \in Int
    BY <2>1, <1>0 DEF Clk!Clamp, Clk!AtLeast, Clk!AtMost
  <2> QED BY <2>2 DEF Clk!DilationFromError
<1>9. \E toward, wanted \in LeadRange :
        Clk!RecordPredictionTiming(c, f, downstream, observed, lastInput) =
          [c EXCEPT !.currentLead = now, !.targetLead = toward, !.desiredLead = wanted,
                    !.dilation = dilation]
  <2> DEFINE fixedLead == Clk!WarmedUp(c) /\ ~cfg.autoLead
             toward == IF cfg.autoLead \/ fixedLead THEN target ELSE c.targetLead
             wanted == IF fixedLead THEN cfg.lead ELSE c.desiredLead
  <2>1. Clk!RecordPredictionTiming(c, f, downstream, observed, lastInput) =
          [c EXCEPT !.currentLead = now, !.targetLead = toward, !.desiredLead = wanted,
                    !.dilation = dilation]
    BY <1>1, <1>3, <1>4, <1>5, <1>6, <1>7, <1>8 DEF Clk!RecordPredictionTiming
  <2>2. toward \in LeadRange /\ wanted \in LeadRange
    BY <1>0
  <2> HIDE DEF toward, wanted
  <2> QED BY <2>1, <2>2
<1> QED BY <1>9, ZenonT(60) DEF ClockState, SameTime

\* record_prediction_lead
LEMMA PredictionLeadKeeps ==
    ASSUME GoodConfig, NEW c \in ClockState, NEW f \in Int, NEW p \in Int
    PROVE  /\ Clk!RecordPredictionLead(c, f, p) \in ClockState
           /\ SameTime(c, Clk!RecordPredictionLead(c, f, p))
<1>0. /\ {cfg.minDilation, cfg.maxDilation, cfg.gain} \subseteq Nat /\ c.dilation \in Int
  BY ClockFields, ConfigFacts
<1>1. PICK measured \in Int : measured = Clk!AtLeast(p - f, 0)
  BY DEF Clk!AtLeast
<1>2. PICK target \in Int : target = IF cfg.autoLead THEN c.targetLead ELSE cfg.lead
  BY ConfigFacts, ClockFields, RangesAreIntegers
<1>3. PICK gap \in Int : gap = (target - measured) * Sub
  BY SubPositive, ScaledFrame
<1>4. PICK dilation \in Int :
        dilation = IF ~cfg.autoLead \/ ~Clk!WarmedUp(c)
                   THEN IF measured = target THEN 4 ELSE c.dilation
                   ELSE Clk!Clamp(cfg.minDilation, cfg.maxDilation, 4 + gap * cfg.gain)
  <2>1. gap * cfg.gain \in Int
    BY <1>0
  <2>2. Clk!Clamp(cfg.minDilation, cfg.maxDilation, 4 + gap * cfg.gain) \in Int
    BY <2>1, <1>0 DEF Clk!Clamp, Clk!AtLeast, Clk!AtMost
  <2> QED BY <2>2, <1>0
<1>5. Clk!RecordPredictionLead(c, f, p) = [c EXCEPT !.currentLead = measured, !.dilation = dilation]
  BY <1>1, <1>2, <1>3, <1>4 DEF Clk!RecordPredictionLead
<1> QED BY <1>5 DEF ClockState, SameTime

\* advance_predicted_frame_to
LEMMA PredictedFrameToKeeps ==
    ASSUME NEW c \in ClockState, NEW f \in Int
    PROVE  /\ Clk!AdvancePredictedFrameTo(c, f) \in ClockState
           /\ SameTime(c, Clk!AdvancePredictedFrameTo(c, f))
<1>1. PICK p \in Int : p = IF f > Clk!FrameOf(c.predicted) THEN f * Sub ELSE c.predicted
  BY ClockFields, SubPositive, ScaledFrame
<1>2. Clk!AdvancePredictedFrameTo(c, f) = [c EXCEPT !.predicted = p]
  BY <1>1 DEF Clk!AdvancePredictedFrameTo
<1> QED BY <1>2 DEF ClockState, SameTime

\* advance_frame_numbers
LEMMA FrameNumbersKeep ==
    ASSUME GoodConfig, NEW c \in ClockState, NEW d \in Nat
    PROVE  /\ Clk!AdvanceFrameNumbers(c, d) \in ClockState
           /\ SameTime(c, Clk!AdvanceFrameNumbers(c, d))
<1>1. PICK b \in Int : b = Clk!BufferedFor(c)
  BY BufferedForType
<1>2. PICK r \in Int : r = c.predicted + (d * c.dilation) \div 4
  <2>1. d * c.dilation \in Int
    BY ClockFields
  <2> QED BY <2>1, ClockFields
<1>3. PICK g \in Int : g = Clk!FrameOf(c.predicted)
  BY ClockFields, FrameOfType
<1>4. (g + cfg.maxSteps) * Sub \in Int /\ r % Sub \in Int
  BY ConfigFacts, SubPositive, ScaledFrame
<1>5. PICK p \in Int : p = Clk!PredictedAfter(c, d)
  BY <1>2, <1>3, <1>4 DEF Clk!PredictedAfter
<1>6. Clk!AdvanceFrameNumbers(c, d) =
        IF ~c.booted THEN c ELSE [c EXCEPT !.buffered = b, !.predicted = p]
  BY <1>1, <1>5 DEF Clk!AdvanceFrameNumbers
<1> QED BY <1>6 DEF ClockState, SameTime

\* The prediction runtime: its snapped lead fits the input ring.
LeadState ==
  [snap : LeadRange, catchup : Int, catchupFrom : Int, predicting : BOOLEAN, buffered : BOOLEAN]

\* The inductive invariant: a valid configuration, a clock and a prediction
\* runtime whose targets fit the rings, and a close estimate.
ClockInv ==
  /\ GoodConfig
  /\ clock \in ClockState
  /\ lead \in LeadState
  /\ Estimated(clock)
  /\ skew \in Int /\ input \in Int /\ update \in Int /\ dt \in Nat
  /\ ping.pending \subseteq Int

\* The ranges only depend on the capacities.
LEMMA RangesKept ==
    ASSUME cfg'.lagCapacity = cfg.lagCapacity, cfg'.inputCapacity = cfg.inputCapacity
    PROVE  ClockState' = ClockState /\ LeadState' = LeadState
BY DEF ClockState, LeadState, LagRange, LeadRange

\* The estimate of a clock with the same time.
LEMMA SameEstimate ==
    ASSUME NEW c, NEW d, SameTime(c, d), Estimated(c)
    PROVE  Estimated(d)
BY DEF SameTime, Estimated

\* apply_prediction_input_prefill
LEMMA PrefillKeeps ==
    ASSUME GoodConfig, NEW c \in ClockState, lead \in LeadState, NEW recorded \in Int,
           NEW f \in Int, NEW through \in Int, NEW snap \in LeadRange,
           Clk!Prefill(c, recorded, f, through, snap)
    PROVE  /\ clock' \in ClockState /\ SameTime(c, clock')
           /\ lead' \in LeadState /\ input' \in Int
<1>1. CASE through <= recorded
  <2>1. clock' = c /\ input' = recorded /\ lead' = [lead EXCEPT !.snap = snap]
    BY <1>1 DEF Clk!Prefill
  <2> QED BY <2>1 DEF SameTime, LeadState
<1>2. CASE ~(through <= recorded)
  <2>1. PICK a \in Int : a = Clk!AtLeast(lead.catchup, through)
    BY DEF Clk!AtLeast, LeadState
  <2>2. PICK b \in Int : b = IF through > lead.catchup THEN f ELSE lead.catchupFrom
    BY DEF LeadState
  <2>3. /\ input' = through
        /\ lead' = [lead EXCEPT !.snap = snap, !.catchup = a, !.catchupFrom = b]
        /\ clock' = Clk!RecordPredictionLead(
                      IF lead.predicting THEN c ELSE Clk!AdvancePredictedFrameTo(c, through),
                      f, through)
    BY <1>2, <2>1, <2>2 DEF Clk!Prefill
  <2>4. PICK e \in ClockState :
          /\ e = IF lead.predicting THEN c ELSE Clk!AdvancePredictedFrameTo(c, through)
          /\ SameTime(c, e)
    <3>1. SameTime(c, c)
      BY DEF SameTime
    <3> QED BY <3>1, PredictedFrameToKeeps
  <2>5. clock' \in ClockState /\ SameTime(e, clock')
    BY <2>3, <2>4, PredictionLeadKeeps
  <2>6. lead' \in LeadState
    BY <2>3 DEF LeadState
  <2> QED BY <2>3, <2>4, <2>5, <2>6 DEF SameTime
<1> QED BY <1>1, <1>2

\* The lead a snap is limited to.
LEMMA SnapLeadInRange ==
    ASSUME GoodConfig, lead \in LeadState, NEW c \in ClockState,
           NEW requested \in Int, NEW f \in Int
    PROVE  /\ Clk!ActiveSnapLead(requested, f, c)[1] \in LeadRange
           /\ Clk!ActiveSnapLead(requested, f, c)[2] \in Int
<1>1. PICK t \in LeadRange : t = c.targetLead
  BY ClockFields
<1>2. PICK s \in LeadRange : s = lead.snap
  BY DEF LeadState
<1>3. 0 \in LeadRange /\ s \in Nat
  BY ConfigFacts DEF LeadRange
<1>4. CASE requested # 0
  <2>1. Clk!ActiveSnapLead(requested, f, c) = <<t, requested>>
    BY <1>1, <1>4 DEF Clk!ActiveSnapLead
  <2> QED BY <2>1
<1>5. CASE requested = 0 /\ (s = 0 \/ t < s)
  <2>1. Clk!ActiveSnapLead(requested, f, c) = <<0, 0>>
    BY <1>1, <1>2, <1>5 DEF Clk!ActiveSnapLead
  <2> QED BY <2>1, <1>3
<1>6. CASE requested = 0 /\ ~(s = 0 \/ t < s)
  <2>1. PICK g \in Int : g = IF c.currentLead < s THEN f + s ELSE 0
    BY <1>3
  <2>2. Clk!ActiveSnapLead(requested, f, c) = <<s, g>>
    BY <1>1, <1>2, <1>6, <2>1 DEF Clk!ActiveSnapLead
  <2> QED BY <2>1, <2>2
<1> QED BY <1>4, <1>5, <1>6

\* The frame of an update is one the server was in not longer ago than the
\* longest delay.
LEMMA SentFrameIsClose ==
    ASSUME skew \in Int, NEW now \in Nat, NEW delay \in Delays, NEW f,
           f = Clk!FrameOf(now + skew - delay)
    PROVE  f \in Int /\ Close(f * Sub - now)
<1>1. delay \in Nat /\ delay <= Clk!MaxDelay /\ Clk!MaxDelay \in Nat
  BY LongestDelay
<1>2. PICK x \in Int : x = now + skew - delay
  BY <1>1
<1>3. f \in Int /\ f = x \div Sub
  BY <1>2, FrameOfType DEF Clk!FrameOf
<1>4. PICK p \in Int : p = f * Sub
  BY <1>3, SubPositive, ScaledFrame
<1>5. p <= x /\ x < p + Sub
  BY <1>3, <1>4, SubPositive, DivBounds
<1>6. Close(p - now)
  BY <1>1, <1>2, <1>5, SubPositive DEF Close
<1> QED BY <1>3, <1>4, <1>6

\* A server update: bootstrap, offset sample, lag and lead.
LEMMA ReceiveUpdateKeeps ==
    ASSUME ClockInv, NEW f \in Int, Close(f * Sub - clock.local), Clk!ReceiveUpdate(f)
    PROVE  ClockInv'
<1>0. /\ GoodConfig /\ clock \in ClockState /\ lead \in LeadState /\ Estimated(clock)
      /\ skew \in Int /\ input \in Int /\ lead.buffered \in BOOLEAN
      /\ {clock.buffered, clock.predicted} \subseteq Int
  BY ClockFields DEF ClockInv, LeadState
<1>1. PICK booted \in ClockState :
        booted = Clk!MaybeBootstrap(clock, f, TRUE, FALSE) /\ Estimated(booted)
  BY <1>0, BootstrapKeeps
<1>2. PICK filled \in Int :
        filled = IF clock.booted THEN input ELSE Clk!AtLeast(input, Clk!FrameOf(booted.predicted))
  <2>1. Clk!FrameOf(booted.predicted) \in Int
    BY FrameOfType, ClockFields
  <2> QED BY <1>0, <2>1 DEF Clk!AtLeast
<1>3. PICK downstream \in Int :
        downstream = Clk!AtLeast(Clk!EstimatedServerTime(clock) - f * Sub, 0)
  BY <1>0, BufferedForType, SubPositive, ScaledFrame DEF Clk!AtLeast
<1>4. PICK b \in ClockState :
        /\ b = Clk!RecordBufferedTiming(booted, f, downstream, clock.buffered, lead.buffered)
        /\ SameTime(booted, b)
  BY <1>0, BufferedTimingKeeps
<1>5. PICK timed \in ClockState :
        /\ timed = Clk!RecordPredictionTiming(b, f, downstream, clock.predicted, filled)
        /\ SameTime(b, timed)
  BY <1>0, PredictionTimingKeeps
<1>6. PICK requested \in Int : requested = Clk!RequestedPrefill(timed, f, downstream, filled)
  <2>1. Clk!LeadTargetFromObserved(timed, downstream) \in Nat
    BY <1>0, LeadTargetInRange, RangesAreIntegers
  <2>2. f + Clk!LeadTargetFromObserved(timed, downstream) \in Int
    BY <2>1
  <2> QED BY <2>2 DEF Clk!RequestedPrefill
<1>7. PICK snap \in LeadRange : snap = Clk!ActiveSnapLead(requested, f, timed)[1]
  BY <1>0, SnapLeadInRange
<1>8. PICK through \in Int : through = Clk!ActiveSnapLead(requested, f, timed)[2]
  BY <1>0, SnapLeadInRange
<1>9. Clk!Prefill(timed, filled, f, through, snap)
  BY <1>1, <1>2, <1>3, <1>4, <1>5, <1>6, <1>7, <1>8 DEF Clk!ReceiveUpdate
<1>10. update' = f /\ UNCHANGED <<cfg, ping, skew, dt>>
  BY DEF Clk!ReceiveUpdate
<1>11. /\ clock' \in ClockState /\ SameTime(timed, clock')
       /\ lead' \in LeadState /\ input' \in Int
  BY <1>0, <1>9, PrefillKeeps
<1>12. ClockState' = ClockState /\ LeadState' = LeadState /\ GoodConfig'
  BY <1>0, <1>10, RangesKept DEF GoodConfig, Clk!ValidTiming
<1>13. Estimated(clock)'
  BY <1>1, <1>4, <1>5, <1>10, <1>11 DEF SameTime, Estimated, Close
<1> QED BY <1>10, <1>11, <1>12, <1>13 DEF ClockInv

\* A pong: a latency sample and the automatic targets.
LEMMA ReceivePongKeeps ==
    ASSUME ClockInv, NEW sent \in ping.pending, NEW up \in Delays,
           clock.local - sent - up \in Delays, Clk!ReceivePong(sent, sent + skew + up)
    PROVE  ClockInv'
<1>0. /\ GoodConfig /\ clock \in ClockState /\ lead \in LeadState /\ Estimated(clock)
      /\ skew \in Int /\ input \in Int /\ update \in Int /\ sent \in Int /\ up \in Nat
  BY LongestDelay DEF ClockInv
<1>1. PICK answered \in Int : answered = sent + skew + up
  BY <1>0
<1>2. PICK after \in ClockState :
        after = Clk!RecordTimeSyncSample(clock, sent, answered, answered) /\ Estimated(after)
  BY <1>0, <1>1, TimeSyncKeeps
<1>3. PICK through \in Int : through = update + after.targetLead
  BY <1>0, ClockFields, RangesAreIntegers
<1>4. /\ UNCHANGED <<cfg, update, skew, dt>>
      /\ ping' = [Clk!AdaptivePing((clock.local - sent) \div 2) EXCEPT !.pending = @ \ {sent}]
  BY DEF Clk!ReceivePong
<1>5. /\ clock' \in ClockState /\ SameTime(after, clock')
      /\ lead' \in LeadState /\ input' \in Int
  <2>1. \/ Clk!Prefill(after, input, update, through, after.targetLead)
        \/ clock' = after /\ UNCHANGED <<input, lead>>
    BY <1>1, <1>2, <1>3 DEF Clk!ReceivePong
  <2>2. CASE Clk!Prefill(after, input, update, through, after.targetLead)
    <3>1. PICK i \in Int, u \in Int, t \in LeadRange :
            i = input /\ u = update /\ t = after.targetLead
      BY <1>0, ClockFields
    <3>2. Clk!Prefill(after, i, u, through, t)
      BY <2>2, <3>1
    <3> QED BY <1>0, <3>2, PrefillKeeps
  <2>3. CASE clock' = after /\ UNCHANGED <<input, lead>>
    BY <1>0, <2>3 DEF SameTime
  <2> QED BY <2>1, <2>2, <2>3
<1>6. ClockState' = ClockState /\ LeadState' = LeadState /\ GoodConfig'
  BY <1>0, <1>4, RangesKept DEF GoodConfig, Clk!ValidTiming
<1>7. ping'.pending \subseteq Int
  <2>1. PICK p : p = Clk!AdaptivePing((clock.local - sent) \div 2)
    OBVIOUS
  <2>2. p.pending = ping.pending
    BY <2>1 DEF Clk!AdaptivePing
  <2>3. ping' = [p EXCEPT !.pending = @ \ {sent}]
    BY <1>4, <2>1
  <2>4. ping'.pending = p.pending \ {sent}
    BY <2>3
  <2> QED BY <2>2, <2>4 DEF ClockInv
<1>8. Estimated(clock)'
  BY <1>2, <1>4, <1>5 DEF SameTime, Estimated, Close
<1> QED BY <1>4, <1>5, <1>6, <1>7, <1>8 DEF ClockInv

\* The start of a tick advances the clock and the frames.
LEMMA BeginTickKeeps ==
    ASSUME ClockInv, NEW d \in Steps, Clk!BeginTick(d)
    PROVE  ClockInv'
<1>1. d \in Nat
  BY ClientAssumption DEF Clk!ClockAssumption
<1>2. clock' = [clock EXCEPT !.local = @ + d] /\ dt' = d
      /\ UNCHANGED <<cfg, input, lead, ping, update, skew>>
  BY DEF Clk!BeginTick, Clk!AdvanceLocalTime
<1>3. ClockState' = ClockState /\ LeadState' = LeadState
  BY <1>2, RangesKept
<1>4. clock' \in ClockState
  BY <1>1, <1>2 DEF ClockInv, ClockState
<1>5. Estimated(clock)'
  BY <1>2 DEF ClockInv, ClockState, Estimated, Close
<1>6. GoodConfig'
  BY <1>2 DEF ClockInv, GoodConfig, Clk!ValidTiming
<1> QED BY <1>1, <1>2, <1>3, <1>4, <1>5, <1>6 DEF ClockInv

\* run_catchup
LEMMA CatchupKeeps ==
    ASSUME GoodConfig, lead \in LeadState, input \in Int,
           NEW c \in ClockState, NEW steps \in Int, Clk!Catchup(c, steps)
    PROVE  /\ clock' \in ClockState /\ SameTime(c, clock')
           /\ lead' \in LeadState /\ input' \in Int
<1>0. lead.catchup \in Int /\ lead.catchupFrom \in Int /\ cfg.maxSteps \in Nat
      /\ Clk!FrameOf(c.predicted) \in Int /\ 0 \in Int
  BY ConfigFacts, ClockFields, FrameOfType DEF LeadState
<1>1. PICK left \in Int :
        left = IF cfg.maxSteps = 0 THEN lead.catchup
               ELSE Clk!FrameOf(c.predicted) + Clk!AtLeast(cfg.maxSteps - steps, 0)
  BY <1>0 DEF Clk!AtLeast
<1>2. PICK g \in Int : g = Clk!AtMost(lead.catchup, left)
  BY <1>0 DEF Clk!AtMost
<1>3. PICK reached \in ClockState :
        reached = Clk!AdvancePredictedFrameTo(c, g) /\ SameTime(c, reached)
  BY PredictedFrameToKeeps
<1>4. PICK runs \in BOOLEAN :
        runs = (cfg.fastRecovery /\ lead.predicting /\ lead.catchup > Clk!FrameOf(c.predicted))
  OBVIOUS
<1>5. PICK after \in ClockState :
        /\ after = IF ~runs THEN c
                   ELSE IF lead.catchupFrom = 0 THEN reached
                   ELSE Clk!RecordPredictionLead(reached, lead.catchupFrom,
                                                 Clk!FrameOf(reached.predicted))
        /\ SameTime(c, after)
  <2>1. Clk!FrameOf(reached.predicted) \in Int
    BY ClockFields, FrameOfType
  <2>2. PICK recorded \in ClockState :
          /\ recorded = Clk!RecordPredictionLead(reached, lead.catchupFrom,
                                                 Clk!FrameOf(reached.predicted))
          /\ SameTime(reached, recorded)
    BY <1>0, <2>1, PredictionLeadKeeps
  <2>3. SameTime(c, c) /\ SameTime(c, recorded)
    BY <1>3, <2>2 DEF SameTime
  <2>4. CASE ~runs
    BY <2>3, <2>4
  <2>5. CASE runs /\ lead.catchupFrom = 0
    BY <1>3, <2>5
  <2>6. CASE runs /\ lead.catchupFrom # 0
    BY <2>2, <2>3, <2>6
  <2> QED BY <2>4, <2>5, <2>6
<1>6. /\ clock' = after
      /\ \/ lead' = [lead EXCEPT !.catchup = 0, !.catchupFrom = 0]
         \/ lead' = lead
      /\ \/ input' = Clk!AtLeast(input, Clk!FrameOf(after.predicted))
         \/ input' = input
  BY <1>1, <1>2, <1>3, <1>4, <1>5 DEF Clk!Catchup
<1>7. lead' \in LeadState
  <2>1. CASE lead' = lead
    BY <2>1
  <2>2. CASE lead' = [lead EXCEPT !.catchup = 0, !.catchupFrom = 0]
    <3>1. PICK z \in Int : z = 0
      OBVIOUS
    <3>2. lead' = [lead EXCEPT !.catchup = z, !.catchupFrom = z]
      BY <2>2, <3>1
    <3> QED BY <3>2 DEF LeadState
  <2> QED BY <1>6, <2>1, <2>2
<1>8. input' \in Int
  <2>1. Clk!FrameOf(after.predicted) \in Int
    BY ClockFields, FrameOfType
  <2> QED BY <1>6, <2>1 DEF Clk!AtLeast
<1> QED BY <1>5, <1>6, <1>7, <1>8

\* The end of a tick sends a ping when one is due.
LEMMA EndTickKeeps ==
    ASSUME ClockInv, Clk!EndTick
    PROVE  ClockInv'
<1>0. /\ GoodConfig /\ clock \in ClockState /\ lead \in LeadState /\ Estimated(clock)
      /\ skew \in Int /\ input \in Int /\ dt \in Nat
  BY DEF ClockInv
<1>1. PICK moved \in ClockState :
        moved = Clk!AdvanceFrameNumbers(clock, dt) /\ SameTime(clock, moved)
  BY <1>0, FrameNumbersKeep
<1>2. PICK steps \in Int : steps = Clk!FrameOf(moved.predicted) - Clk!FrameOf(clock.predicted)
  <2>1. Clk!FrameOf(moved.predicted) \in Int /\ Clk!FrameOf(clock.predicted) \in Int
    BY <1>0, ClockFields, FrameOfType
  <2> QED BY <2>1
<1>3. /\ Clk!Catchup(moved, steps) /\ dt' = 0 /\ UNCHANGED <<cfg, update, skew>>
      /\ \/ ping' = [ping EXCEPT !.pending = @ \cup {clock.local}]
         \/ UNCHANGED ping
  BY <1>1, <1>2 DEF Clk!EndTick
<1>4. /\ clock' \in ClockState /\ SameTime(moved, clock')
      /\ lead' \in LeadState /\ input' \in Int
  BY <1>0, <1>3, CatchupKeeps
<1>5. ClockState' = ClockState /\ LeadState' = LeadState /\ GoodConfig'
  BY <1>0, <1>3, RangesKept DEF GoodConfig, Clk!ValidTiming
<1>6. ping'.pending \subseteq Int
  <2>1. clock.local \in Int
    BY <1>0, ClockFields
  <2>2. CASE ping' = [ping EXCEPT !.pending = @ \cup {clock.local}]
    <3>1. ping'.pending \subseteq ping.pending \cup {clock.local}
      BY <2>2
    <3> QED BY <3>1, <2>1 DEF ClockInv
  <2>3. CASE UNCHANGED ping
    BY <2>3 DEF ClockInv
  <2> QED BY <1>3, <2>2, <2>3
<1>7. Estimated(clock)'
  BY <1>0, <1>1, <1>3, <1>4 DEF SameTime, Estimated, Close
<1> QED BY <1>3, <1>4, <1>5, <1>6, <1>7 DEF ClockInv

\* set_buffered_frame_lag
LEMMA SetLagKeeps ==
    ASSUME ClockInv, NEW frames \in 0 .. cfg.lagCapacity, Clk!SetBufferedFrameLag(frames)
    PROVE  ClockInv'
<1>1. /\ frames < cfg.lagCapacity
      /\ cfg' = [cfg EXCEPT !.lag = frames]
      /\ clock' = [clock EXCEPT !.lag = frames, !.desiredLag = frames, !.targetLag = frames]
      /\ UNCHANGED <<input, lead, ping, update, skew, dt>>
  BY DEF Clk!SetBufferedFrameLag
<1>2. frames \in LagRange /\ frames \in Nat /\ GoodConfig
  BY <1>1, ConfigFacts DEF LagRange, ClockInv
<1>3. /\ cfg' \in Clk!ClockConfig
      /\ cfg'.lagCapacity = cfg.lagCapacity /\ cfg'.inputCapacity = cfg.inputCapacity
      /\ cfg'.lag = frames /\ cfg'.minLag = cfg.minLag /\ cfg'.lead = cfg.lead
      /\ cfg'.minLead = cfg.minLead /\ cfg'.minDilation = cfg.minDilation
      /\ cfg'.maxDilation = cfg.maxDilation /\ cfg'.minGap = cfg.minGap
  BY <1>1, <1>2 DEF GoodConfig, Clk!ClockConfig
<1>4. GoodConfig'
  BY <1>1, <1>2, <1>3 DEF GoodConfig, Clk!ValidTiming
<1>5. ClockState' = ClockState /\ LeadState' = LeadState
  BY <1>3, RangesKept
<1>6. clock' \in ClockState
  BY <1>1, <1>2 DEF ClockInv, ClockState
<1>7. Estimated(clock)'
  BY <1>1 DEF ClockInv, ClockState, Estimated, Close
<1> QED BY <1>1, <1>4, <1>5, <1>6, <1>7 DEF ClockInv

\* A new clock, or the clock of a host that is bootstrapped at once.
LEMMA ClockInvInit == Clk!Init => ClockInv
<1> SUFFICES ASSUME Clk!Init PROVE ClockInv
  OBVIOUS
<1>1. GoodConfig
  BY ClientAssumption DEF Clk!Init, Clk!ClockAssumption, GoodConfig
<1>2. PICK hosted \in BOOLEAN :
        /\ clock = IF hosted THEN Clk!MaybeBootstrap(Clk!NewClock, 0, FALSE, TRUE) ELSE Clk!NewClock
        /\ skew \in IF hosted THEN {0} ELSE Skews
  BY DEF Clk!Init
<1>3. skew \in Int
  BY <1>2, ClientAssumption DEF Clk!ClockAssumption
<1>4. Clk!NewClock \in ClockState
  BY <1>1, ConfigFacts, RangesAreIntegers DEF ClockState, Clk!NewClock
<1>5. /\ Clk!NewClock.local = 0 /\ Clk!NewClock.booted = FALSE /\ Clk!NewClock.synced = FALSE
  BY DEF Clk!NewClock
<1>6. Estimated(Clk!NewClock)
  BY <1>5 DEF Estimated
<1>7. clock \in ClockState /\ Estimated(clock)
  <2>1. CASE ~hosted
    BY <1>2, <1>4, <1>6, <2>1
  <2>2. CASE hosted
    <3>1. skew = 0
      BY <1>2, <2>2
    <3>2. Close(0 * Sub - Clk!NewClock.local)
      BY <1>5, <3>1, SubPositive, LongestDelay DEF Close
    <3>3. clock = Clk!MaybeBootstrap(Clk!NewClock, 0, FALSE, TRUE)
      BY <1>2, <2>2
    <3>4. PICK seed \in BOOLEAN, complete \in BOOLEAN : seed = FALSE /\ complete = TRUE
      OBVIOUS
    <3>5. clock = Clk!MaybeBootstrap(Clk!NewClock, 0, seed, complete)
      BY <3>3, <3>4
    <3> QED BY <1>1, <1>3, <1>4, <1>6, <3>2, <3>5, BootstrapKeeps
  <2> QED BY <2>1, <2>2
<1>8. lead \in LeadState
  <2>1. 0 \in LeadRange
    BY <1>1, ConfigFacts DEF LeadRange
  <2> QED BY <2>1 DEF Clk!Init, LeadState
<1>9. input = 0 /\ ping.pending = {} /\ update = -1 /\ dt = 0
  BY DEF Clk!Init
<1> QED BY <1>1, <1>3, <1>7, <1>8, <1>9 DEF ClockInv

\* Every step of the clock keeps the invariant.
LEMMA ClockInvStep ==
    ASSUME ClockInv, Clk!Next
    PROVE  ClockInv'
<1>1. ASSUME NEW d \in Steps, Clk!BeginTick(d) PROVE ClockInv'
  BY <1>1, BeginTickKeeps
<1>2. ASSUME NEW delay \in Delays, Clk!ReceiveUpdate(Clk!ServerFrameSent(delay)) PROVE ClockInv'
  <2>1. clock.local \in Nat /\ skew \in Int
    BY ClockFields DEF ClockInv
  <2>2. PICK now \in Nat : now = clock.local
    BY <2>1
  <2>3. PICK f : f = Clk!FrameOf(now + skew - delay)
    OBVIOUS
  <2>4. f = Clk!ServerFrameSent(delay)
    BY <2>2, <2>3 DEF Clk!ServerFrameSent
  <2>5. f \in Int /\ Close(f * Sub - clock.local)
    BY <2>1, <2>2, <2>3, SentFrameIsClose
  <2>6. Clk!ReceiveUpdate(f)
    BY <1>2, <2>4
  <2> QED BY <2>5, <2>6, ReceiveUpdateKeeps
<1>3. ASSUME NEW sent \in ping.pending, NEW up \in Delays, clock.local - sent - up \in Delays,
             Clk!ReceivePong(sent, sent + skew + up)
      PROVE  ClockInv'
  BY <1>3, ReceivePongKeeps
<1>4. CASE Clk!EndTick
  BY <1>4, EndTickKeeps
<1>5. ASSUME NEW frames \in 0 .. cfg.lagCapacity, Clk!SetBufferedFrameLag(frames)
      PROVE  ClockInv'
  BY <1>5, SetLagKeeps
<1> QED BY <1>1, <1>2, <1>3, <1>4, <1>5 DEF Clk!Next

\* The invariant is about the clock only.
LEMMA ClockInvStutter ==
    ASSUME ClockInv, UNCHANGED clockVars
    PROVE  ClockInv'
BY DEF ClockInv, clockVars, GoodConfig, ClockState, LeadState, LagRange, LeadRange, Estimated,
       Close, Clk!ValidTiming

\* The invariant holds of every behaviour.
LEMMA ClockInvAlways == MCSpec => []ClockInv
<1>1. MCInit => ClockInv
  BY ClockInvInit DEF MCInit
<1>2. ClockInv /\ [MCNext]_<<part, vars, prdVars, clockVars, lossVars>> => ClockInv'
  BY ClockInvStep, ClockInvStutter DEF MCNext
<1> QED BY <1>1, <1>2, PTL DEF MCSpec

\* Lag and leads fit the rings they index, whatever the updates, pongs and
\* delays: ReplicationClientClock with validated options.
THEOREM LagAndLeadFitTheRings == MCSpec => []WithinRings
<1>1. ClockInv => WithinRings
  BY ClockFields DEF ClockInv, WithinRings, Clk!WithinRings, LeadState, LagRange, LeadRange
<1> QED BY <1>1, ClockInvAlways, PTL

\* The estimated server time is never off by more than the longest delay and a
\* frame, through bootstrap, smoothing and jumps.
THEOREM EstimateIsBounded == MCSpec => []EstimateBounded
<1>1. ClockInv => EstimateBounded
  <2> SUFFICES ASSUME ClockInv, clock.booted \/ clock.synced
               PROVE  Clk!Abs(Clk!EstimatedServerTime(clock) - (clock.local + skew))
                        < Clk!MaxDelay + Sub
    BY DEF EstimateBounded, Clk!EstimateBounded
  <2>1. /\ clock.local \in Nat /\ clock.offset \in Int /\ skew \in Int
        /\ Clk!MaxDelay \in Nat /\ Sub \in Nat
    BY ClockFields, LongestDelay, SubPositive DEF ClockInv
  <2>2. Close(clock.offset)
    BY DEF ClockInv, Estimated
  <2> QED BY <2>1, <2>2 DEF Close, Clk!Abs, Clk!EstimatedServerTime
<1> QED BY <1>1, ClockInvAlways, PTL

--------------------------------------------------------------------------------
(* The window of received packets (PacketLoss)                                *)

\* The operator of the instance counts as ours does.
LEMMA SameCount == \A S : Loss!Cardinality(S) = Cardinality(S)
BY Zenon DEF Loss!Cardinality, Cardinality

\* What the assumption on the window says of the constants.
LEMMA LossConstants ==
    /\ MaxPacketId \in Nat /\ MaxPacketId > 0 /\ MaxSkip \in Nat /\ 2 * MaxSkip <= MaxPacketId
    /\ Reorder \in Nat /\ Reorder < Loss!WindowSize
    /\ Loss!WindowSize \in Nat /\ 2 * Reorder < MaxPacketId
<1>1. {MaxPacketId, LossWindow, Reorder, MaxSkip, MaxSent} \subseteq Nat
      /\ MaxPacketId # 0 /\ Reorder < Loss!WindowSize /\ 2 * MaxSkip <= MaxPacketId
  BY ClientAssumption DEF Loss!LossAssumption
<1>2. PICK h \in Nat : h = MaxPacketId \div 2 /\ 2 * h <= MaxPacketId
  BY <1>1
<1> QED BY <1>1, <1>2 DEF Loss!WindowSize

\* The remainder is the number left after whole multiples.
LEMMA RemainderIs ==
    ASSUME NEW m \in Nat, m > 0, NEW k \in Int, NEW q \in Int, NEW s \in 0 .. (m - 1),
           k = q * m + s
    PROVE  k % m = s
OBVIOUS

\* The id of the n-th packet, and of one a few packets later.
LEMMA IdsOnCircle ==
    ASSUME NEW n \in Nat, n > 0, NEW by \in Nat, by < MaxPacketId
    PROVE  /\ Loss!IdOf(n) \in 1 .. MaxPacketId
           /\ Loss!IdOf(n + by) = IF Loss!IdOf(n) + by <= MaxPacketId THEN Loss!IdOf(n) + by
                                  ELSE Loss!IdOf(n) + by - MaxPacketId
<1>1. PICK m \in Nat : m = MaxPacketId /\ m > 0
  BY LossConstants
<1>2. PICK r \in 0 .. (m - 1) : r = (n - 1) % m
  BY <1>1
<1>3. PICK q \in Int : q = (n - 1) \div m /\ n - 1 = q * m + r
  BY <1>1, <1>2
<1>4. CASE r + by < m
  <2>1. (n + by - 1) = q * m + (r + by)
    BY <1>3
  <2>2. (n + by - 1) % m = r + by
    <3>1. r + by \in 0 .. (m - 1) /\ n + by - 1 \in Int
      BY <1>1, <1>4
    <3> QED BY <2>1, <3>1, <1>1, RemainderIs
  <2> QED BY <2>2, <1>1, <1>2, <1>4 DEF Loss!IdOf
<1>5. CASE r + by >= m
  <2>1. (n + by - 1) = (q + 1) * m + (r + by - m)
    BY <1>3
  <2>2. (n + by - 1) % m = r + by - m
    <3>1. q + 1 \in Int /\ r + by - m \in 0 .. (m - 1) /\ n + by - 1 \in Int
      BY <1>1, <1>5
    <3> QED BY <2>1, <3>1, <1>1, RemainderIs
  <2> QED BY <2>2, <1>1, <1>2, <1>5 DEF Loss!IdOf
<1> QED BY <1>4, <1>5

\* The distance of two ids is that of their packets, across the wrap too.
LEMMA DistancesAre ==
    ASSUME NEW n \in Nat, n > 0, NEW by \in Nat, by < MaxPacketId
    PROVE  /\ Loss!ForwardDistance(Loss!IdOf(n), Loss!IdOf(n + by)) = by
           /\ Loss!ForwardDistance(Loss!IdOf(n + by), Loss!IdOf(n)) =
                IF by = 0 THEN 0 ELSE MaxPacketId - by
<1>1. PICK i \in 1 .. MaxPacketId : i = Loss!IdOf(n)
  BY IdsOnCircle
<1>3. MaxPacketId \in Nat
  BY LossConstants
<1>2. PICK j \in Int : /\ j = Loss!IdOf(n + by)
                       /\ j = IF i + by <= MaxPacketId THEN i + by ELSE i + by - MaxPacketId
  <2>1. Loss!IdOf(n + by) = IF i + by <= MaxPacketId THEN i + by ELSE i + by - MaxPacketId
    BY <1>1, IdsOnCircle
  <2> QED BY <2>1, <1>3
<1> QED BY <1>1, <1>2, <1>3 DEF Loss!ForwardDistance

\* The numbers in lo .. hi that are not in T.
Absent(lo, hi, T) == {n \in lo .. hi : n \notin T}
Present(lo, hi, T) == (lo .. hi) \cap T

\* Absent numbers of two adjacent ranges add up.
LEMMA AbsentGrows ==
    ASSUME NEW lo \in Int, NEW mid \in Int, NEW hi \in Int, lo <= mid + 1, mid <= hi, NEW T,
           NEW next, next = mid + 1
    PROVE  /\ Cardinality(Absent(lo, mid, T)) \in Nat
           /\ Cardinality(Present(next, hi, T)) \in Nat
           /\ Cardinality(Absent(lo, hi, T)) =
                Cardinality(Absent(lo, mid, T)) + (hi - mid) - Cardinality(Present(next, hi, T))
<1> DEFINE R == (mid + 1) .. hi
           A == Absent(lo, mid, T)
           B == R \ T
<1>1. IsFiniteSet(R) /\ Cardinality(R) = hi - mid
  <2>1. IsFiniteSet(R) /\ Cardinality(R) = IF mid + 1 > hi THEN 0 ELSE hi - (mid + 1) + 1
    BY FS_Interval
  <2> QED BY <2>1
<1>2. IsFiniteSet(A)
  <2>1. A \in SUBSET (lo .. mid) /\ IsFiniteSet(lo .. mid)
    BY FS_Interval DEF Absent
  <2> QED BY <2>1, FS_Subset
<1>3. IsFiniteSet(B) /\ Cardinality(B) = Cardinality(R) - Cardinality(R \cap T)
  BY <1>1, FS_Difference
<1>4. Absent(lo, hi, T) = A \cup B /\ A \cap B = {}
  BY DEF Absent
<1>5. IsFiniteSet(R \cap T)
  BY <1>1, FS_Subset
<1> HIDE DEF R, A, B
<1>6. Cardinality(A \cup B) = Cardinality(A) + Cardinality(B) - Cardinality(A \cap B)
  BY <1>2, <1>3, FS_Union
<1>7. Cardinality(A \cap B) = 0
  BY <1>4, FS_EmptySet
<1>8. Cardinality(A) \in Nat /\ Cardinality(B) \in Nat /\ Cardinality(R \cap T) \in Nat
  BY <1>2, <1>3, <1>5, FS_CardinalityType
<1>9. Cardinality(Absent(lo, hi, T)) = Cardinality(A) + (hi - mid) - Cardinality(R \cap T)
  BY <1>1, <1>3, <1>4, <1>6, <1>7, <1>8
<1>10. Present(next, hi, T) = R \cap T
  BY DEF Present, R
<1> QED BY <1>8, <1>9, <1>10 DEF A

\* As many distances as numbers.
LEMMA MirrorCount ==
    ASSUME NEW m \in Int, NEW S \in SUBSET Int, IsFiniteSet(S), NEW D,
           \A i \in S : m - i \in D, \A d \in D : \E i \in S : d = m - i
    PROVE  Cardinality(D) = Cardinality(S)
<1> DEFINE f == [n \in S |-> m - n]
<1>1. f \in [S -> D]
  OBVIOUS
<1>2. \A a, b \in S : f[a] = f[b] => a = b
  OBVIOUS
<1>3. \A d \in D : \E a \in S : f[a] = d
  OBVIOUS
<1>4. f \in Bijection(S, D)
  BY <1>1, <1>2, <1>3 DEF Bijection, Injection, Surjection, IsInjective
<1>5. ExistsBijection(S, D)
  BY <1>4 DEF ExistsBijection
<1> QED BY <1>5, FS_Bijection

\* The smaller of two numbers.
Smaller(a, b) == IF a < b THEN a ELSE b

\* Between packets, once one has arrived: the window is on the newest packet,
\* reaches back to the first one or as far as it can, and holds the distances of
\* what arrived.
WindowIs(n, f, span, set, T) ==
  /\ f \in 1 .. n /\ n \in T /\ T \subseteq 1 .. n
  /\ span = Smaller(n - f + 1, Loss!WindowSize)
  /\ set = {d \in 0 .. (span - 1) : n - d \in T}

\* The inductive invariant: the window, and the count of what left it.
LossInv ==
  /\ newest \in Nat /\ arrived \subseteq Nat
  /\ window \in [highest : Int, span : Nat, heard : SUBSET Nat]
  /\ stats \in [received : Nat, missing : Int, late : Nat]
  /\ newest = 0 => window.span = 0 /\ stats.missing = 0 /\ arrived = {}
  /\ newest # 0 =>
       /\ window.highest = Loss!IdOf(newest)
       /\ WindowIs(newest, first, window.span, window.heard, arrived)
       /\ stats.missing = Cardinality(Absent(first, newest - window.span, arrived))

\* The window has room for a packet.
LEMMA WindowPositive == Loss!WindowSize \in Nat /\ Loss!WindowSize > 0
BY LossConstants

\* The first packet opens a window of one.
LEMMA FirstPacketKeeps ==
    ASSUME LossInv, newest = 0, NEW n \in 1 .. MaxSent, Loss!Receive(n)
    PROVE  LossInv'
<1>0. n \in Nat /\ n > 0 /\ arrived = {} /\ stats.missing = 0
  BY LossConstants, ClientAssumption DEF LossInv, Loss!LossAssumption
<1>1. /\ window' = [highest |-> Loss!IdOf(n), span |-> 1, heard |-> {0}]
      /\ stats' = [stats EXCEPT !.received = @ + 1]
      /\ arrived' = {n} /\ first' = n /\ newest' = n
  BY <1>0 DEF LossInv, Loss!Receive, Loss!RecordEntityUpdatePacket
<1>2. /\ window'.highest = Loss!IdOf(n) /\ window'.span = 1 /\ window'.heard = {0}
      /\ stats'.missing = 0 /\ stats' \in [received : Nat, missing : Int, late : Nat]
  BY <1>0, <1>1 DEF LossInv
<1>3. window' \in [highest : Int, span : Nat, heard : SUBSET Nat]
  <2>1. MaxPacketId \in Nat /\ 0 \in Nat /\ 0 < MaxPacketId
    BY LossConstants
  <2>2. Loss!IdOf(n) \in 1 .. MaxPacketId
    BY <1>0, <2>1, IdsOnCircle
  <2> QED BY <1>1, <2>1, <2>2
<1>4. WindowIs(n, n, 1, {0}, {n})
  <2>1. Smaller(n - n + 1, Loss!WindowSize) = 1
    BY <1>0, WindowPositive DEF Smaller
  <2>2. {d \in 0 .. (1 - 1) : n - d \in {n}} = {0}
    BY <1>0
  <2> QED BY <1>0, <2>1, <2>2 DEF WindowIs
<1>5. Cardinality(Absent(n, n - 1, {n})) = 0
  <2>1. Absent(n, n - 1, {n}) = {}
    BY <1>0 DEF Absent
  <2> QED BY <2>1, FS_EmptySet
<1> QED BY <1>0, <1>1, <1>2, <1>3, <1>4, <1>5 DEF LossInv

\* A packet that is not new finds its place in the window, or is older than the
\* first packet.
LEMMA LatePacketKeeps ==
    ASSUME LossInv, newest # 0, NEW n \in 1 .. MaxSent, n <= newest, Loss!Receive(n)
    PROVE  LossInv'
<1>0. /\ n \in Nat /\ n > 0 /\ newest \in Nat /\ newest > 0
      /\ window \in [highest : Int, span : Nat, heard : SUBSET Nat]
      /\ stats \in [received : Nat, missing : Int, late : Nat]
      /\ window.highest = Loss!IdOf(newest)
      /\ WindowIs(newest, first, window.span, window.heard, arrived)
      /\ stats.missing = Cardinality(Absent(first, newest - window.span, arrived))
  BY ClientAssumption DEF LossInv, Loss!LossAssumption
<1>1. PICK k \in Nat : k = newest - n
  BY <1>0
<1>2. k <= Reorder /\ k < Loss!WindowSize /\ 2 * k < MaxPacketId /\ k < MaxPacketId
  <2>1. n >= newest - Reorder
    BY DEF Loss!Receive
  <2> QED BY <2>1, <1>0, <1>1, LossConstants
<1>3. /\ Loss!ForwardDistance(Loss!IdOf(n), window.highest) = k
      /\ Loss!ForwardDistance(window.highest, Loss!IdOf(n)) = IF k = 0 THEN 0 ELSE MaxPacketId - k
  <2>1. newest = n + k
    BY <1>0, <1>1
  <2> QED BY <2>1, <1>0, <1>2, DistancesAre
<1>4. window.span # 0
  BY <1>0, WindowPositive DEF WindowIs, Smaller
<1>5. /\ stats' = [stats EXCEPT !.received = @ + 1, !.late = @ + 1]
      /\ window' = [window EXCEPT !.heard = IF k < window.span THEN @ \cup {k} ELSE @]
  <2>1. Loss!RecordEntityUpdatePacket(Loss!IdOf(n))
    BY DEF Loss!Receive
  <2>2. PICK fwd : fwd = Loss!ForwardDistance(window.highest, Loss!IdOf(n))
    OBVIOUS
  <2>3. ~(fwd # 0 /\ fwd <= k)
    BY <2>2, <1>2, <1>3, LossConstants
  <2> QED BY <2>1, <2>2, <2>3, <1>3, <1>4 DEF Loss!RecordEntityUpdatePacket
<1>6. arrived' = arrived \cup {n} /\ first' = first /\ newest' = newest
  BY <1>0 DEF Loss!Receive
<1>7. /\ window'.highest = window.highest /\ window'.span = window.span
      /\ window'.heard = IF k < window.span THEN window.heard \cup {k} ELSE window.heard
      /\ window' \in [highest : Int, span : Nat, heard : SUBSET Nat]
      /\ stats' \in [received : Nat, missing : Int, late : Nat] /\ stats'.missing = stats.missing
  <2>1. PICK h \in SUBSET Nat :
          h = IF k < window.span THEN window.heard \cup {k} ELSE window.heard
    BY <1>0
  <2>2. window' = [window EXCEPT !.heard = h]
    BY <1>5, <2>1
  <2>3. /\ window'.highest = window.highest /\ window'.span = window.span
        /\ window'.heard = h /\ window' \in [highest : Int, span : Nat, heard : SUBSET Nat]
    BY <1>0, <2>2
  <2>4. /\ stats' \in [received : Nat, missing : Int, late : Nat]
        /\ stats'.missing = stats.missing
    <3>1. PICK x \in Nat, y \in Nat : x = stats.received + 1 /\ y = stats.late + 1
      BY <1>0
    <3>2. stats' = [stats EXCEPT !.received = x, !.late = y]
      BY <1>5, <3>1
    <3> QED BY <1>0, <3>2
  <2> QED BY <2>1, <2>3, <2>4
<1>8. PICK s \in Nat : s = window.span
  BY <1>0
<1>9. PICK f \in Nat : f = first /\ f >= 1 /\ f <= newest
  BY <1>0 DEF WindowIs
<1>10. s = Smaller(newest - f + 1, Loss!WindowSize)
  BY <1>0, <1>8, <1>9 DEF WindowIs
<1>11. ~(k < s) => n < f
  BY <1>0, <1>1, <1>2, <1>9, <1>10, WindowPositive DEF Smaller
<1>12. WindowIs(newest, f, s, window'.heard, arrived \cup {n})
  <2>1. window.heard = {d \in 0 .. (s - 1) : newest - d \in arrived}
        /\ newest \in arrived /\ arrived \subseteq 1 .. newest
    BY <1>0, <1>8 DEF WindowIs
  <2>2. window'.heard = {d \in 0 .. (s - 1) : newest - d \in arrived \cup {n}}
    <3>1. CASE k < s
      BY <3>1, <2>1, <1>7, <1>8, <1>0, <1>1
    <3>2. CASE ~(k < s)
      <4>1. \A d \in 0 .. (s - 1) : newest - d # n
        BY <3>2, <1>0, <1>1
      <4> QED BY <3>2, <4>1, <2>1, <1>7, <1>8
    <3> QED BY <3>1, <3>2
  <2> QED BY <2>1, <2>2, <1>0, <1>9, <1>10 DEF WindowIs
<1>13. Absent(f, newest - s, arrived \cup {n}) = Absent(f, newest - s, arrived)
  <2>1. \A i \in f .. (newest - s) : i # n
    BY <1>0, <1>1, <1>9, <1>11
  <2> QED BY <2>1 DEF Absent
<1>14. stats'.missing = Cardinality(Absent(f, newest - s, arrived \cup {n}))
  BY <1>0, <1>7, <1>8, <1>9, <1>13
<1> QED BY <1>0, <1>6, <1>7, <1>8, <1>9, <1>12, <1>14 DEF LossInv

\* The distances that become old when the window slides are as many as packets
\* that arrived and leave it.
OldIn(n, by, s, s2, T) == {d \in 0 .. (s - 1) : n - d \in T /\ d + by >= s2}
LeftIn(n, by, s, s2, T) == Present(n - s + 1, n + by - s2, T \cup {n + by})

\* The two count the same packets.
LEMMA OldCount ==
    ASSUME NEW n \in Nat, NEW by \in Nat, NEW s \in Nat, NEW s2 \in Nat,
           NEW T \in SUBSET (1 .. n), s <= n, s2 > 0, s2 <= s + by
    PROVE  Cardinality(OldIn(n, by, s, s2, T)) = Cardinality(LeftIn(n, by, s, s2, T))
<1> DEFINE lo == n - s + 1
           hi == n + by - s2
           S == (lo .. hi) \cap (T \cup {n + by})
           old == OldIn(n, by, s, s2, T)
<1>0. \A d : d \in old <=> d \in 0 .. (s - 1) /\ n - d \in T /\ d + by >= s2
  BY DEF OldIn
<1> HIDE DEF old
<1>1. S \in SUBSET Int /\ IsFiniteSet(S)
  <2>1. IsFiniteSet(lo .. hi) /\ S \subseteq lo .. hi
    BY FS_Interval
  <2> QED BY <2>1, FS_Subset
<1>2. \A d \in old : \E i \in S : d = n - i
  <2> SUFFICES ASSUME NEW d \in old PROVE n - d \in S /\ d = n - (n - d)
    OBVIOUS
  <2>1. d \in 0 .. (s - 1) /\ n - d \in T /\ d + by >= s2
    BY <1>0
  <2> QED BY <2>1
<1>3. \A i \in S : n - i \in old
  <2> SUFFICES ASSUME NEW i \in S PROVE n - i \in old
    OBVIOUS
  <2>1. i \in lo .. hi /\ i \in T \cup {n + by}
    OBVIOUS
  <2>2. i # n + by /\ i \in T /\ i \in 1 .. n
    BY <2>1
  <2> QED BY <2>1, <2>2, <1>0
<1> HIDE DEF S
<1>4. Cardinality(old) = Cardinality(S)
  <2>1. n \in Int
    OBVIOUS
  <2> QED BY <2>1, <1>1, <1>2, <1>3, MirrorCount, Zenon
<1> QED BY <1>4 DEF S, old, LeftIn, Present

\* A new packet slides the window; what leaves it unheard is missing.
LEMMA NewPacketKeeps ==
    ASSUME LossInv, newest # 0, NEW n \in 1 .. MaxSent, n > newest, Loss!Receive(n)
    PROVE  LossInv'
<1>0. /\ n \in Nat /\ n > 0 /\ newest \in Nat /\ newest > 0
      /\ window \in [highest : Int, span : Nat, heard : SUBSET Nat]
      /\ stats \in [received : Nat, missing : Int, late : Nat]
      /\ window.highest = Loss!IdOf(newest)
      /\ WindowIs(newest, first, window.span, window.heard, arrived)
      /\ stats.missing = Cardinality(Absent(first, newest - window.span, arrived))
  BY ClientAssumption DEF LossInv, Loss!LossAssumption
<1>1. PICK by \in Nat : by = n - newest /\ by > 0
  BY <1>0
<1>2. by <= MaxSkip /\ 2 * by <= MaxPacketId /\ by < MaxPacketId /\ MaxPacketId \in Nat
  <2>1. n <= newest + MaxSkip
    BY DEF Loss!Receive
  <2> QED BY <2>1, <1>0, <1>1, LossConstants
<1>3. /\ Loss!ForwardDistance(window.highest, Loss!IdOf(n)) = by
      /\ Loss!ForwardDistance(Loss!IdOf(n), window.highest) = MaxPacketId - by
  <2>1. n = newest + by
    BY <1>0, <1>1
  <2> QED BY <2>1, <1>0, <1>1, <1>2, DistancesAre
<1>4. PICK s \in Nat, f \in Nat, m \in Nat, T \in SUBSET Nat, set \in SUBSET Nat :
        s = window.span /\ f = first /\ m = newest /\ T = arrived /\ set = window.heard
  BY <1>0 DEF WindowIs, LossInv
<1>5. /\ f \in 1 .. m /\ m \in T /\ T \subseteq 1 .. m /\ m > 0
      /\ s = Smaller(m - f + 1, Loss!WindowSize)
      /\ set = {d \in 0 .. (s - 1) : m - d \in T}
  BY <1>0, <1>4 DEF WindowIs
<1>6. s > 0 /\ s <= m - f + 1 /\ s <= m /\ s <= Loss!WindowSize
  BY <1>5, WindowPositive DEF Smaller
<1>7. PICK s2 \in Nat : s2 = IF s + by < Loss!WindowSize THEN s + by ELSE Loss!WindowSize
  BY WindowPositive
<1>8. s2 > 0 /\ s2 <= s + by /\ s2 = Smaller(n - f + 1, Loss!WindowSize)
  BY <1>0, <1>1, <1>4, <1>5, <1>6, <1>7, WindowPositive DEF Smaller
<1>9. PICK old \in SUBSET Nat : old = {d \in set : d + by >= s2}
  OBVIOUS
<1>10. /\ stats' = [stats EXCEPT !.received = @ + 1,
                                 !.missing = @ + ((s + by) - s2) - Loss!Cardinality(old)]
       /\ window' = [highest |-> Loss!IdOf(n), span |-> s2,
                     heard |-> {0} \cup {d + by : d \in set \ old}]
  <2>1. Loss!RecordEntityUpdatePacket(Loss!IdOf(n))
    BY DEF Loss!Receive
  <2>2. by # 0 /\ by <= MaxPacketId - by /\ window.span # 0
    BY <1>1, <1>2, <1>4, <1>6
  <2>3. Loss!Slide(by, Loss!IdOf(n))
    BY <2>1, <2>2, <1>3 DEF Loss!RecordEntityUpdatePacket
  <2> QED BY <2>3, <1>4, <1>7, <1>9 DEF Loss!Slide
<1>11. arrived' = T \cup {n} /\ first' = f /\ newest' = n
  BY <1>0, <1>4 DEF Loss!Receive
<1>12. {0} \cup {d + by : d \in set \ old} = {d \in 0 .. (s2 - 1) : n - d \in T \cup {n}}
  <2>1. ASSUME NEW d \in set \ old PROVE d + by \in 0 .. (s2 - 1) /\ n - (d + by) \in T
    <3>1. d \in 0 .. (s - 1) /\ m - d \in T /\ ~(d + by >= s2) /\ d \in Nat
      BY <2>1, <1>5, <1>9
    <3>2. n - (d + by) = m - d
      BY <3>1, <1>1, <1>4, <1>0
    <3> QED BY <3>1, <3>2
  <2>2. ASSUME NEW d \in 0 .. (s2 - 1), n - d \in T PROVE d - by \in set \ old
    <3>1. n - d \in 1 .. m
      BY <2>2, <1>5
    <3>2. d - by \in 0 .. (s - 1) /\ m - (d - by) = n - d /\ ~((d - by) + by >= s2)
      BY <3>1, <1>0, <1>1, <1>4, <1>7, <1>8
    <3> QED BY <2>2, <3>2, <1>5, <1>9
  <2>3. ASSUME NEW d \in 0 .. (s2 - 1), n - d \in T PROVE d = (d - by) + by
    BY <1>1
  <2>4. 0 \in 0 .. (s2 - 1) /\ n - 0 = n /\ \A d \in 0 .. (s2 - 1) : n - d = n => d = 0
    BY <1>0, <1>8
  <2> QED BY <2>1, <2>2, <2>3, <2>4
<1>13. WindowIs(n, f, s2, {0} \cup {d + by : d \in set \ old}, T \cup {n})
  BY <1>0, <1>1, <1>4, <1>5, <1>8, <1>12 DEF WindowIs
<1>14. PICK c \in Nat :
         /\ c = Loss!Cardinality(old)
         /\ Cardinality(Absent(f, n - s2, T \cup {n})) =
              Cardinality(Absent(f, m - s, T)) + ((s + by) - s2) - c
         /\ Cardinality(Absent(f, m - s, T)) \in Nat
  <2>1. n = m + by
    BY <1>0, <1>1, <1>4
  <2>2. PICK lo \in Int, mid \in Int, hi \in Int :
          lo = m - s + 1 /\ mid = m - s /\ hi = n - s2
    BY <1>0
  <2>3. PICK U : U = T \cup {n} /\ U = T \cup {m + by}
    BY <2>1
  <2>4. old = OldIn(m, by, s, s2, T)
    BY <1>5, <1>9 DEF OldIn
  <2>5. Cardinality(OldIn(m, by, s, s2, T)) = Cardinality(Present(lo, hi, U))
    <3>1. LeftIn(m, by, s, s2, T) = Present(lo, hi, U)
      BY <2>1, <2>2, <2>3 DEF LeftIn
    <3>2. T \subseteq 1 .. m /\ s <= m /\ s2 > 0 /\ s2 <= s + by
      BY <1>5, <1>6, <1>8
    <3> QED BY <3>1, <3>2, OldCount
  <2>6. /\ Cardinality(Absent(f, mid, U)) \in Nat
        /\ Cardinality(Present(lo, hi, U)) \in Nat
        /\ Cardinality(Absent(f, hi, U)) =
             Cardinality(Absent(f, mid, U)) + (hi - mid) - Cardinality(Present(lo, hi, U))
    <3>1. lo = mid + 1 /\ f <= mid + 1 /\ mid <= hi
      BY <2>1, <2>2, <1>5, <1>6, <1>8
    <3> QED BY <3>1, AbsentGrows
  <2>7. Absent(f, mid, U) = Absent(f, mid, T)
    BY <2>1, <2>2, <2>3, <1>1, <1>6 DEF Absent
  <2>8. hi - mid = (s + by) - s2
    BY <2>1, <2>2
  <2>9. Loss!Cardinality(old) = Cardinality(Present(lo, hi, U))
    BY <2>4, <2>5, SameCount
  <2> QED BY <2>2, <2>3, <2>6, <2>7, <2>8, <2>9
<1>15. /\ stats' \in [received : Nat, missing : Int, late : Nat]
       /\ stats'.missing = Cardinality(Absent(f, n - s2, T \cup {n}))
  <2>1. PICK x \in Int : x = stats.missing + ((s + by) - s2) - c
    BY <1>0
  <2>2. PICK y \in Nat : y = stats.received + 1
    BY <1>0
  <2>4. stats' = [stats EXCEPT !.received = y, !.missing = x]
    BY <2>1, <2>2, <1>10, <1>14
  <2>3. stats' \in [received : Nat, missing : Int, late : Nat] /\ stats'.missing = x
    BY <2>4, <1>0
  <2> QED BY <2>1, <2>3, <1>0, <1>4, <1>14
<1>16. /\ window' \in [highest : Int, span : Nat, heard : SUBSET Nat]
       /\ window'.highest = Loss!IdOf(n) /\ window'.span = s2
       /\ window'.heard = {0} \cup {d + by : d \in set \ old}
  <2>1. Loss!IdOf(n) \in 1 .. MaxPacketId
    <3>1. 0 \in Nat /\ 0 < MaxPacketId
      BY <1>1, <1>2
    <3> QED BY <3>1, <1>0, IdsOnCircle
  <2> DEFINE h == {0} \cup {d + by : d \in set \ old}
  <2>2. h \in SUBSET Nat
    <3>1. \A d \in set \ old : d + by \in Nat
      OBVIOUS
    <3> QED BY <3>1
  <2>3. window' = [highest |-> Loss!IdOf(n), span |-> s2, heard |-> h]
    BY <1>10
  <2> HIDE DEF h
  <2>4. /\ window' \in [highest : Int, span : Nat, heard : SUBSET Nat]
        /\ window'.highest = Loss!IdOf(n) /\ window'.span = s2 /\ window'.heard = h
    BY <2>1, <2>2, <2>3, <1>2
  <2> QED BY <2>4 DEF h
<1>17. T \cup {n} \subseteq Nat
  BY <1>0
<1> QED BY <1>0, <1>11, <1>13, <1>15, <1>16, <1>17 DEF LossInv

\* The invariant holds of every behaviour.
LEMMA LossInvAlways == MCSpec => []LossInv
<1>1. MCInit => LossInv
  BY DEF MCInit, Loss!Init, LossInv
<1>2. ASSUME LossInv, Loss!Next PROVE LossInv'
  <2>1. PICK n \in 1 .. MaxSent : Loss!Receive(n)
    BY <1>2 DEF Loss!Next
  <2>2. newest \in Nat /\ n \in Int
    BY <1>2 DEF LossInv
  <2>3. CASE newest = 0
    BY <1>2, <2>1, <2>3, FirstPacketKeeps
  <2>4. CASE newest # 0 /\ n <= newest
    BY <1>2, <2>1, <2>4, LatePacketKeeps
  <2>5. CASE newest # 0 /\ n > newest
    BY <1>2, <2>1, <2>5, NewPacketKeeps
  <2> QED BY <2>2, <2>3, <2>4, <2>5
<1>3. ASSUME LossInv, UNCHANGED lossVars PROVE LossInv'
  BY <1>3 DEF LossInv, lossVars, WindowIs
<1>4. LossInv /\ [MCNext]_<<part, vars, prdVars, clockVars, lossVars>> => LossInv'
  BY <1>2, <1>3 DEF MCNext
<1> QED BY <1>1, <1>4, PTL DEF MCSpec

\* The statistics count exactly the packets that never came, for every size of
\* the circle and the window: record_entity_update_packet.
THEOREM MissingIsCountedExactly == MCSpec => []MissingIsExact
<1>1. LossInv => MissingIsExact
  BY SameCount DEF LossInv, MissingIsExact, Loss!MissingIsExact, Absent
<1> QED BY <1>1, LossInvAlways, PTL

--------------------------------------------------------------------------------
(* Rings, records and resimulation of one entity (Prediction)                 *)

\* A ring of frames: what it holds of which frames.
Ring == UNION {[D -> Nat] : D \in SUBSET Prd!Frames}

\* What the assumption on the prediction says of the constants.
LEMMA PrdConstants ==
    /\ RingCapacity \in Nat /\ RingCapacity > 0 /\ MaxPredicted \in Nat
    /\ Policies \subseteq {"All", "OnlyAffected"} /\ Offsets \subseteq Nat
    /\ Prd!Frames \subseteq Nat
BY ClientAssumption DEF Prd!PredictionAssumption, Prd!Frames

\* A ring holds numbers of frames.
LEMMA RingFacts ==
    ASSUME NEW r \in Ring
    PROVE  DOMAIN r \subseteq Prd!Frames /\ \A f \in DOMAIN r : r[f] \in Nat
BY DEF Ring

\* Any function from frames to numbers is a ring.
LEMMA MakeRing ==
    ASSUME NEW D \in SUBSET Prd!Frames, NEW r \in [D -> Nat]
    PROVE  r \in Ring
BY DEF Ring

\* The ring of a new entity.
LEMMA EmptyRing == <<>> \in Ring /\ DOMAIN <<>> = {}
<1>1. <<>> \in [{} -> Nat]
  OBVIOUS
<1> QED BY <1>1, MakeRing

\* Two frames less than a ring apart have different slots, frames a ring apart
\* the same.
LEMMA DifferentSlots ==
    ASSUME NEW f \in Nat, NEW g \in Nat, f < g, g < f + RingCapacity
    PROVE  (f % RingCapacity) # (g % RingCapacity)
<1>1. PICK c \in Nat : c = RingCapacity /\ c > 0
  BY PrdConstants
<1>2. SUFFICES ASSUME (f % c) = (g % c) PROVE FALSE
  BY <1>1
<1>3. PICK r \in 0 .. (c - 1), p \in Int, q \in Int : f = p * c + r /\ g = q * c + r
  <2>1. f = (f \div c) * c + (f % c) /\ f \div c \in Int /\ (f % c) \in 0 .. (c - 1)
    BY <1>1
  <2>2. g = (g \div c) * c + (g % c) /\ g \div c \in Int
    BY <1>1
  <2> QED BY <2>1, <2>2, <1>2
<1>4. PICK d \in Int : d = q - p
  BY <1>3
<1>5. g - f = d * c
  BY <1>1, <1>3, <1>4
<1>6. d >= 1 => d * c >= c
  BY <1>1, <1>4
<1>7. d <= 0 => d * c <= 0
  BY <1>1, <1>4
<1> QED BY <1>1, <1>4, <1>5, <1>6, <1>7

\* Frames a ring apart share a slot.
LEMMA SameSlot ==
    ASSUME NEW f \in Nat
    PROVE  ((f + RingCapacity) % RingCapacity) = (f % RingCapacity)
<1>1. PICK c \in Nat : c = RingCapacity /\ c > 0
  BY PrdConstants
<1>2. PICK r \in 0 .. (c - 1), p \in Int : f = p * c + r /\ r = f % c
  BY <1>1
<1>3. f + c = (p + 1) * c + r
  BY <1>1, <1>2
<1>4. ((f + c) % c) = r
  BY <1>1, <1>2, <1>3
<1> QED BY <1>1, <1>2, <1>4

\* What a ring holds after a frame was stored.
LEMMA StoreIs ==
    ASSUME NEW r \in Ring, NEW f \in Prd!Frames, NEW x \in Nat
    PROVE  /\ Prd!Store(r, f, x) \in Ring
           /\ DOMAIN Prd!Store(r, f, x) =
                {g \in DOMAIN r : (g % RingCapacity) # (f % RingCapacity)} \cup {f}
           /\ Prd!Store(r, f, x)[f] = x
           /\ \A g \in DOMAIN Prd!Store(r, f, x) : g # f => g \in DOMAIN r /\ Prd!Store(r, f, x)[g] = r[g]
<1> DEFINE D == {g \in DOMAIN r : (g % RingCapacity) # (f % RingCapacity)} \cup {f}
           R == [g \in D |-> IF g = f THEN x ELSE r[g]]
<1>1. Prd!Store(r, f, x) = R
  BY DEF Prd!Store
<1>2. D \in SUBSET Prd!Frames
  BY RingFacts
<1>3. R \in [D -> Nat]
  BY RingFacts
<1>4. DOMAIN R = D /\ R[f] = x /\ \A g \in D : g # f => g \in DOMAIN r /\ R[g] = r[g]
  OBVIOUS
<1> HIDE DEF D, R
<1>5. R \in Ring
  BY <1>2, <1>3, MakeRing
<1> QED BY <1>1, <1>4, <1>5 DEF D

\* A frame of the last RingCapacity ones survives the next one.
LEMMA StoreKeeps ==
    ASSUME NEW r \in Ring, NEW f \in Prd!Frames, NEW x \in Nat, NEW g \in DOMAIN r,
           g < f, f < g + RingCapacity
    PROVE  g \in DOMAIN Prd!Store(r, f, x)
<1>1. g \in Nat /\ f \in Nat
  BY RingFacts, PrdConstants
<1>2. (g % RingCapacity) # (f % RingCapacity)
  BY <1>1, DifferentSlots
<1>3. DOMAIN Prd!Store(r, f, x) =
        {h \in DOMAIN r : (h % RingCapacity) # (f % RingCapacity)} \cup {f}
  BY StoreIs, Zenon
<1> QED BY <1>2, <1>3

\* A stored frame takes the slot of the frame a ring before it.
LEMMA StoreEvicts ==
    ASSUME NEW r \in Ring, NEW f \in Prd!Frames, NEW x \in Nat,
           NEW g \in DOMAIN Prd!Store(r, f, x), g # f
    PROVE  f # g + RingCapacity
<1>0. DOMAIN Prd!Store(r, f, x) =
        {h \in DOMAIN r : (h % RingCapacity) # (f % RingCapacity)} \cup {f}
  BY StoreIs, Zenon
<1>1. g \in DOMAIN r /\ (g % RingCapacity) # (f % RingCapacity)
  BY <1>0
<1>2. g \in Nat
  BY <1>1, RingFacts, PrdConstants
<1> QED BY <1>1, <1>2, SameSlot

\* What a ring holds after the frames begin + 1 .. current were stored, as long as
\* it holds nothing later.
LEMMA StoreAllIs ==
    ASSUME NEW r \in Ring, NEW begin \in Nat, NEW current \in Prd!Frames, begin < current,
           DOMAIN r \subseteq 1 .. current,
           NEW run \in [begin + 1 .. current -> Nat]
    PROVE  /\ Prd!StoreAll(r, run) \in Ring
           /\ \A g \in DOMAIN Prd!StoreAll(r, run) :
                /\ g \in 1 .. current
                /\ g > begin => Prd!StoreAll(r, run)[g] = run[g] /\ current < g + RingCapacity
                /\ g <= begin => g \in DOMAIN r /\ Prd!StoreAll(r, run)[g] = r[g]
           /\ \A g \in begin + 1 .. current :
                current < g + RingCapacity => g \in DOMAIN Prd!StoreAll(r, run)
           /\ \A g \in DOMAIN r :
                g <= begin /\ current < g + RingCapacity => g \in DOMAIN Prd!StoreAll(r, run)
<1> DEFINE N == begin + 1 .. current
           D == {h \in DOMAIN r : \A f \in N : (h % RingCapacity) # (f % RingCapacity)} \cup
                {f \in N : f + RingCapacity \notin N}
           R == [g \in D |-> IF g \in N THEN run[g] ELSE r[g]]
<1>0. RingCapacity \in Nat /\ RingCapacity > 0 /\ current \in Nat /\ Prd!Frames = 1 .. MaxPredicted
      /\ MaxPredicted \in Nat /\ current <= MaxPredicted /\ DOMAIN run = N
  BY PrdConstants DEF Prd!Frames
<1>1. Prd!StoreAll(r, run) = R
  BY <1>0 DEF Prd!StoreAll
<1>2. D \in SUBSET Prd!Frames /\ D \subseteq 1 .. current
  BY <1>0
<1>3. R \in [D -> Nat]
  BY <1>2, RingFacts
<1>4. DOMAIN R = D /\ (\A g \in D : g \in N => R[g] = run[g])
      /\ (\A g \in D : g \notin N => g \in DOMAIN r /\ R[g] = r[g])
  OBVIOUS
<1>5. \A g \in D : g \in N => current < g + RingCapacity
  <2> SUFFICES ASSUME NEW g \in D, g \in N PROVE current < g + RingCapacity
    OBVIOUS
  <2>1. g + RingCapacity \notin N
    OBVIOUS
  <2> QED BY <2>1, <1>0
<1>6. \A g \in N : current < g + RingCapacity => g \in D
  BY <1>0
<1>7. \A g \in DOMAIN r : g <= begin /\ current < g + RingCapacity => g \in D
  <2> SUFFICES ASSUME NEW g \in DOMAIN r, g <= begin, current < g + RingCapacity
               PROVE  \A f \in N : (g % RingCapacity) # (f % RingCapacity)
    OBVIOUS
  <2> TAKE f \in N
  <2>1. g \in Nat /\ f \in Nat /\ g < f /\ f < g + RingCapacity
    BY <1>0
  <2> QED BY <2>1, DifferentSlots
<1>8. \A g \in D : (g > begin <=> g \in N) /\ g \in 1 .. current
  BY <1>2, <1>0
<1>9. R \in Ring
  <2> HIDE DEF D, R
  <2> QED BY <1>2, <1>3, MakeRing
<1> HIDE DEF D, R
<1> QED BY <1>0, <1>1, <1>4, <1>5, <1>6, <1>7, <1>8, <1>9

\* The fields of an entity.
PredictedEntity ==
  [life : {"unknown", "alive", "gone"}, auth : 0 .. MaxPredicted, base : Ring, reg : Nat,
   pred : Ring, pend : 0 .. MaxPredicted, played : SUBSET Prd!Frames,
   confirmed : SUBSET Prd!Frames, sound : [Prd!Frames -> Int], served : SUBSET Prd!Frames,
   settled : BOOLEAN, joined : 0 .. MaxPredicted]

\* Every played cue is heard once, and nothing else.
HeardAsPlayed(s) == \A f \in Prd!Frames : s.sound[f] = IF f \in s.played THEN 1 ELSE 0

\* All but the cues that were played.
SameSimulation(s, r) ==
  /\ r.life = s.life /\ r.auth = s.auth /\ r.base = s.base /\ r.reg = s.reg /\ r.pred = s.pred
  /\ r.pend = s.pend /\ r.confirmed = s.confirmed /\ r.served = s.served
  /\ r.settled = s.settled /\ r.joined = s.joined

\* The same, field by field.
LEMMA EntityFields ==
    ASSUME NEW s \in PredictedEntity
    PROVE  /\ s.life \in {"unknown", "alive", "gone"} /\ s.settled \in BOOLEAN
           /\ {s.auth, s.pend, s.joined} \subseteq 0 .. MaxPredicted
           /\ s.base \in Ring /\ s.pred \in Ring /\ s.reg \in Nat
           /\ {s.played, s.confirmed, s.served} \subseteq SUBSET Prd!Frames
           /\ s.sound \in [Prd!Frames -> Int]
BY DEF PredictedEntity

\* The frames are numbered from 1.
LEMMA FrameNumbers ==
    /\ MaxPredicted \in Nat /\ Prd!Frames = 1 .. MaxPredicted
    /\ RingCapacity \in Nat /\ RingCapacity > 0
BY PrdConstants DEF Prd!Frames

\* What is heard after plays and takes back.
LEMMA HeardIs ==
    ASSUME NEW s \in PredictedEntity, NEW plays \in SUBSET Prd!Frames,
           NEW back \in SUBSET Prd!Frames
    PROVE  /\ Prd!Heard(s, plays, back) \in [Prd!Frames -> Int]
           /\ \A f \in Prd!Frames : Prd!Heard(s, plays, back)[f] =
                s.sound[f] + (IF f \in plays THEN 1 ELSE 0) - (IF f \in back THEN 1 ELSE 0)
<1>1. \A f \in Prd!Frames : s.sound[f] \in Int
  BY EntityFields
<1> QED BY <1>1 DEF Prd!Heard

\* drain_emitted_prediction
LEMMA DrainIs ==
    ASSUME NEW s \in PredictedEntity, HeardAsPlayed(s), NEW emitted \in SUBSET Prd!Frames
    PROVE  /\ Prd!DrainCues(s, emitted) \in PredictedEntity
           /\ HeardAsPlayed(Prd!DrainCues(s, emitted))
           /\ SameSimulation(s, Prd!DrainCues(s, emitted))
           /\ Prd!DrainCues(s, emitted).played = s.played \cup emitted
<1>1. PICK p \in SUBSET Prd!Frames : p = s.played \cup emitted
  BY EntityFields
<1>2. PICK n \in SUBSET Prd!Frames : n = Prd!NewCues(s, emitted) /\ n = emitted \ s.played
  BY DEF Prd!NewCues
<1>3. PICK h \in [Prd!Frames -> Int] :
        /\ h = Prd!Heard(s, n, {})
        /\ \A f \in Prd!Frames : h[f] =
             s.sound[f] + (IF f \in n THEN 1 ELSE 0) - (IF f \in {} THEN 1 ELSE 0)
  BY HeardIs
<1>4. Prd!DrainCues(s, emitted) = [s EXCEPT !.played = p, !.sound = h]
  BY <1>1, <1>2, <1>3 DEF Prd!DrainCues
<1> DEFINE r == [s EXCEPT !.played = p, !.sound = h]
<1>5. r \in PredictedEntity /\ SameSimulation(s, r) /\ r.played = p /\ r.sound = h
  BY DEF PredictedEntity, SameSimulation
<1> HIDE DEF r
<1>6. HeardAsPlayed(r)
  <2> SUFFICES ASSUME NEW f \in Prd!Frames PROVE r.sound[f] = IF f \in r.played THEN 1 ELSE 0
    BY DEF HeardAsPlayed
  <2>1. s.sound[f] = IF f \in s.played THEN 1 ELSE 0
    BY DEF HeardAsPlayed
  <2>2. h[f] = s.sound[f] + (IF f \in n THEN 1 ELSE 0) - 0
    BY <1>3
  <2> QED BY <2>1, <2>2, <1>1, <1>2, <1>5
<1> QED BY <1>1, <1>4, <1>5, <1>6 DEF r

\* finish_resimulation
LEMMA FinishIs ==
    ASSUME NEW s \in PredictedEntity, HeardAsPlayed(s), NEW emitted, NEW begin, NEW current
    PROVE  /\ Prd!FinishCues(s, emitted, begin, current) \in PredictedEntity
           /\ HeardAsPlayed(Prd!FinishCues(s, emitted, begin, current))
           /\ SameSimulation(s, Prd!FinishCues(s, emitted, begin, current))
           /\ Prd!FinishCues(s, emitted, begin, current).played =
                {f \in s.played : ~(begin < f /\ f <= current) \/ f \in s.confirmed \/ f \in emitted}
<1>1. PICK d \in SUBSET Prd!Frames :
        d = (Prd!TouchedCues(s, begin, current) \ s.confirmed) \ emitted
  BY EntityFields DEF Prd!TouchedCues
<1>2. PICK p \in SUBSET Prd!Frames : p = s.played \ d
  BY EntityFields
<1>0. PICK none \in SUBSET Prd!Frames : none = {}
  OBVIOUS
<1>3. PICK h \in [Prd!Frames -> Int] :
        /\ h = Prd!Heard(s, none, d)
        /\ \A f \in Prd!Frames : h[f] =
             s.sound[f] + (IF f \in none THEN 1 ELSE 0) - (IF f \in d THEN 1 ELSE 0)
  BY HeardIs
<1>4. Prd!FinishCues(s, emitted, begin, current) = [s EXCEPT !.played = p, !.sound = h]
  BY <1>0, <1>1, <1>2, <1>3 DEF Prd!FinishCues
<1> DEFINE r == [s EXCEPT !.played = p, !.sound = h]
<1>5. r \in PredictedEntity /\ SameSimulation(s, r) /\ r.played = p /\ r.sound = h
  BY DEF PredictedEntity, SameSimulation
<1> HIDE DEF r
<1>6. HeardAsPlayed(r)
  <2> SUFFICES ASSUME NEW f \in Prd!Frames PROVE r.sound[f] = IF f \in r.played THEN 1 ELSE 0
    BY DEF HeardAsPlayed
  <2>1. s.sound[f] = IF f \in s.played THEN 1 ELSE 0
    BY DEF HeardAsPlayed
  <2>2. h[f] = s.sound[f] + 0 - (IF f \in d THEN 1 ELSE 0)
    BY <1>0, <1>3
  <2>3. f \in d => f \in s.played
    BY <1>1 DEF Prd!TouchedCues
  <2> QED BY <2>1, <2>2, <2>3, <1>2, <1>5
<1>7. p = {f \in s.played : ~(begin < f /\ f <= current) \/ f \in s.confirmed \/ f \in emitted}
  BY <1>1, <1>2 DEF Prd!TouchedCues
<1> QED BY <1>4, <1>5, <1>6, <1>7 DEF r

\* reconcile_authoritative_predicted
LEMMA ReconcileIs ==
    ASSUME NEW s \in PredictedEntity, HeardAsPlayed(s), NEW cues \in SUBSET Prd!Frames, NEW f,
           NEW t, t = [s EXCEPT !.confirmed = @ \cup cues]
    PROVE  /\ Prd!ReconcileCues(s, cues, f) \in PredictedEntity
           /\ HeardAsPlayed(Prd!ReconcileCues(s, cues, f))
           /\ SameSimulation(t, Prd!ReconcileCues(s, cues, f))
           /\ Prd!ReconcileCues(s, cues, f).played =
                {g \in s.played \cup cues : g = f => g \in s.confirmed \cup cues}
<1>1. PICK w \in SUBSET Prd!Frames :
        /\ w = Prd!Mispredicted(s, cues, f)
        /\ w = {g \in s.played \ s.confirmed : g = f /\ g \notin cues}
  BY EntityFields DEF Prd!Mispredicted
<1>2. PICK p \in SUBSET Prd!Frames : p = (s.played \cup cues) \ w
  BY EntityFields
<1>3. PICK n \in SUBSET Prd!Frames : n = Prd!NewCues(s, cues) /\ n = cues \ s.played
  BY DEF Prd!NewCues
<1>4. PICK h \in [Prd!Frames -> Int] :
        /\ h = Prd!Heard(s, n, w)
        /\ \A g \in Prd!Frames : h[g] =
             s.sound[g] + (IF g \in n THEN 1 ELSE 0) - (IF g \in w THEN 1 ELSE 0)
  BY HeardIs
<1>5. PICK c \in SUBSET Prd!Frames : c = s.confirmed \cup cues
  BY EntityFields
<1>6. Prd!ReconcileCues(s, cues, f) = [s EXCEPT !.played = p, !.confirmed = c, !.sound = h]
  BY <1>1, <1>2, <1>3, <1>4, <1>5 DEF Prd!ReconcileCues
<1> DEFINE r == [s EXCEPT !.played = p, !.confirmed = c, !.sound = h]
           u == [s EXCEPT !.confirmed = c]
<1>7. r \in PredictedEntity /\ SameSimulation(u, r) /\ r.played = p /\ r.sound = h
  BY DEF PredictedEntity, SameSimulation
<1>8. t = u
  BY <1>5
<1> HIDE DEF r, u
<1>9. HeardAsPlayed(r)
  <2> SUFFICES ASSUME NEW g \in Prd!Frames PROVE r.sound[g] = IF g \in r.played THEN 1 ELSE 0
    BY DEF HeardAsPlayed
  <2>1. s.sound[g] = IF g \in s.played THEN 1 ELSE 0
    BY DEF HeardAsPlayed
  <2>2. h[g] = s.sound[g] + (IF g \in n THEN 1 ELSE 0) - (IF g \in w THEN 1 ELSE 0)
    BY <1>4
  <2> QED BY <2>1, <2>2, <1>1, <1>2, <1>3, <1>7
<1>10. p = {g \in s.played \cup cues : g = f => g \in s.confirmed \cup cues}
  BY <1>1, <1>2
<1> QED BY <1>6, <1>7, <1>8, <1>9, <1>10 DEF r

--------------------------------------------------------------------------------
(* What holds of one entity, l being the last predicted frame                   *)

\* The record of frame auth is the latest the baseline ring holds.
BaseOK(s) == DOMAIN s.base \subseteq 1 .. s.auth /\ s.auth \in DOMAIN s.base

\* What was simulated after auth is one run, a frame of simulation apart.
OneRun(s) ==
  \A f \in DOMAIN s.pred, g \in DOMAIN s.pred :
    s.auth < f /\ s.joined < f /\ f <= g => s.pred[g] = s.pred[f] + (g - f)

\* The simulated frames reach up to l without a gap, and the registry shows l.
Unbroken(s, l) ==
  /\ \A g \in DOMAIN s.pred : s.joined < g => \A f \in g .. l : f \in DOMAIN s.pred
  /\ s.joined < l /\ s.auth < l => l \in DOMAIN s.pred
  /\ s.joined < l /\ l \in DOMAIN s.pred => s.reg = s.pred[l]

\* CorrectionHolds of one entity.
Corrected(s, l) ==
  /\ \A f \in DOMAIN s.pred : f > s.auth => s.pred[f] = s.base[s.auth] + (f - s.auth)
  /\ s.reg = s.base[s.auth] + (l - s.auth)

\* A record that was compared: the frames since are simulated, CorrectionHolds once
\* no rollback is queued, and of its frame nothing is heard that the server did not send.
SettledOK(s, l) ==
  s.settled =>
    /\ s.joined < s.auth /\ s.auth <= l /\ l \in DOMAIN s.pred
    /\ \A f \in s.auth + 1 .. l : l < f + RingCapacity => f \in DOMAIN s.pred
    /\ s.pend = 0 => Corrected(s, l)
    /\ s.auth \notin s.confirmed => s.auth \notin s.played

\* The cues that were played: those the server sent, and of later frames those that
\* their latest simulation emitted.
CuesOK(s, l) ==
  /\ s.confirmed = s.served /\ s.confirmed \subseteq s.played /\ s.served \subseteq 1 .. s.auth
  /\ \A f \in s.played : f <= l \/ f <= s.auth
  /\ \A f \in DOMAIN s.pred : s.auth < f /\ s.joined < f =>
       (f \in s.played <=> Prd!EmitsCue(s.pred[f]))

\* Frames, queued rollback and rings.
RunOK(s, l) ==
  /\ DOMAIN s.pred \subseteq 1 .. l
  /\ s.pend <= s.auth /\ s.pend <= l
  /\ BaseOK(s) /\ OneRun(s) /\ Unbroken(s, l)

\* All that holds of a known entity.
EntityOK(s, l) ==
  /\ s.life = "alive"
  /\ HeardAsPlayed(s) /\ RunOK(s, l) /\ SettledOK(s, l) /\ CuesOK(s, l)

\* An entity that is not known, or no more, keeps nothing.
Blank(s) ==
  /\ s.life \in {"unknown", "gone"}
  /\ DOMAIN s.pred = {} /\ DOMAIN s.base = {} /\ s.auth = 0 /\ s.pend = 0 /\ s.served = {}
  /\ s.played = {} /\ s.confirmed = {} /\ HeardAsPlayed(s) /\ s.settled = FALSE

\* The record of a known entity, without the cues.
LEMMA RecordIs ==
    ASSUME NEW s \in PredictedEntity, HeardAsPlayed(s), NEW f \in Prd!Frames, NEW x \in Nat,
           NEW cues \in SUBSET Prd!Frames, prdLast \in 0 .. MaxPredicted, s.auth < f,
           s.pend <= s.auth
    PROVE  \E r \in PredictedEntity :
             /\ r = Prd!RecordState(s, f, x, cues)
             /\ r.life = "alive" /\ r.auth = f /\ r.pred = s.pred
             /\ r.pend = IF f \in DOMAIN s.pred /\ s.pred[f] # x THEN f ELSE s.pend
             /\ r.base = Prd!Store(s.base, f, x)
             /\ r.reg = IF s.life = "unknown" THEN x ELSE s.reg
             /\ r.joined = IF s.life = "unknown" THEN prdLast ELSE s.joined
             /\ r.settled = (f \in DOMAIN s.pred /\ f > s.joined)
             /\ r.served = s.served \cup cues /\ r.confirmed = s.confirmed \cup cues
             /\ r.played = {g \in s.played \cup cues : g = f => g \in s.confirmed \cup cues}
             /\ HeardAsPlayed(r)
<1>0. f \in 0 .. MaxPredicted /\ f > 0
  BY FrameNumbers
<1>1. PICK pend \in 0 .. MaxPredicted :
        /\ pend = IF Prd!Conflict(s, f, x) THEN Prd!QueuedFrame(s.pend, f) ELSE s.pend
        /\ pend = IF f \in DOMAIN s.pred /\ s.pred[f] # x THEN f ELSE s.pend
  <2>1. s.pend \in 0 .. MaxPredicted /\ s.pend < f /\ s.pend \in Int /\ f \in Int
    BY <1>0, EntityFields, FrameNumbers
  <2>2. Prd!Max({s.pend, f}) = f
    BY <2>1 DEF Prd!Max
  <2> QED BY <1>0, <2>1, <2>2 DEF Prd!Conflict, Prd!QueuedFrame, Prd!NoFrame
<1>2. PICK base \in Ring : base = Prd!Store(s.base, f, x)
  BY StoreIs, EntityFields
<1>3. PICK reg \in Nat : reg = IF s.life = "unknown" THEN x ELSE s.reg
  BY EntityFields
<1>4. PICK joined \in 0 .. MaxPredicted : joined = IF s.life = "unknown" THEN prdLast ELSE s.joined
  BY EntityFields
<1>5. PICK settled \in BOOLEAN : settled = (f \in DOMAIN s.pred /\ f > s.joined)
  OBVIOUS
<1>6. PICK served \in SUBSET Prd!Frames : served = s.served \cup cues
  BY EntityFields
<1> DEFINE taken == [s EXCEPT !.life = "alive", !.pend = pend, !.base = base, !.auth = f,
                             !.reg = reg, !.settled = settled, !.joined = joined,
                             !.served = served]
<1>7. Prd!RecordState(s, f, x, cues) = Prd!ReconcileCues(taken, cues, f)
  BY <1>1, <1>2, <1>3, <1>4, <1>5, <1>6 DEF Prd!RecordState
<1>8. /\ taken \in PredictedEntity /\ taken.life = "alive" /\ taken.pend = pend /\ taken.base = base
      /\ taken.auth = f /\ taken.reg = reg /\ taken.settled = settled /\ taken.joined = joined
      /\ taken.served = served /\ taken.pred = s.pred /\ taken.played = s.played
      /\ taken.confirmed = s.confirmed /\ taken.sound = s.sound
  BY <1>0 DEF PredictedEntity
<1> HIDE DEF taken
<1>9. HeardAsPlayed(taken)
  BY <1>8 DEF HeardAsPlayed
<1>10. PICK r : r = Prd!ReconcileCues(taken, cues, f)
  OBVIOUS
<1>11. PICK t : t = [taken EXCEPT !.confirmed = @ \cup cues]
  OBVIOUS
<1>12. /\ r \in PredictedEntity /\ HeardAsPlayed(r) /\ SameSimulation(t, r)
       /\ r.played = {g \in s.played \cup cues : g = f => g \in s.confirmed \cup cues}
  <2>0. taken \in PredictedEntity
    BY <1>8
  <2>1. /\ r \in PredictedEntity /\ HeardAsPlayed(r) /\ SameSimulation(t, r)
        /\ r.played = {g \in taken.played \cup cues : g = f => g \in taken.confirmed \cup cues}
    BY <2>0, <1>9, <1>10, <1>11, ReconcileIs, Zenon
  <2>2. taken.played = s.played /\ taken.confirmed = s.confirmed
    BY <1>8
  <2> QED BY <2>1, <2>2, Zenon
<1>13. /\ t.life = "alive" /\ t.pend = pend /\ t.base = base /\ t.auth = f /\ t.reg = reg
       /\ t.settled = settled /\ t.joined = joined /\ t.served = served /\ t.pred = s.pred
       /\ t.confirmed = s.confirmed \cup cues
  BY <1>8, <1>11 DEF PredictedEntity
<1>14. r.life = "alive" /\ r.auth = f /\ r.pred = s.pred /\ r.pend = pend /\ r.base = base
       /\ r.reg = reg /\ r.joined = joined /\ r.settled = settled /\ r.served = served
       /\ r.confirmed = s.confirmed \cup cues
  BY <1>12, <1>13 DEF SameSimulation
<1> QED BY <1>1, <1>2, <1>3, <1>4, <1>5, <1>6, <1>7, <1>10, <1>12, <1>14

\* A record of a known entity keeps what holds of it.
LEMMA RecordKnown ==
    ASSUME NEW s \in PredictedEntity, EntityOK(s, prdLast), prdLast \in 0 .. MaxPredicted,
           NEW f \in Prd!Frames, s.auth < f, NEW x \in Nat, NEW cues \in SUBSET (1 .. f)
    PROVE  \E r \in PredictedEntity :
             /\ r = Prd!RecordState(s, f, x, cues)
             /\ EntityOK(r, prdLast) /\ r.pred = s.pred /\ r.joined = s.joined
             /\ r.pend = IF f \in DOMAIN s.pred /\ s.pred[f] # x THEN f ELSE s.pend
<1> DEFINE l == prdLast
<1>0. /\ f \in Nat /\ f > 0 /\ s.auth \in Nat /\ s.joined \in Nat /\ l \in Nat /\ s.pend \in Nat
      /\ s.base \in Ring /\ s.pred \in Ring /\ s.reg \in Nat
  BY EntityFields, FrameNumbers
<1>1. cues \in SUBSET Prd!Frames
  BY <1>0, FrameNumbers
<1>2. HeardAsPlayed(s) /\ RunOK(s, l) /\ SettledOK(s, l) /\ CuesOK(s, l) /\ s.life = "alive"
      /\ s.pend <= s.auth
  BY DEF EntityOK, RunOK
<1>3. PICK r \in PredictedEntity :
             /\ r = Prd!RecordState(s, f, x, cues)
             /\ r.life = "alive" /\ r.auth = f /\ r.pred = s.pred
             /\ r.pend = IF f \in DOMAIN s.pred /\ s.pred[f] # x THEN f ELSE s.pend
             /\ r.base = Prd!Store(s.base, f, x)
             /\ r.reg = IF s.life = "unknown" THEN x ELSE s.reg
             /\ r.joined = IF s.life = "unknown" THEN prdLast ELSE s.joined
             /\ r.settled = (f \in DOMAIN s.pred /\ f > s.joined)
             /\ r.served = s.served \cup cues /\ r.confirmed = s.confirmed \cup cues
             /\ r.played = {g \in s.played \cup cues : g = f => g \in s.confirmed \cup cues}
             /\ HeardAsPlayed(r)
  BY <1>1, <1>2, RecordIs
<1>4. r.reg = s.reg /\ r.joined = s.joined
  BY <1>2, <1>3
<1>5. DOMAIN s.pred \subseteq 1 .. l /\ \A g \in DOMAIN s.pred : g \in Nat /\ s.pred[g] \in Nat
  BY <1>0, <1>2, RingFacts, PrdConstants DEF RunOK
<1>6. PICK b \in Ring : b = Prd!Store(s.base, f, x)
  BY <1>0, StoreIs
<1>7. f \in DOMAIN b /\ b[f] = x /\ \A g \in DOMAIN b : g # f => g \in DOMAIN s.base
  <2>1. DOMAIN b = {g \in DOMAIN s.base : (g % RingCapacity) # (f % RingCapacity)} \cup {f}
    BY <1>0, <1>6, StoreIs, Zenon
  <2>2. b[f] = x
    BY <1>0, <1>6, StoreIs, Zenon
  <2> QED BY <2>1, <2>2
<1>8. BaseOK(r)
  BY <1>0, <1>2, <1>3, <1>6, <1>7 DEF BaseOK, RunOK
<1>9. OneRun(r)
  BY <1>0, <1>2, <1>3, <1>4, <1>5 DEF RunOK, OneRun
<1>10. Unbroken(r, l)
  BY <1>0, <1>2, <1>3, <1>4, <1>5 DEF RunOK, Unbroken
<1>11. r.pend <= r.auth /\ r.pend <= l
  BY <1>0, <1>2, <1>3, <1>5 DEF RunOK
<1>12. SettledOK(r, l)
  <2> SUFFICES ASSUME f \in DOMAIN s.pred, f > s.joined PROVE SettledOK(r, l)
    BY <1>3 DEF SettledOK
  <2>1. f <= l /\ \A g \in f .. l : g \in DOMAIN s.pred
    BY <1>2, <1>5 DEF RunOK, Unbroken
  <2>2. l \in DOMAIN s.pred /\ s.reg = s.pred[l]
    BY <1>0, <1>2, <2>1 DEF RunOK, Unbroken
  <2>3. \A g \in DOMAIN s.pred : g >= f => s.pred[g] = s.pred[f] + (g - f)
    BY <1>0, <1>2, <1>5 DEF RunOK, OneRun
  <2>4. r.pend = 0 => Corrected(r, l)
    <3> SUFFICES ASSUME r.pend = 0 PROVE Corrected(r, l)
      OBVIOUS
    <3>1. s.pred[f] = x /\ r.base[r.auth] = x
      BY <1>0, <1>3, <1>6, <1>7
    <3> QED BY <1>0, <1>3, <1>4, <1>5, <2>1, <2>2, <2>3, <3>1 DEF Corrected
  <2>5. r.auth \notin r.confirmed => r.auth \notin r.played
    BY <1>3
  <2> QED BY <1>0, <1>3, <1>4, <2>1, <2>2, <2>4, <2>5 DEF SettledOK
<1>13. CuesOK(r, l)
  <2>1. /\ s.confirmed = s.served /\ s.confirmed \subseteq s.played
        /\ \A g \in s.served : g \in 1 .. s.auth
        /\ \A g \in s.played : g <= l \/ g <= s.auth
        /\ \A g \in DOMAIN s.pred : s.auth < g /\ s.joined < g =>
             (g \in s.played <=> Prd!EmitsCue(s.pred[g]))
        /\ s.played \in SUBSET Prd!Frames
    BY <1>2, EntityFields DEF CuesOK
  <2>2. r.confirmed = r.served /\ r.confirmed \subseteq r.played
    <3>1. r.served = s.served \cup cues /\ r.confirmed = s.confirmed \cup cues
          /\ r.played = {g \in s.played \cup cues : g = f => g \in s.confirmed \cup cues}
      BY <1>3
    <3> QED BY <2>1, <3>1
  <2>3. r.served \subseteq 1 .. r.auth
    <3> SUFFICES ASSUME NEW g \in r.served PROVE g \in 1 .. f
      BY <1>3
    <3>1. g \in s.served \/ g \in cues
      BY <1>3
    <3>2. g \in s.served => g \in 1 .. s.auth
      BY <2>1
    <3>3. g \in cues => g \in 1 .. f
      OBVIOUS
    <3> QED BY <1>0, <3>1, <3>2, <3>3
  <2>5. \A g \in r.played : g <= l \/ g <= r.auth
    <3> SUFFICES ASSUME NEW g \in r.played PROVE g <= l \/ g <= f
      BY <1>3
    <3>1. g \in s.played \/ g \in cues
      BY <1>3
    <3>2. g \in s.played => g \in Nat /\ (g <= l \/ g <= s.auth)
      BY <2>1, FrameNumbers
    <3>3. g \in cues => g \in 1 .. f
      OBVIOUS
    <3> QED BY <1>0, <3>1, <3>2, <3>3
  <2>4. \A g \in DOMAIN r.pred : r.auth < g /\ r.joined < g =>
             (g \in r.played <=> Prd!EmitsCue(r.pred[g]))
    <3> SUFFICES ASSUME NEW g \in DOMAIN s.pred, f < g, s.joined < g
                 PROVE  g \in r.played <=> Prd!EmitsCue(s.pred[g])
      BY <1>3, <1>4
    <3>1. g \in Nat /\ g \notin cues /\ g # f /\ s.auth < g
      BY <1>0, <1>5
    <3>2. g \in r.played <=> g \in s.played
      BY <1>3, <3>1
    <3> QED BY <2>1, <3>1, <3>2
  <2> QED BY <2>2, <2>3, <2>4, <2>5 DEF CuesOK
<1>14. RunOK(r, l)
  BY <1>3, <1>5, <1>8, <1>9, <1>10, <1>11 DEF RunOK
<1> QED BY <1>3, <1>4, <1>12, <1>13, <1>14 DEF EntityOK

\* The first record of an entity that was predicted in no frame yet.
LEMMA RecordNew ==
    ASSUME NEW s \in PredictedEntity, Blank(s), s.life = "unknown", prdLast \in 0 .. MaxPredicted,
           NEW f \in Prd!Frames, NEW x \in Nat, NEW cues \in SUBSET (1 .. f),
           NEW l \in 0 .. MaxPredicted, l = prdLast \/ l = f - 1
    PROVE  \E r \in PredictedEntity :
             /\ r = Prd!RecordState(s, f, x, cues)
             /\ EntityOK(r, l) /\ DOMAIN r.pred = {} /\ r.joined = prdLast /\ r.pend = 0
<1>0. f \in Nat /\ f > 0 /\ l \in Nat /\ s.base \in Ring /\ s.auth = 0 /\ s.pend = 0
      /\ DOMAIN s.pred = {} /\ HeardAsPlayed(s)
  BY EntityFields, FrameNumbers DEF Blank
<1>1. cues \in SUBSET Prd!Frames
  BY <1>0, FrameNumbers
<1>2. PICK r \in PredictedEntity :
             /\ r = Prd!RecordState(s, f, x, cues)
             /\ r.life = "alive" /\ r.auth = f /\ r.pred = s.pred
             /\ r.pend = IF f \in DOMAIN s.pred /\ s.pred[f] # x THEN f ELSE s.pend
             /\ r.base = Prd!Store(s.base, f, x)
             /\ r.reg = IF s.life = "unknown" THEN x ELSE s.reg
             /\ r.joined = IF s.life = "unknown" THEN prdLast ELSE s.joined
             /\ r.settled = (f \in DOMAIN s.pred /\ f > s.joined)
             /\ r.served = s.served \cup cues /\ r.confirmed = s.confirmed \cup cues
             /\ r.played = {g \in s.played \cup cues : g = f => g \in s.confirmed \cup cues}
             /\ HeardAsPlayed(r)
  BY <1>0, <1>1, RecordIs
<1>3. DOMAIN r.pred = {} /\ r.joined = prdLast /\ r.pend = 0 /\ r.settled = FALSE
  BY <1>0, <1>2
<1>4. r.served = cues /\ r.confirmed = cues /\ r.played = cues
  BY <1>2 DEF Blank
<1>5. PICK b \in Ring : b = Prd!Store(s.base, f, x)
  BY <1>0, StoreIs
<1>6. DOMAIN b = {f}
  <2>1. DOMAIN b = {g \in DOMAIN s.base : (g % RingCapacity) # (f % RingCapacity)} \cup {f}
    <3>1. s.base \in Ring
      BY <1>0
    <3> QED BY <3>1, <1>5, StoreIs, Zenon
  <2> QED BY <2>1 DEF Blank
<1>7. BaseOK(r)
  BY <1>0, <1>2, <1>5, <1>6 DEF BaseOK
<1>8. OneRun(r)
  BY <1>3 DEF OneRun
<1>9. ~(r.joined < l /\ r.auth < l)
  BY <1>0, <1>2, <1>3
<1>10. Unbroken(r, l)
  BY <1>3, <1>9 DEF Unbroken
<1>11. RunOK(r, l)
  BY <1>0, <1>2, <1>3, <1>7, <1>8, <1>10 DEF RunOK
<1>12. SettledOK(r, l)
  BY <1>3 DEF SettledOK
<1>13. CuesOK(r, l)
  <2>1. \A g \in cues : g \in 1 .. f /\ g <= f
    BY <1>0
  <2>2. r.auth = f
    BY <1>2
  <2> QED BY <1>3, <1>4, <2>1, <2>2 DEF CuesOK
<1> QED BY <1>2, <1>3, <1>11, <1>12, <1>13 DEF EntityOK

\* What a rollback to frame b resets an entity to.
LEMMA ResetIs ==
    ASSUME NEW s \in PredictedEntity, NEW l \in Prd!Frames, EntityOK(s, l), prdPolicy \in Policies,
           NEW b \in 1 .. l, prdPolicy = "All" \/ s.pend # 0, s.pend # 0 => b <= s.pend
    PROVE  /\ Prd!ResetState(s, b) \in Nat
           /\ b = s.auth => Prd!ResetState(s, b) = s.base[s.auth]
           /\ b > s.auth => s.pend = 0
           /\ b > s.auth /\ b \in DOMAIN s.pred => Prd!ResetState(s, b) = s.pred[b]
<1>1. /\ s.auth \in Nat /\ s.pend \in Nat /\ b \in Nat /\ s.pend <= s.auth /\ s.reg \in Nat
      /\ DOMAIN s.base \subseteq 1 .. s.auth /\ s.auth \in DOMAIN s.base
  BY EntityFields, FrameNumbers DEF EntityOK, RunOK, BaseOK
<1>2. \A g \in DOMAIN s.base : s.base[g] \in Nat
  BY EntityFields, RingFacts
<1>3. \A g \in DOMAIN s.pred : s.pred[g] \in Nat
  BY EntityFields, RingFacts
<1>4. PICK own : own = IF prdPolicy = "All" THEN b ELSE s.pend
  OBVIOUS
<1>5. Prd!ResetState(s, b) =
        IF own \in DOMAIN s.base THEN s.base[own]
        ELSE IF b \in DOMAIN s.base THEN s.base[b]
        ELSE IF prdPolicy = "All" /\ b \in DOMAIN s.pred THEN s.pred[b]
        ELSE s.reg
  BY <1>4 DEF Prd!ResetState
<1>6. b = s.auth => own = s.auth
  BY <1>1, <1>4
<1>7. b > s.auth => s.pend = 0 /\ prdPolicy = "All" /\ own = b /\ b \notin DOMAIN s.base
  BY <1>1, <1>4
<1>8. Prd!ResetState(s, b) \in Nat
  BY <1>1, <1>2, <1>3, <1>5
<1>9. b = s.auth => Prd!ResetState(s, b) = s.base[s.auth]
  BY <1>1, <1>5, <1>6
<1> QED BY <1>5, <1>7, <1>8, <1>9

\* The entity s after a run from frame b to frame l that emitted those cues.
AfterRun(r, s, reg, pred, settled, emitted, b, l) ==
  /\ r \in PredictedEntity /\ HeardAsPlayed(r)
  /\ r.life = s.life /\ r.auth = s.auth /\ r.base = s.base /\ r.reg = reg
  /\ r.pred = pred /\ r.pend = 0 /\ r.confirmed = s.confirmed /\ r.served = s.served
  /\ r.settled = settled /\ r.joined = s.joined
  /\ r.played = {f \in s.played \cup emitted :
                   ~(b < f /\ f <= l) \/ f \in s.confirmed \/ f \in emitted}

\* resimulate leaves the entity so, whatever the run was.
LEMMA SimulatedIs ==
    ASSUME NEW s \in PredictedEntity, HeardAsPlayed(s), NEW l, NEW reg \in Nat,
           NEW pred \in Ring, NEW settled \in BOOLEAN, NEW emitted \in SUBSET Prd!Frames, NEW b,
           NEW m, m = [s EXCEPT !.reg = reg, !.pred = pred, !.pend = 0, !.settled = settled],
           NEW r, r = Prd!FinishCues(Prd!DrainCues(m, emitted), emitted, b, l)
    PROVE  AfterRun(r, s, reg, pred, settled, emitted, b, l)
<1>0. 0 \in 0 .. MaxPredicted
  BY FrameNumbers
<1>1. /\ m \in PredictedEntity /\ m.life = s.life /\ m.auth = s.auth /\ m.base = s.base
      /\ m.reg = reg /\ m.pred = pred /\ m.pend = 0 /\ m.confirmed = s.confirmed
      /\ m.served = s.served /\ m.settled = settled /\ m.joined = s.joined
      /\ m.played = s.played /\ m.sound = s.sound
  BY <1>0 DEF PredictedEntity
<1>2. HeardAsPlayed(m) /\ m \in PredictedEntity
  BY <1>1 DEF HeardAsPlayed
<1>3. PICK d : d = Prd!DrainCues(m, emitted)
  OBVIOUS
<1>4. /\ d \in PredictedEntity /\ HeardAsPlayed(d) /\ SameSimulation(m, d)
      /\ d.played = m.played \cup emitted
  BY <1>2, <1>3, DrainIs, Zenon
<1>5. r = Prd!FinishCues(d, emitted, b, l)
  BY <1>3
<1>6. /\ r \in PredictedEntity /\ HeardAsPlayed(r) /\ SameSimulation(d, r)
      /\ r.played = {f \in d.played : ~(b < f /\ f <= l) \/ f \in d.confirmed \/ f \in emitted}
  <2>1. d \in PredictedEntity /\ HeardAsPlayed(d)
    BY <1>4
  <2> HIDE <1>4
  <2> QED BY <2>1, <1>5, FinishIs
<1>7. /\ r.life = s.life /\ r.auth = s.auth /\ r.base = s.base /\ r.reg = reg
      /\ r.pred = pred /\ r.pend = 0 /\ r.confirmed = s.confirmed /\ r.served = s.served
      /\ r.settled = settled /\ r.joined = s.joined /\ d.confirmed = s.confirmed
  BY <1>1, <1>4, <1>6 DEF SameSimulation
<1>8. d.played = s.played \cup emitted
  BY <1>1, <1>4
<1>9. r.played = {f \in s.played \cup emitted :
                    ~(b < f /\ f <= l) \/ f \in s.confirmed \/ f \in emitted}
  BY <1>6, <1>7, <1>8, Zenon
<1> QED BY <1>6, <1>7, <1>9 DEF AfterRun

\* A rollback to a frame before the last one: the frames after b are simulated
\* again, and what holds of the entity holds of the new run.
LEMMA ResimulateLater ==
    ASSUME NEW s \in PredictedEntity, NEW l \in Prd!Frames, EntityOK(s, l), prdPolicy \in Policies,
           NEW b \in 1 .. l, b < l, prdPolicy = "All" \/ s.pend # 0, s.pend # 0 => b <= s.pend,
           b <= s.joined \/ l < b + RingCapacity,
           \A g \in DOMAIN s.pred : g <= s.joined \/ l < g + RingCapacity
    PROVE  \E r \in PredictedEntity :
             /\ r = Prd!Resimulate(s, b, l) /\ EntityOK(r, l) /\ r.pend = 0 /\ r.joined = s.joined
             /\ \A g \in DOMAIN r.pred : g \in DOMAIN s.pred \/ l < g + RingCapacity
<1>0. /\ l \in Nat /\ b \in Nat /\ b > 0 /\ RingCapacity \in Nat /\ RingCapacity > 0
      /\ s.auth \in Nat /\ s.joined \in Nat /\ s.pend \in Nat /\ s.pred \in Ring /\ s.base \in Ring
      /\ s.reg \in Nat /\ s.settled \in BOOLEAN
  BY EntityFields, FrameNumbers
<1>1. HeardAsPlayed(s) /\ RunOK(s, l) /\ SettledOK(s, l) /\ CuesOK(s, l) /\ s.life = "alive"
  BY DEF EntityOK
<1>2. PICK reset \in Nat :
        /\ reset = Prd!ResetState(s, b)
        /\ b = s.auth => reset = s.base[s.auth]
        /\ b > s.auth => s.pend = 0
        /\ b > s.auth /\ b \in DOMAIN s.pred => reset = s.pred[b]
  BY ResetIs
<1>3. PICK run \in [b + 1 .. l -> Nat] : run = [f \in b + 1 .. l |-> reset + (f - b)]
  <2>1. \A f \in b + 1 .. l : reset + (f - b) \in Nat
    BY <1>0
  <2> QED BY <2>1
<1>4. DOMAIN run = b + 1 .. l /\ \A f \in b + 1 .. l : run[f] = reset + (f - b)
  BY <1>3
<1>5. PICK emitted \in SUBSET Prd!Frames : emitted = {f \in b + 1 .. l : Prd!EmitsCue(run[f])}
  <2>1. {f \in b + 1 .. l : Prd!EmitsCue(run[f])} \subseteq Prd!Frames
    BY <1>0, FrameNumbers
  <2> QED BY <2>1
<1>6. DOMAIN s.pred \subseteq 1 .. l
  BY <1>1 DEF RunOK
<1>7. PICK pred \in Ring :
        /\ pred = Prd!StoreAll(s.pred, run)
        /\ \A g \in DOMAIN pred :
             /\ g \in 1 .. l
             /\ g > b => pred[g] = run[g] /\ l < g + RingCapacity
             /\ g <= b => g \in DOMAIN s.pred /\ pred[g] = s.pred[g]
        /\ \A g \in b + 1 .. l : l < g + RingCapacity => g \in DOMAIN pred
        /\ \A g \in DOMAIN s.pred : g <= b /\ l < g + RingCapacity => g \in DOMAIN pred
  <2>1. s.pred \in Ring /\ b \in Nat
    BY <1>0
  <2>2. PICK pred : pred = Prd!StoreAll(s.pred, run)
    OBVIOUS
  <2>3. pred \in Ring
    BY <2>1, <2>2, <1>6, StoreAllIs, Zenon
  <2>4. \A g \in DOMAIN pred :
             /\ g \in 1 .. l
             /\ g > b => pred[g] = run[g] /\ l < g + RingCapacity
             /\ g <= b => g \in DOMAIN s.pred /\ pred[g] = s.pred[g]
    BY <2>1, <2>2, <1>6, StoreAllIs, Zenon
  <2>5. /\ \A g \in b + 1 .. l : l < g + RingCapacity => g \in DOMAIN pred
        /\ \A g \in DOMAIN s.pred : g <= b /\ l < g + RingCapacity => g \in DOMAIN pred
    BY <2>1, <2>2, <1>6, StoreAllIs, Zenon
  <2> QED BY <2>2, <2>3, <2>4, <2>5, Zenon
<1>8. PICK settled \in BOOLEAN : settled = (s.settled /\ b >= s.auth)
  OBVIOUS
<1>9. PICK reg \in Nat : reg = run[l] /\ reg = reset + (l - b)
  BY <1>0, <1>4
<1>10. PICK m : m = [s EXCEPT !.reg = reg, !.pred = pred, !.pend = 0, !.settled = settled]
  OBVIOUS
<1>11. Prd!Resimulate(s, b, l) = Prd!FinishCues(Prd!DrainCues(m, emitted), emitted, b, l)
  <2>1. ~(l <= b)
    BY <1>0
  <2>2. run = [f \in b + 1 .. l |-> Prd!Simulated(reset, f - b)]
    BY <1>3 DEF Prd!Simulated
  <2>3. emitted = {f \in DOMAIN run : Prd!EmitsCue(run[f])}
    BY <1>4, <1>5
  <2>4. m = [s EXCEPT !.reg = run[l], !.pred = Prd!StoreAll(@, run), !.pend = Prd!NoFrame,
                      !.settled = @ /\ b >= s.auth]
    BY <1>7, <1>8, <1>9, <1>10 DEF Prd!NoFrame
  <2> QED BY <2>1, <2>2, <2>3, <2>4, <1>2 DEF Prd!Resimulate
<1>21. PICK r : r = Prd!FinishCues(Prd!DrainCues(m, emitted), emitted, b, l)
  OBVIOUS
<1>12.       /\ r \in PredictedEntity
             /\ r.life = s.life /\ r.auth = s.auth /\ r.base = s.base /\ r.reg = reg
             /\ r.pred = pred /\ r.pend = 0 /\ r.confirmed = s.confirmed /\ r.served = s.served
             /\ r.settled = settled /\ r.joined = s.joined /\ HeardAsPlayed(r)
             /\ r.played = {f \in s.played \cup emitted :
                              ~(b < f /\ f <= l) \/ f \in s.confirmed \/ f \in emitted}
  <2>1. HeardAsPlayed(s)
    BY <1>1
  <2>2. reg \in Nat /\ pred \in Ring /\ settled \in BOOLEAN /\ emitted \in SUBSET Prd!Frames
    BY <1>5, <1>7, <1>8, <1>9
  <2>3. AfterRun(r, s, reg, pred, settled, emitted, b, l)
    BY <2>1, <2>2, <1>10, <1>21, SimulatedIs, Zenon
  <2> QED BY <2>3 DEF AfterRun
<1>13. \A g \in DOMAIN s.pred : g \in 1 .. l /\ s.pred[g] \in Nat
  BY <1>0, <1>6, RingFacts
<1>14. OneRun(r)
  <2> SUFFICES ASSUME NEW f \in DOMAIN pred, NEW g \in DOMAIN pred, s.auth < f, s.joined < f, f <= g
               PROVE  pred[g] = pred[f] + (g - f)
    BY <1>12 DEF OneRun
  <2>0. f \in 1 .. l /\ g \in 1 .. l
    BY <1>7
  <2>1. CASE f > b
    <3>1. f \in b + 1 .. l /\ g \in b + 1 .. l
      BY <1>0, <2>0, <2>1
    <3>2. g > b /\ f > b
      BY <1>0, <2>0, <2>1
    <3>3. pred[f] = run[f] /\ pred[g] = run[g]
      BY <1>7, <3>2
    <3> QED BY <1>0, <1>4, <3>1, <3>3
  <2>2. CASE g <= b
    <3>1. f \in DOMAIN s.pred /\ g \in DOMAIN s.pred /\ pred[f] = s.pred[f] /\ pred[g] = s.pred[g]
      BY <1>0, <1>7, <2>0, <2>2
    <3> QED BY <1>1, <3>1 DEF RunOK, OneRun
  <2>3. CASE f <= b /\ b < g
    <3>1. f \in DOMAIN s.pred /\ pred[f] = s.pred[f]
      BY <1>7, <2>3
    <3>2. b \in f .. l
      BY <1>0, <2>0, <2>3
    <3>3. b \in DOMAIN s.pred
      BY <1>1, <3>1, <3>2 DEF RunOK, Unbroken
    <3>4. s.pred[b] = s.pred[f] + (b - f)
      BY <1>1, <2>3, <3>1, <3>3 DEF RunOK, OneRun
    <3>5. reset = s.pred[b]
      BY <1>0, <1>2, <2>0, <2>3, <3>3
    <3>6. pred[g] = reset + (g - b)
      <4>1. g \in b + 1 .. l
        BY <1>0, <2>0, <2>3
      <4>2. pred[g] = run[g]
        BY <1>7, <2>3
      <4> QED BY <1>4, <4>1, <4>2
    <3> QED BY <1>0, <1>13, <2>0, <3>1, <3>4, <3>5, <3>6
  <2> QED BY <1>0, <2>0, <2>1, <2>2, <2>3
<1>15. l \in DOMAIN pred /\ reg = pred[l]
  <2>1. l \in b + 1 .. l /\ l < l + RingCapacity
    BY <1>0
  <2>2. l \in DOMAIN pred
    BY <1>7, <2>1
  <2> QED BY <1>7, <1>9, <2>2
<1>16. Unbroken(r, l)
  <2>1. ASSUME NEW g \in DOMAIN pred, s.joined < g, NEW f \in g .. l PROVE f \in DOMAIN pred
    <3>0. g \in 1 .. l
      BY <1>7
    <3>1. l < g + RingCapacity
      <4>1. CASE g > b
        BY <1>7, <4>1
      <4>2. CASE g <= b
        <5>1. g \in DOMAIN s.pred
          BY <1>7, <4>2
        <5>2. ~(g <= s.joined)
          BY <1>0, <2>1, <3>0
        <5> QED BY <5>1, <5>2
      <4> QED BY <1>0, <3>0, <4>1, <4>2
    <3>2. f \in Nat /\ f >= g /\ f <= l /\ l < f + RingCapacity
      BY <1>0, <2>1, <3>0, <3>1
    <3>3. CASE f > b
      BY <1>0, <1>7, <3>2, <3>3
    <3>4. CASE f <= b
      <4>1. g \in DOMAIN s.pred
        BY <1>0, <1>7, <3>0, <3>2, <3>4
      <4>2. f \in DOMAIN s.pred
        BY <1>1, <2>1, <4>1 DEF RunOK, Unbroken
      <4> QED BY <1>7, <3>2, <3>4, <4>2
    <3> QED BY <1>0, <3>2, <3>3, <3>4
  <2> QED BY <1>12, <1>15, <2>1 DEF Unbroken
<1>17. RunOK(r, l)
  <2>1. BaseOK(r)
    BY <1>1, <1>12 DEF RunOK, BaseOK
  <2> QED BY <1>0, <1>7, <1>12, <1>14, <1>16, <2>1 DEF RunOK
<1>18. SettledOK(r, l)
  <2> SUFFICES ASSUME settled = TRUE PROVE SettledOK(r, l)
    BY <1>12 DEF SettledOK
  <2>1. /\ s.joined < s.auth /\ s.auth <= l /\ b >= s.auth
        /\ \A f \in s.auth + 1 .. l : l < f + RingCapacity => f \in DOMAIN s.pred
        /\ s.pend = 0 => Corrected(s, l)
        /\ s.auth \notin s.confirmed => s.auth \notin s.played
    BY <1>1, <1>8 DEF SettledOK
  <2>2. \A f \in s.auth + 1 .. l : l < f + RingCapacity => f \in DOMAIN pred
    <3> SUFFICES ASSUME NEW f \in s.auth + 1 .. l, l < f + RingCapacity PROVE f \in DOMAIN pred
      OBVIOUS
    <3>1. CASE f <= b
      BY <1>7, <2>1, <3>1
    <3>2. CASE f > b
      BY <1>0, <1>7, <3>2
    <3> QED BY <1>0, <3>1, <3>2
  <2>3. PICK k \in Nat : k = s.base[s.auth]
    BY <1>0, <1>1, RingFacts DEF RunOK, BaseOK
  <2>4. reset = k + (b - s.auth)
    <3>1. CASE b = s.auth
      BY <1>0, <1>2, <2>3, <3>1
    <3>2. CASE b > s.auth
      <4>1. b \in DOMAIN s.pred /\ s.pend = 0
        BY <1>0, <1>2, <2>1, <3>2
      <4>2. Corrected(s, l)
        BY <2>1, <4>1
      <4> QED BY <1>2, <2>3, <3>2, <4>1, <4>2 DEF Corrected
    <3> QED BY <1>0, <2>1, <3>1, <3>2
  <2>5. \A f \in DOMAIN pred : f > s.auth => pred[f] = s.base[s.auth] + (f - s.auth)
    <3> SUFFICES ASSUME NEW f \in DOMAIN pred, f > s.auth
                 PROVE  pred[f] = s.base[s.auth] + (f - s.auth)
      OBVIOUS
    <3>0. f \in 1 .. l
      BY <1>7
    <3>1. CASE f > b
      <4>1. f \in b + 1 .. l
        BY <1>0, <3>0, <3>1
      <4>2. pred[f] = reset + (f - b)
        BY <1>4, <1>7, <3>1, <4>1
      <4>3. pred[f] = k + (f - s.auth)
        BY <1>0, <2>4, <3>0, <4>2
      <4> QED BY <2>3, <4>3
    <3>2. CASE f <= b
      <4>1. s.pend = 0 /\ f \in DOMAIN s.pred /\ pred[f] = s.pred[f]
        BY <1>0, <1>2, <1>7, <3>0, <3>2
      <4>2. Corrected(s, l)
        BY <2>1, <4>1
      <4> QED BY <4>1, <4>2 DEF Corrected
    <3> QED BY <1>0, <3>0, <3>1, <3>2
  <2>6. Corrected(r, l)
    <3>1. r.reg = s.base[s.auth] + (l - s.auth)
      <4>1. l > s.auth
        BY <1>0, <2>1
      <4> QED BY <1>12, <1>15, <2>5, <4>1
    <3> QED BY <1>12, <2>5, <3>1 DEF Corrected
  <2>7. s.auth \notin s.confirmed => s.auth \notin r.played
    <3>1. s.auth \notin emitted
      BY <1>0, <1>5, <2>1
    <3> QED BY <1>12, <2>1, <3>1
  <2> QED BY <1>12, <1>15, <2>1, <2>2, <2>6, <2>7 DEF SettledOK
<1>19. CuesOK(r, l)
  <2>1. /\ s.confirmed = s.served /\ s.confirmed \subseteq s.played
        /\ s.served \subseteq 1 .. s.auth
        /\ \A g \in s.played : g <= l \/ g <= s.auth
    BY <1>1 DEF CuesOK
  <2>2. \A g \in DOMAIN s.pred : s.auth < g /\ s.joined < g =>
             (g \in s.played <=> Prd!EmitsCue(s.pred[g]))
    BY <1>1 DEF CuesOK
  <2>3. \A g \in emitted : g \in b + 1 .. l /\ Prd!EmitsCue(run[g])
    BY <1>5
  <2>4. r.confirmed \subseteq r.played
    BY <1>12, <2>1
  <2>5. \A g \in r.played : g <= l \/ g <= s.auth
    <3> SUFFICES ASSUME NEW g \in r.played PROVE g <= l \/ g <= s.auth
      OBVIOUS
    <3>1. g \in s.played \/ g \in emitted
      BY <1>12
    <3>2. g \in emitted => g <= l
      BY <1>0, <2>3
    <3> QED BY <2>1, <3>1, <3>2
  <2>6. \A g \in DOMAIN pred : s.auth < g /\ s.joined < g =>
             (g \in r.played <=> Prd!EmitsCue(pred[g]))
    <3> SUFFICES ASSUME NEW g \in DOMAIN pred, s.auth < g, s.joined < g
                 PROVE  g \in r.played <=> Prd!EmitsCue(pred[g])
      OBVIOUS
    <3>0. g \in 1 .. l
      BY <1>7
    <3>1. CASE g > b
      <4>1. g \notin s.confirmed
        BY <1>0, <2>1, <3>0
      <4>2. g \in r.played <=> g \in emitted
        BY <1>0, <1>12, <3>0, <3>1, <4>1
      <4>3. g \in b + 1 .. l /\ pred[g] = run[g]
        BY <1>0, <1>7, <3>0, <3>1
      <4> QED BY <1>5, <4>2, <4>3
    <3>2. CASE g <= b
      <4>1. g \notin emitted
        BY <1>0, <2>3, <3>0, <3>2
      <4>2. g \in r.played <=> g \in s.played
        BY <1>0, <1>12, <3>0, <3>2, <4>1
      <4>3. g \in DOMAIN s.pred /\ pred[g] = s.pred[g]
        BY <1>7, <3>2
      <4> QED BY <2>2, <4>2, <4>3
    <3> QED BY <1>0, <3>0, <3>1, <3>2
  <2> QED BY <1>12, <2>1, <2>4, <2>5, <2>6 DEF CuesOK
<1>20. \A g \in DOMAIN pred : g \in DOMAIN s.pred \/ l < g + RingCapacity
  BY <1>0, <1>7
<1> QED BY <1>1, <1>11, <1>12, <1>17, <1>18, <1>19, <1>20, <1>21 DEF EntityOK

\* A rollback to the last frame itself only resets the entity to that frame.
LEMMA ResimulateLast ==
    ASSUME NEW s \in PredictedEntity, NEW l \in Prd!Frames, EntityOK(s, l), prdPolicy \in Policies,
           prdPolicy = "All" \/ s.pend # 0, s.pend # 0 => l <= s.pend,
           \A g \in DOMAIN s.pred : g <= s.joined \/ l < g + RingCapacity
    PROVE  \E r \in PredictedEntity :
             /\ r = Prd!Resimulate(s, l, l) /\ EntityOK(r, l) /\ r.pend = 0 /\ r.joined = s.joined
             /\ \A g \in DOMAIN r.pred : g \in DOMAIN s.pred \/ l < g + RingCapacity
<1>0. /\ l \in Nat /\ l > 0 /\ RingCapacity \in Nat /\ RingCapacity > 0
      /\ s.auth \in Nat /\ s.joined \in Nat /\ s.pend \in Nat /\ s.pred \in Ring /\ s.base \in Ring
      /\ s.reg \in Nat /\ s.settled \in BOOLEAN
  BY EntityFields, FrameNumbers
<1>1. HeardAsPlayed(s) /\ RunOK(s, l) /\ SettledOK(s, l) /\ CuesOK(s, l) /\ s.life = "alive"
  BY DEF EntityOK
<1>2. PICK reset \in Nat :
        /\ reset = Prd!ResetState(s, l)
        /\ l = s.auth => reset = s.base[s.auth]
        /\ l > s.auth => s.pend = 0
        /\ l > s.auth /\ l \in DOMAIN s.pred => reset = s.pred[l]
  <2>1. l \in 1 .. l
    BY <1>0
  <2> QED BY <2>1, ResetIs
<1>3. DOMAIN s.pred \subseteq 1 .. l
  BY <1>1 DEF RunOK
<1>4. PICK pred \in Ring : pred = Prd!Store(s.pred, l, reset)
  BY <1>0, StoreIs
<1>5. DOMAIN pred = {g \in DOMAIN s.pred : (g % RingCapacity) # (l % RingCapacity)} \cup {l}
  <2>1. s.pred \in Ring
    BY <1>0
  <2> QED BY <2>1, <1>4, StoreIs, Zenon
<1>6. pred[l] = reset /\ \A g \in DOMAIN pred : g # l => g \in DOMAIN s.pred /\ pred[g] = s.pred[g]
  <2>1. s.pred \in Ring
    BY <1>0
  <2> QED BY <2>1, <1>4, StoreIs, ZenonT(60)
<1>7. \A g \in DOMAIN pred : g \in 1 .. l
  BY <1>0, <1>3, <1>5
<1>8. \A g \in DOMAIN s.pred : l < g + RingCapacity => g \in DOMAIN pred
  <2> SUFFICES ASSUME NEW g \in DOMAIN s.pred, l < g + RingCapacity PROVE g \in DOMAIN pred
    OBVIOUS
  <2>1. g \in 1 .. l
    BY <1>3
  <2>2. CASE g = l
    BY <1>5, <2>2
  <2>3. CASE g < l
    BY <1>0, <1>4, <2>3, StoreKeeps
  <2> QED BY <1>0, <2>1, <2>2, <2>3
<1>9. PICK settled \in BOOLEAN : settled = (s.settled /\ l >= s.auth)
  OBVIOUS
<1>10. PICK m : m = [s EXCEPT !.reg = reset, !.pred = pred, !.pend = 0, !.settled = settled]
  OBVIOUS
<1>11. PICK emitted \in SUBSET Prd!Frames : emitted = {}
  OBVIOUS
<1>12. PICK r : r = Prd!FinishCues(Prd!DrainCues(m, emitted), emitted, l, l)
  OBVIOUS
<1>13. r = Prd!Resimulate(s, l, l)
  <2>1. PICK run : run = [f \in {l} |-> reset]
    OBVIOUS
  <2>2. DOMAIN run = {l} /\ run[l] = reset
    BY <2>1
  <2>3. Prd!StoreAll(s.pred, run) = pred
    <3>1. l + RingCapacity \notin {l}
      BY <1>0
    <3>2. {h \in DOMAIN s.pred : \A f \in {l} : (h % RingCapacity) # (f % RingCapacity)} \cup
             {f \in {l} : f + RingCapacity \notin {l}} =
          {h \in DOMAIN s.pred : (h % RingCapacity) # (l % RingCapacity)} \cup {l}
      BY <3>1
    <3>3. Prd!StoreAll(s.pred, run) =
            [g \in {h \in DOMAIN s.pred : (h % RingCapacity) # (l % RingCapacity)} \cup {l} |->
               IF g \in {l} THEN run[g] ELSE s.pred[g]]
      BY <2>2, <3>2 DEF Prd!StoreAll
    <3>4. pred =
            [g \in {h \in DOMAIN s.pred : (h % RingCapacity) # (l % RingCapacity)} \cup {l} |->
               IF g = l THEN reset ELSE s.pred[g]]
      BY <1>4 DEF Prd!Store
    <3> QED BY <2>2, <3>3, <3>4
  <2>4. m = [s EXCEPT !.reg = run[l], !.pred = Prd!StoreAll(@, run), !.pend = Prd!NoFrame,
                      !.settled = @ /\ l >= s.auth]
    BY <1>9, <1>10, <2>2, <2>3 DEF Prd!NoFrame
  <2>5. l <= l
    BY <1>0
  <2> QED BY <1>2, <1>11, <1>12, <2>1, <2>4, <2>5 DEF Prd!Resimulate
<1>14. AfterRun(r, s, reset, pred, settled, emitted, l, l)
  <2>1. HeardAsPlayed(s)
    BY <1>1
  <2> QED BY <2>1, <1>2, <1>4, <1>9, <1>10, <1>11, <1>12, SimulatedIs, Zenon
<1>15. /\ r \in PredictedEntity /\ r.life = s.life /\ r.auth = s.auth /\ r.base = s.base
       /\ r.reg = reset /\ r.pred = pred /\ r.pend = 0 /\ r.confirmed = s.confirmed
       /\ r.served = s.served /\ r.settled = settled /\ r.joined = s.joined /\ HeardAsPlayed(r)
  BY <1>14 DEF AfterRun
<1>16. r.played = s.played
  <2>1. r.played = {f \in s.played \cup emitted :
                      ~(l < f /\ f <= l) \/ f \in s.confirmed \/ f \in emitted}
    BY <1>14 DEF AfterRun
  <2>2. \A f \in s.played : ~(l < f /\ f <= l)
    BY <1>0, EntityFields, FrameNumbers
  <2> QED BY <1>11, <2>1, <2>2
\* Where the frame is simulated, the reset changes nothing.
<1>17. s.auth < l /\ s.joined < l =>
         s.pend = 0 /\ l \in DOMAIN s.pred /\ reset = s.pred[l] /\ reset = s.reg
  BY <1>0, <1>1, <1>2 DEF RunOK, Unbroken
<1>18. s.auth < l /\ s.joined < l => \A g \in DOMAIN pred : g \in DOMAIN s.pred /\ pred[g] = s.pred[g]
  BY <1>6, <1>17
<1>19. RunOK(r, l)
  <2>1. BaseOK(r)
    BY <1>1, <1>15 DEF RunOK, BaseOK
  <2>2. OneRun(r)
    <3> SUFFICES ASSUME NEW f \in DOMAIN pred, NEW g \in DOMAIN pred,
                        s.auth < f, s.joined < f, f <= g
                 PROVE  pred[g] = pred[f] + (g - f)
      BY <1>15 DEF OneRun
    <3>1. f \in 1 .. l /\ g \in 1 .. l
      BY <1>7
    <3>2. s.auth < l /\ s.joined < l
      BY <1>0, <3>1
    <3>3. f \in DOMAIN s.pred /\ g \in DOMAIN s.pred /\ pred[f] = s.pred[f] /\ pred[g] = s.pred[g]
      BY <1>18, <3>2
    <3> QED BY <1>1, <3>3 DEF RunOK, OneRun
  <2>3. ASSUME NEW g \in DOMAIN pred, s.joined < g, NEW f \in g .. l PROVE f \in DOMAIN pred
    <3>1. g \in 1 .. l
      BY <1>7
    <3>2. CASE g = l
      BY <1>0, <1>5, <2>3, <3>2
    <3>3. CASE g # l
      <4>1. g \in DOMAIN s.pred
        BY <1>6, <3>3
      <4>2. f \in DOMAIN s.pred
        BY <1>1, <2>3, <4>1 DEF RunOK, Unbroken
      <4>3. l < g + RingCapacity
        BY <1>0, <2>3, <3>1, <4>1
      <4>4. l < f + RingCapacity
        BY <1>0, <2>3, <3>1, <4>3
      <4> QED BY <1>8, <4>2, <4>4
    <3> QED BY <3>2, <3>3
  <2>4. Unbroken(r, l)
    BY <1>5, <1>6, <1>15, <2>3 DEF Unbroken
  <2> QED BY <1>0, <1>7, <1>15, <2>1, <2>2, <2>4 DEF RunOK
<1>20. SettledOK(r, l)
  <2> SUFFICES ASSUME settled = TRUE PROVE SettledOK(r, l)
    BY <1>15 DEF SettledOK
  <2>1. /\ s.joined < s.auth /\ s.auth <= l
        /\ \A f \in s.auth + 1 .. l : l < f + RingCapacity => f \in DOMAIN s.pred
        /\ s.pend = 0 => Corrected(s, l)
        /\ s.auth \notin s.confirmed => s.auth \notin s.played
    BY <1>1, <1>9 DEF SettledOK
  <2>2. \A f \in s.auth + 1 .. l : l < f + RingCapacity => f \in DOMAIN pred
    BY <1>8, <2>1
  <2>3. Corrected(r, l)
    <3>1. CASE s.auth = l
      <4>1. \A f \in DOMAIN pred : ~(f > s.auth)
        BY <1>0, <1>7, <3>1
      <4>2. reset = s.base[s.auth] /\ s.base[s.auth] \in Nat
        BY <1>2, <3>1
      <4> QED BY <1>0, <1>15, <3>1, <4>1, <4>2 DEF Corrected
    <3>2. CASE s.auth < l
      <4>1. s.pend = 0 /\ reset = s.reg
        BY <1>0, <1>17, <2>1, <3>2
      <4>2. \A g \in DOMAIN pred : g \in DOMAIN s.pred /\ pred[g] = s.pred[g]
        BY <1>0, <1>18, <2>1, <3>2
      <4>3. Corrected(s, l)
        BY <2>1, <4>1
      <4> QED BY <1>15, <4>1, <4>2, <4>3 DEF Corrected
    <3> QED BY <1>0, <2>1, <3>1, <3>2
  <2>4. l \in DOMAIN pred
    BY <1>5
  <2> QED BY <1>15, <1>16, <2>1, <2>2, <2>3, <2>4 DEF SettledOK
<1>21. CuesOK(r, l)
  <2>1. /\ s.confirmed = s.served /\ s.confirmed \subseteq s.played
        /\ s.served \subseteq 1 .. s.auth
        /\ \A g \in s.played : g <= l \/ g <= s.auth
    BY <1>1 DEF CuesOK
  <2>2. \A g \in DOMAIN pred : s.auth < g /\ s.joined < g =>
             (g \in s.played <=> Prd!EmitsCue(pred[g]))
    <3> SUFFICES ASSUME NEW g \in DOMAIN pred, s.auth < g, s.joined < g
                 PROVE  g \in s.played <=> Prd!EmitsCue(pred[g])
      OBVIOUS
    <3>1. s.auth < l /\ s.joined < l
      BY <1>0, <1>7
    <3>2. g \in DOMAIN s.pred /\ pred[g] = s.pred[g]
      BY <1>18, <3>1
    <3> QED BY <1>1, <3>2 DEF CuesOK
  <2> QED BY <1>15, <1>16, <2>1, <2>2 DEF CuesOK
<1>22. \A g \in DOMAIN pred : g \in DOMAIN s.pred \/ l < g + RingCapacity
  BY <1>0, <1>6
<1> QED BY <1>1, <1>13, <1>15, <1>19, <1>20, <1>21, <1>22 DEF EntityOK

\* run_frame: one more frame k of an entity without a queued rollback. Frames are
\* predicted one after the other, except that the clock may have run on before
\* the first one.
LEMMA PredictIs ==
    ASSUME NEW s \in PredictedEntity, NEW l \in 0 .. MaxPredicted, EntityOK(s, l), s.pend = 0,
           NEW k \in Prd!Frames, l < k, k = l + 1 \/ l <= s.joined \/ DOMAIN s.pred = {},
           \A g \in DOMAIN s.pred : g <= s.joined \/ l < g + RingCapacity
    PROVE  \E r \in PredictedEntity :
             /\ r = Prd!PredictFrame(s, k) /\ EntityOK(r, k) /\ r.pend = 0 /\ r.joined = s.joined
             /\ \A g \in DOMAIN r.pred : g = k \/ (g \in DOMAIN s.pred /\ k # g + RingCapacity)
<1>0. /\ l \in Nat /\ k \in Nat /\ k > 0 /\ RingCapacity \in Nat /\ RingCapacity > 0
      /\ s.auth \in Nat /\ s.joined \in Nat /\ s.pred \in Ring /\ s.base \in Ring
      /\ s.reg \in Nat /\ s.settled \in BOOLEAN
  BY EntityFields, FrameNumbers
<1>1. HeardAsPlayed(s) /\ RunOK(s, l) /\ SettledOK(s, l) /\ CuesOK(s, l) /\ s.life = "alive"
  BY DEF EntityOK
<1>2. PICK x \in Nat : x = s.reg + 1
  BY <1>0
<1>3. \A g \in DOMAIN s.pred : g \in 1 .. l /\ s.pred[g] \in Nat
  BY <1>0, <1>1, RingFacts DEF RunOK
<1>4. PICK pred \in Ring : pred = Prd!Store(s.pred, k, x)
  BY <1>0, <1>2, StoreIs
<1>5. DOMAIN pred = {g \in DOMAIN s.pred : (g % RingCapacity) # (k % RingCapacity)} \cup {k}
  <2>1. s.pred \in Ring
    BY <1>0
  <2> QED BY <2>1, <1>2, <1>4, StoreIs, Zenon
<1>6. pred[k] = x /\ \A g \in DOMAIN pred : g # k => g \in DOMAIN s.pred /\ pred[g] = s.pred[g]
  <2>1. s.pred \in Ring
    BY <1>0
  <2> QED BY <2>1, <1>2, <1>4, StoreIs, Zenon
<1>7. k \in DOMAIN pred /\ \A g \in DOMAIN pred : g \in 1 .. k
  BY <1>0, <1>3, <1>5
<1>8. \A g \in DOMAIN s.pred : k < g + RingCapacity => g \in DOMAIN pred
  BY <1>0, <1>2, <1>3, <1>4, StoreKeeps
<1>9. \A g \in DOMAIN pred : g # k => k # g + RingCapacity
  BY <1>0, <1>2, <1>4, StoreEvicts
<1>10. PICK emitted \in SUBSET Prd!Frames : emitted = IF Prd!EmitsCue(x) THEN {k} ELSE {}
  OBVIOUS
<1>11. PICK m : m = [s EXCEPT !.reg = x, !.pred = pred]
  OBVIOUS
<1>12. PICK r : r = Prd!DrainCues(m, emitted)
  OBVIOUS
<1>13. r = Prd!PredictFrame(s, k)
  BY <1>1, <1>2, <1>4, <1>10, <1>11, <1>12 DEF Prd!PredictFrame, Prd!Alive, Prd!Simulated
<1>14. /\ m \in PredictedEntity /\ m.life = s.life /\ m.auth = s.auth /\ m.base = s.base
       /\ m.reg = x /\ m.pred = pred /\ m.pend = 0 /\ m.confirmed = s.confirmed
       /\ m.served = s.served /\ m.settled = s.settled /\ m.joined = s.joined
       /\ m.played = s.played /\ m.sound = s.sound
  BY <1>2, <1>4, <1>11 DEF PredictedEntity
<1>15. /\ r \in PredictedEntity /\ HeardAsPlayed(r) /\ SameSimulation(m, r)
       /\ r.played = m.played \cup emitted
  <2>1. HeardAsPlayed(m) /\ m \in PredictedEntity
    BY <1>1, <1>14 DEF HeardAsPlayed
  <2> QED BY <2>1, <1>10, <1>12, DrainIs, Zenon
<1>16. /\ r.life = s.life /\ r.auth = s.auth /\ r.base = s.base /\ r.reg = x /\ r.pred = pred
       /\ r.pend = 0 /\ r.confirmed = s.confirmed /\ r.served = s.served
       /\ r.settled = s.settled /\ r.joined = s.joined /\ r.played = s.played \cup emitted
  BY <1>14, <1>15 DEF SameSimulation
\* An older frame that was simulated: the new one follows the last.
<1>17. ASSUME NEW g \in DOMAIN pred, s.joined < g, g # k
       PROVE  /\ g \in DOMAIN s.pred /\ pred[g] = s.pred[g] /\ g \in 1 .. l
              /\ k = l + 1 /\ l \in DOMAIN s.pred /\ s.reg = s.pred[l] /\ k < g + RingCapacity
  <2>1. g \in DOMAIN s.pred /\ pred[g] = s.pred[g] /\ g \in 1 .. l
    BY <1>3, <1>6, <1>17
  <2>2. k = l + 1
    BY <1>0, <1>17, <2>1
  <2>3. l \in g .. l /\ s.joined < l
    BY <1>0, <1>17, <2>1
  <2>4. l \in DOMAIN s.pred
    BY <1>1, <1>17, <2>1, <2>3 DEF RunOK, Unbroken
  <2>5. s.reg = s.pred[l]
    BY <1>1, <2>3, <2>4 DEF RunOK, Unbroken
  <2>6. l < g + RingCapacity
    BY <1>0, <1>17, <2>1
  <2>7. k # g + RingCapacity
    BY <1>9, <1>17
  <2>8. k < g + RingCapacity
    BY <1>0, <2>1, <2>2, <2>6, <2>7
  <2> QED BY <2>1, <2>2, <2>4, <2>5, <2>8
<1>18. OneRun(r)
  <2> SUFFICES ASSUME NEW f \in DOMAIN pred, NEW g \in DOMAIN pred, s.auth < f, s.joined < f, f <= g
               PROVE  pred[g] = pred[f] + (g - f)
    BY <1>16 DEF OneRun
  <2>1. f \in 1 .. k /\ g \in 1 .. k
    BY <1>7
  <2>2. pred[f] \in Nat
    BY <1>4, RingFacts
  <2>3. CASE f = k
    BY <1>0, <2>1, <2>2, <2>3
  <2>4. CASE f # k /\ g # k
    <3>1. f \in DOMAIN s.pred /\ g \in DOMAIN s.pred /\ pred[f] = s.pred[f] /\ pred[g] = s.pred[g]
      BY <1>6, <2>4
    <3> QED BY <1>1, <3>1 DEF RunOK, OneRun
  <2>5. CASE f # k /\ g = k
    <3>1. f \in DOMAIN s.pred /\ pred[f] = s.pred[f] /\ k = l + 1 /\ l \in DOMAIN s.pred
          /\ s.reg = s.pred[l] /\ f \in 1 .. l
      BY <1>17, <2>5
    <3>2. s.pred[l] = s.pred[f] + (l - f)
      BY <1>1, <3>1 DEF RunOK, OneRun
    <3>3. x = s.pred[f] + (l - f) + 1
      BY <1>2, <3>1, <3>2
    <3> QED BY <1>0, <1>3, <1>6, <2>5, <3>1, <3>3
  <2> QED BY <2>3, <2>4, <2>5
<1>19. Unbroken(r, k)
  <2>1. ASSUME NEW g \in DOMAIN pred, s.joined < g, NEW f \in g .. k PROVE f \in DOMAIN pred
    <3>0. g \in 1 .. k
      BY <1>7
    <3>1. CASE g = k
      BY <1>0, <1>7, <2>1, <3>1
    <3>2. CASE g # k /\ f # k
      <4>1. g \in DOMAIN s.pred /\ k = l + 1 /\ k < g + RingCapacity
        BY <1>17, <2>1, <3>2
      <4>2. f \in g .. l /\ k < f + RingCapacity
        BY <1>0, <2>1, <3>0, <3>2, <4>1
      <4>3. f \in DOMAIN s.pred
        BY <1>1, <2>1, <4>1, <4>2 DEF RunOK, Unbroken
      <4> QED BY <1>8, <4>2, <4>3
    <3> QED BY <1>7, <3>1, <3>2
  <2> QED BY <1>6, <1>7, <1>16, <2>1 DEF Unbroken
<1>20. RunOK(r, k)
  <2>1. BaseOK(r)
    BY <1>1, <1>16 DEF RunOK, BaseOK
  <2> QED BY <1>0, <1>7, <1>16, <1>18, <1>19, <2>1 DEF RunOK
<1>21. SettledOK(r, k)
  <2> SUFFICES ASSUME s.settled = TRUE PROVE SettledOK(r, k)
    BY <1>0, <1>16 DEF SettledOK
  <2>1. /\ s.joined < s.auth /\ s.auth <= l /\ l \in DOMAIN s.pred
        /\ \A f \in s.auth + 1 .. l : l < f + RingCapacity => f \in DOMAIN s.pred
        /\ s.auth \notin s.confirmed => s.auth \notin s.played
    BY <1>1 DEF SettledOK
  <2>2. Corrected(s, l)
    BY <1>1 DEF SettledOK
  <2>3. k = l + 1
    BY <1>0, <2>1
  <2>4. \A f \in s.auth + 1 .. k : k < f + RingCapacity => f \in DOMAIN pred
    <3> SUFFICES ASSUME NEW f \in s.auth + 1 .. k, k < f + RingCapacity PROVE f \in DOMAIN pred
      OBVIOUS
    <3>1. CASE f = k
      BY <1>7, <3>1
    <3>2. CASE f # k
      <4>1. f \in s.auth + 1 .. l /\ l < f + RingCapacity
        BY <1>0, <2>3, <3>2
      <4> QED BY <1>8, <2>1, <4>1
    <3> QED BY <3>1, <3>2
  <2>5. PICK c \in Nat : c = s.base[s.auth]
    BY <1>0, <1>1, RingFacts DEF RunOK, BaseOK
  <2>6. x = c + (k - s.auth)
    <3>1. s.reg = c + (l - s.auth)
      BY <2>2, <2>5 DEF Corrected
    <3> QED BY <1>0, <1>2, <2>3, <2>5, <3>1
  <2>7. \A f \in DOMAIN pred : f > s.auth => pred[f] = c + (f - s.auth)
    <3> SUFFICES ASSUME NEW f \in DOMAIN pred, f > s.auth PROVE pred[f] = c + (f - s.auth)
      OBVIOUS
    <3>1. CASE f = k
      BY <1>6, <2>6, <3>1
    <3>2. CASE f # k
      <4>1. f \in DOMAIN s.pred /\ pred[f] = s.pred[f]
        BY <1>6, <3>2
      <4> QED BY <2>2, <2>5, <4>1 DEF Corrected
    <3> QED BY <3>1, <3>2
  <2>8. Corrected(r, k)
    BY <1>16, <2>5, <2>6, <2>7 DEF Corrected
  <2>9. s.auth \notin s.confirmed => s.auth \notin r.played
    <3>1. s.auth \notin emitted
      BY <1>0, <1>10, <2>1
    <3> QED BY <1>16, <2>1, <3>1
  <2> QED BY <1>0, <1>7, <1>16, <2>1, <2>4, <2>8, <2>9 DEF SettledOK
<1>22. CuesOK(r, k)
  <2>1. /\ s.confirmed = s.served /\ s.confirmed \subseteq s.played
        /\ s.served \subseteq 1 .. s.auth
        /\ \A g \in s.played : g \in Nat /\ (g <= l \/ g <= s.auth)
    BY <1>1, EntityFields, FrameNumbers DEF CuesOK
  <2>2. \A g \in emitted : g = k
    BY <1>10
  <2>3. \A g \in r.played : g <= k \/ g <= s.auth
    <3> SUFFICES ASSUME NEW g \in r.played PROVE g <= k \/ g <= s.auth
      OBVIOUS
    <3>1. g \in s.played \/ g \in emitted
      BY <1>16
    <3>2. CASE g \in s.played
      BY <1>0, <2>1, <3>2
    <3>3. CASE g \in emitted
      BY <1>0, <2>2, <3>3
    <3> QED BY <3>1, <3>2, <3>3
  <2>4. \A g \in DOMAIN pred : s.auth < g /\ s.joined < g =>
             (g \in r.played <=> Prd!EmitsCue(pred[g]))
    <3> SUFFICES ASSUME NEW g \in DOMAIN pred, s.auth < g, s.joined < g
                 PROVE  g \in r.played <=> Prd!EmitsCue(pred[g])
      OBVIOUS
    <3>1. CASE g = k
      <4>1. k \notin s.played
        BY <1>0, <2>1, <3>1
      <4>2. k \in r.played <=> Prd!EmitsCue(x)
        BY <1>10, <1>16, <4>1
      <4> QED BY <1>6, <3>1, <4>2
    <3>2. CASE g # k
      <4>1. g \in DOMAIN s.pred /\ pred[g] = s.pred[g]
        BY <1>6, <3>2
      <4>2. g \in r.played <=> g \in s.played
        BY <1>16, <2>2, <3>2
      <4> QED BY <1>1, <4>1, <4>2 DEF CuesOK
    <3> QED BY <3>1, <3>2
  <2> QED BY <1>16, <2>1, <2>3, <2>4 DEF CuesOK
<1> QED BY <1>1, <1>6, <1>9, <1>13, <1>15, <1>16, <1>20, <1>21, <1>22 DEF EntityOK

--------------------------------------------------------------------------------
(* What holds of the prediction as a whole                                      *)

\* A rollback of any entity to frame g finds what every other one needs: g is in
\* the rings, or the entity was not predicted yet.
Reached(es, l, g) ==
  \A e \in Predicted : es[e].life = "alive" => g <= es[e].joined \/ l < g + RingCapacity

\* Every entity is known, or keeps nothing.
EntitiesOK(es, l) ==
  /\ es \in [Predicted -> PredictedEntity]
  /\ \A e \in Predicted : es[e].life = "alive" => EntityOK(es[e], l)
  /\ \A e \in Predicted : es[e].life # "alive" => Blank(es[e])

\* Rollbacks go back to frames that are reached, the earliest first.
RollbackOK(es, l, rb) ==
  /\ \A e \in Predicted : \A g \in DOMAIN es[e].pred : Reached(es, l, g)
  /\ \A e \in Predicted : es[e].pend # 0 =>
       Reached(es, l, es[e].pend) /\ 0 < rb /\ rb <= es[e].pend
  /\ rb # 0 => rb <= l /\ Reached(es, l, rb)

\* Predicted frames follow each other, unless every entity is new or none was
\* predicted yet.
ClockOK(es, l, rb, now) ==
  /\ l <= now
  /\ now # l =>
       \/ \A e \in Predicted : es[e].life = "alive" => l <= es[e].joined
       \/ rb = 0 /\ \A e \in Predicted : DOMAIN es[e].pred = {}

\* The inductive invariant.
PredictionInv ==
  /\ prdPolicy \in Policies /\ prdClock \in 0 .. MaxPredicted /\ prdStarted \in BOOLEAN
  /\ prdLast \in 0 .. MaxPredicted /\ prdRollback \in 0 .. MaxPredicted
  /\ EntitiesOK(prdEnt, prdLast)
  /\ RollbackOK(prdEnt, prdLast, prdRollback)
  /\ ClockOK(prdEnt, prdLast, prdRollback, prdClock)
  /\ prdStarted = FALSE =>
       prdLast = 0 /\ prdRollback = 0 /\ \A e \in Predicted : prdEnt[e].life = "unknown"

\* The frames an entity holds are not after the last one.
LEMMA HeldFrames ==
    ASSUME NEW es, NEW l \in 0 .. MaxPredicted, EntitiesOK(es, l), NEW e \in Predicted
    PROVE  /\ es[e] \in PredictedEntity
           /\ \A g \in DOMAIN es[e].pred : g \in 1 .. l
           /\ es[e].pend \in Nat /\ es[e].pend <= l /\ es[e].joined \in Nat /\ es[e].auth \in Nat
           /\ es[e].served \in SUBSET (1 .. es[e].auth)
<1>1. es[e] \in PredictedEntity
  BY DEF EntitiesOK
<1>2. es[e].pend \in Nat /\ es[e].joined \in Nat /\ es[e].auth \in Nat /\ l \in Nat
  BY <1>1, EntityFields, FrameNumbers
<1>3. CASE es[e].life = "alive"
  BY <1>1, <1>2, <1>3 DEF EntitiesOK, EntityOK, RunOK, CuesOK
<1>4. CASE es[e].life # "alive"
  BY <1>1, <1>2, <1>4 DEF EntitiesOK, Blank
<1> QED BY <1>3, <1>4

\* refresh_pending_rollback_frame
LEMMA EarliestIs ==
    ASSUME NEW es \in [Predicted -> PredictedEntity], NEW e \in Predicted, es[e].pend # 0
    PROVE  /\ \E d \in Predicted : es[d].pend # 0 /\ Prd!EarliestQueued(es) = es[d].pend
           /\ \A d \in Predicted : es[d].pend # 0 => Prd!EarliestQueued(es) <= es[d].pend
<1> DEFINE Q == {es[d].pend : d \in Predicted} \ {0}
<1>1. \A d \in Predicted : es[d].pend \in Nat
  BY EntityFields, FrameNumbers
<1>2. Q \in SUBSET Nat /\ Q # {}
  BY <1>1
<1>3. Prd!EarliestQueued(es) = CHOOSE q \in Q : \A m \in Q : q <= m
  BY DEF Prd!EarliestQueued, Prd!Min, Prd!NoFrame
<1>4. \A d \in Predicted : es[d].pend # 0 => es[d].pend \in Q
  OBVIOUS
<1>5. \A q \in Q : \E d \in Predicted : es[d].pend # 0 /\ q = es[d].pend
  OBVIOUS
<1> HIDE DEF Q
<1>6. \E q \in Q : \A m \in Q : q <= m
  BY <1>2, LeastNumber
<1>7. Prd!EarliestQueued(es) \in Q /\ \A m \in Q : Prd!EarliestQueued(es) <= m
  BY <1>3, <1>6
<1> QED BY <1>4, <1>5, <1>7

\* What the record of a frame does to the entity it is about.
LEMMA RecordKeeps ==
    ASSUME PredictionInv, NEW e \in Predicted, NEW f \in Prd!Frames, NEW x \in Nat,
           NEW cues \in SUBSET (1 .. f), prdEnt[e].life # "gone", prdEnt[e].auth < f,
           NEW l \in 0 .. MaxPredicted, l = IF prdStarted THEN prdLast ELSE f - 1
    PROVE  \E r \in PredictedEntity :
             /\ r = Prd!RecordState(prdEnt[e], f, x, cues) /\ EntityOK(r, l) /\ r.life = "alive"
             /\ r.pend = IF Prd!Conflict(prdEnt[e], f, x) THEN f ELSE prdEnt[e].pend
             /\ DOMAIN r.pred = DOMAIN prdEnt[e].pred
             /\ \/ prdEnt[e].life = "alive" /\ r.joined = prdEnt[e].joined
                \/ r.joined = prdLast /\ ~Prd!Conflict(prdEnt[e], f, x)
<1>1. PICK s \in PredictedEntity : s = prdEnt[e]
  BY DEF PredictionInv, EntitiesOK
<1>2. prdLast \in 0 .. MaxPredicted
  BY DEF PredictionInv
<1>3. Prd!Conflict(s, f, x) = (f \in DOMAIN s.pred /\ s.pred[f] # x)
  BY DEF Prd!Conflict
<1>4. CASE s.life = "alive"
  <2>1. l = prdLast
    BY <1>1, <1>4 DEF PredictionInv
  <2>2. EntityOK(s, prdLast)
    BY <1>1, <1>4 DEF PredictionInv, EntitiesOK
  <2>3. PICK r \in PredictedEntity :
             /\ r = Prd!RecordState(s, f, x, cues)
             /\ EntityOK(r, prdLast) /\ r.pred = s.pred /\ r.joined = s.joined
             /\ r.pend = IF f \in DOMAIN s.pred /\ s.pred[f] # x THEN f ELSE s.pend
    BY <1>1, <1>2, <2>2, RecordKnown
  <2>4. r.life = "alive"
    BY <2>3 DEF EntityOK
  <2> QED BY <1>1, <1>3, <1>4, <2>1, <2>3, <2>4
<1>5. CASE s.life # "alive"
  <2>1. s.life = "unknown"
    BY <1>1, <1>5, EntityFields
  <2>2. Blank(s)
    BY <1>1, <1>5 DEF PredictionInv, EntitiesOK
  <2>3. l = prdLast \/ l = f - 1
    OBVIOUS
  <2>4. PICK r \in PredictedEntity :
             /\ r = Prd!RecordState(s, f, x, cues)
             /\ EntityOK(r, l) /\ DOMAIN r.pred = {} /\ r.joined = prdLast /\ r.pend = 0
    BY <1>2, <2>1, <2>2, <2>3, RecordNew
  <2>5. r.life = "alive"
    BY <2>4 DEF EntityOK
  <2>6. DOMAIN s.pred = {} /\ s.pend = 0
    BY <2>2 DEF Blank
  <2> QED BY <1>1, <1>3, <2>4, <2>5, <2>6
<1> QED BY <1>4, <1>5

\* A record of any entity, the first one that starts the clock included.
LEMMA ReceiveKeeps ==
    ASSUME PredictionInv, NEW e \in Predicted, NEW f \in Prd!Frames, NEW offset \in Offsets,
           NEW skipped \in SUBSET (prdEnt[e].auth + 1 .. f - 1),
           NEW resent \in {{}, prdEnt[e].served}, Prd!Receive(e, f, offset, skipped, resent)
    PROVE  PredictionInv'
<1>0. /\ f \in Nat /\ f > 0 /\ f \in 0 .. MaxPredicted /\ f - 1 \in 0 .. MaxPredicted
      /\ prdLast \in Nat /\ prdLast \in 0 .. MaxPredicted /\ offset \in Nat
      /\ prdClock \in Nat /\ prdStarted \in BOOLEAN /\ RingCapacity \in Nat /\ MaxPredicted \in Nat
  BY FrameNumbers, PrdConstants DEF PredictionInv
<1>1. PICK x \in Nat : x = Prd!Simulated(f, offset)
  BY <1>0 DEF Prd!Simulated
<1>2. /\ prdEnt[e] \in PredictedEntity /\ prdEnt[e].auth \in Nat
      /\ prdEnt[e].served \in SUBSET (1 .. prdEnt[e].auth)
  BY <1>0, HeldFrames DEF PredictionInv
<1>3. prdEnt[e].life # "gone" /\ prdEnt[e].auth < f
  BY <1>0, <1>2 DEF Prd!Receive
<1>4. PICK cues \in SUBSET (1 .. f) :
        cues = skipped \cup resent \cup (IF Prd!EmitsCue(x) THEN {f} ELSE {})
  <2>1. skipped \subseteq 1 .. f
    BY <1>0, <1>2
  <2>2. resent \subseteq 1 .. f
    BY <1>0, <1>2, <1>3
  <2>3. f \in 1 .. f
    BY <1>0
  <2> QED BY <2>1, <2>2, <2>3
<1>5. PICK l \in 0 .. MaxPredicted : l = IF prdStarted THEN prdLast ELSE f - 1
  BY <1>0
<1>6. PICK r \in PredictedEntity :
             /\ r = Prd!RecordState(prdEnt[e], f, x, cues) /\ EntityOK(r, l) /\ r.life = "alive"
             /\ r.pend = IF Prd!Conflict(prdEnt[e], f, x) THEN f ELSE prdEnt[e].pend
             /\ DOMAIN r.pred = DOMAIN prdEnt[e].pred
             /\ \/ prdEnt[e].life = "alive" /\ r.joined = prdEnt[e].joined
                \/ r.joined = prdLast /\ ~Prd!Conflict(prdEnt[e], f, x)
  BY <1>3, <1>5, RecordKeeps
<1>7. PICK es \in [Predicted -> PredictedEntity] : es = [prdEnt EXCEPT ![e] = r]
  BY DEF PredictionInv, EntitiesOK
<1>8. es[e] = r /\ \A d \in Predicted : d # e => es[d] = prdEnt[d]
  BY <1>7 DEF PredictionInv, EntitiesOK
<1>9. PICK rb : rb = IF Prd!Conflict(prdEnt[e], f, x) THEN Prd!EarliestQueued(es) ELSE prdRollback
  OBVIOUS
<1>10. /\ prdEnt' = es /\ prdRollback' = rb /\ prdStarted' = TRUE /\ prdLast' = l
       /\ prdClock' = (IF prdStarted THEN prdClock ELSE f) /\ prdPolicy' = prdPolicy
  BY <1>1, <1>4, <1>5, <1>6, <1>7, <1>9 DEF Prd!Receive
\* Entities that are alive were so after the start.
<1>11. \A d \in Predicted : prdEnt[d].life = "alive" => l = prdLast
  BY <1>5 DEF PredictionInv
<1>12. EntitiesOK(es, l)
  <2>1. \A d \in Predicted : es[d].life = "alive" => EntityOK(es[d], l)
    BY <1>6, <1>8, <1>11 DEF PredictionInv, EntitiesOK
  <2>2. \A d \in Predicted : es[d].life # "alive" => Blank(es[d])
    BY <1>6, <1>8 DEF PredictionInv, EntitiesOK
  <2> QED BY <1>7, <2>1, <2>2 DEF EntitiesOK
<1>13. ASSUME NEW g \in Nat, Reached(prdEnt, prdLast, g), g <= prdLast
       PROVE  Reached(es, l, g)
  <2> SUFFICES ASSUME NEW d \in Predicted, es[d].life = "alive"
               PROVE  g <= es[d].joined \/ l < g + RingCapacity
    BY DEF Reached
  <2>1. CASE d # e \/ (prdEnt[e].life = "alive" /\ r.joined = prdEnt[e].joined)
    BY <1>8, <1>11, <1>13, <2>1 DEF Reached
  <2>2. CASE d = e /\ r.joined = prdLast
    BY <1>8, <1>13, <2>2
  <2>3. \/ prdEnt[e].life = "alive" /\ r.joined = prdEnt[e].joined
        \/ r.joined = prdLast
    BY <1>6
  <2> QED BY <2>1, <2>2, <2>3
<1>14. \A d \in Predicted : DOMAIN es[d].pred = DOMAIN prdEnt[d].pred
  BY <1>6, <1>8
<1>15. ASSUME NEW d \in Predicted, NEW g \in DOMAIN prdEnt[d].pred
       PROVE  g \in Nat /\ Reached(es, l, g) /\ g <= l
  <2>1. g \in 1 .. prdLast
    BY <1>0, HeldFrames DEF PredictionInv
  <2>2. g \in Nat /\ g <= prdLast
    BY <1>0, <2>1
  <2>3. Reached(prdEnt, prdLast, g)
    BY DEF PredictionInv, RollbackOK
  <2>4. g \in DOMAIN es[d].pred
    BY <1>14
  <2>5. g \in 1 .. l
    BY <1>12, <2>4, HeldFrames
  <2> QED BY <1>0, <1>5, <1>13, <2>2, <2>3, <2>5
<1>16. ASSUME NEW d \in Predicted, es[d].pend # 0
       PROVE  /\ es[d].pend \in Nat /\ es[d].pend <= l /\ Reached(es, l, es[d].pend)
              /\ ~Prd!Conflict(prdEnt[e], f, x) => es[d].pend = prdEnt[d].pend
  <2>1. es[d].pend \in Nat /\ es[d].pend <= l
    BY <1>12, HeldFrames
  <2>2. CASE es[d].pend = prdEnt[d].pend
    <3>1. PICK g \in Nat : g = prdEnt[d].pend /\ g # 0 /\ g <= prdLast
      BY <1>0, <1>16, <2>2, HeldFrames DEF PredictionInv
    <3>2. Reached(prdEnt, prdLast, g)
      BY <3>1 DEF PredictionInv, RollbackOK
    <3>3. Reached(es, l, g)
      BY <1>13, <3>1, <3>2
    <3> QED BY <2>1, <2>2, <3>1, <3>3
  <2>3. CASE es[d].pend # prdEnt[d].pend
    <3>1. d = e /\ es[d].pend = f /\ Prd!Conflict(prdEnt[e], f, x)
      BY <1>6, <1>8, <2>3
    <3>2. f \in DOMAIN prdEnt[e].pred
      BY <3>1 DEF Prd!Conflict
    <3> QED BY <1>15, <2>1, <3>1, <3>2
  <2> QED BY <2>2, <2>3
<1>17. /\ rb \in 0 .. MaxPredicted
       /\ rb # 0 => rb <= l /\ Reached(es, l, rb)
       /\ \A d \in Predicted : es[d].pend # 0 => 0 < rb /\ rb <= es[d].pend
  <2>1. CASE Prd!Conflict(prdEnt[e], f, x)
    <3>1. rb = Prd!EarliestQueued(es) /\ es[e].pend # 0
      BY <1>0, <1>6, <1>8, <1>9, <2>1
    <3>2. /\ \E d \in Predicted : es[d].pend # 0 /\ rb = es[d].pend
          /\ \A d \in Predicted : es[d].pend # 0 => rb <= es[d].pend
      BY <1>7, <3>1, EarliestIs
    <3>3. PICK d \in Predicted : es[d].pend # 0 /\ rb = es[d].pend
      BY <3>2
    <3>4. rb \in Nat /\ rb <= l /\ Reached(es, l, rb)
      BY <1>16, <3>3
    <3> QED BY <1>0, <1>5, <3>2, <3>3, <3>4
  <2>2. CASE ~Prd!Conflict(prdEnt[e], f, x)
    <3>1. rb = prdRollback /\ rb \in 0 .. MaxPredicted /\ rb \in Nat
      BY <1>9, <2>2, FrameNumbers DEF PredictionInv
    <3>2. ASSUME rb # 0 PROVE rb <= l /\ Reached(es, l, rb)
      <4>1. prdStarted # FALSE
        BY <3>1, <3>2 DEF PredictionInv
      <4>2. l = prdLast
        BY <1>0, <1>5, <4>1
      <4>3. rb <= prdLast /\ Reached(prdEnt, prdLast, rb)
        BY <3>1, <3>2 DEF PredictionInv, RollbackOK
      <4> QED BY <1>13, <3>1, <4>2, <4>3
    <3>3. ASSUME NEW d \in Predicted, es[d].pend # 0 PROVE 0 < rb /\ rb <= es[d].pend
      <4>1. es[d].pend = prdEnt[d].pend
        BY <1>16, <2>2, <3>3
      <4> QED BY <3>1, <3>3, <4>1 DEF PredictionInv, RollbackOK
    <3> QED BY <3>1, <3>2, <3>3
  <2> QED BY <2>1, <2>2
<1>18. RollbackOK(es, l, rb)
  BY <1>14, <1>15, <1>16, <1>17 DEF RollbackOK
<1>19. PICK now \in 0 .. MaxPredicted : now = IF prdStarted THEN prdClock ELSE f
  BY <1>0 DEF PredictionInv
<1>20. ClockOK(es, l, rb, now)
  <2>1. CASE prdStarted = TRUE
    <3>0. l = prdLast /\ now = prdClock
      BY <1>5, <1>19, <2>1
    <3>1. l <= now
      BY <3>0 DEF PredictionInv, ClockOK
    <3>2. ASSUME \A d \in Predicted : prdEnt[d].life = "alive" => prdLast <= prdEnt[d].joined
          PROVE  \A d \in Predicted : es[d].life = "alive" => l <= es[d].joined
      BY <1>0, <1>6, <1>8, <3>0, <3>2
    <3>3. ASSUME prdRollback = 0, \A d \in Predicted : DOMAIN prdEnt[d].pred = {}
          PROVE  rb = 0 /\ \A d \in Predicted : DOMAIN es[d].pred = {}
      BY <1>9, <1>14, <3>3 DEF Prd!Conflict
    <3> QED BY <3>0, <3>1, <3>2, <3>3 DEF PredictionInv, ClockOK
  <2>2. CASE prdStarted = FALSE
    <3>1. \A d \in Predicted : prdEnt[d].life = "unknown"
      BY <2>2 DEF PredictionInv
    <3>2. \A d \in Predicted : DOMAIN prdEnt[d].pred = {}
      BY <3>1 DEF PredictionInv, EntitiesOK, Blank
    <3>3. rb = 0
      BY <1>9, <2>2, <3>2 DEF PredictionInv, Prd!Conflict
    <3>4. l <= now
      BY <1>0, <1>5, <1>19, <2>2
    <3> QED BY <1>14, <3>2, <3>3, <3>4 DEF ClockOK
  <2> QED BY <1>0, <2>1, <2>2
<1>21. prdPolicy \in Policies
  BY DEF PredictionInv
<1> QED BY <1>5, <1>10, <1>12, <1>17, <1>18, <1>19, <1>20, <1>21 DEF PredictionInv

\* A destroyed entity keeps nothing; its rollback may stay pending.
LEMMA DestroyKeeps ==
    ASSUME PredictionInv, NEW e \in Predicted, Prd!Destroy(e)
    PROVE  PredictionInv'
<1>1. PICK r \in PredictedEntity : r = [Prd!UnknownEntity EXCEPT !.life = "gone"] /\ Blank(r)
  <2> DEFINE r == [Prd!UnknownEntity EXCEPT !.life = "gone"]
  <2>1. Prd!UnknownEntity \in PredictedEntity
    BY EmptyRing, FrameNumbers DEF Prd!UnknownEntity, PredictedEntity, Prd!NoFrame
  <2>2. r \in PredictedEntity
    BY <2>1 DEF PredictedEntity
  <2>3. /\ r.life = "gone" /\ r.pred = <<>> /\ r.base = <<>> /\ r.auth = 0 /\ r.pend = 0
        /\ r.served = {} /\ r.played = {} /\ r.confirmed = {} /\ r.settled = FALSE
        /\ r.sound = [f \in Prd!Frames |-> 0]
    BY DEF Prd!UnknownEntity, Prd!NoFrame
  <2> HIDE DEF r
  <2>4. HeardAsPlayed(r)
    BY <2>3 DEF HeardAsPlayed
  <2>5. Blank(r)
    BY <2>3, <2>4, EmptyRing DEF Blank
  <2> QED BY <2>2, <2>5 DEF r
<1>2. PICK es \in [Predicted -> PredictedEntity] : es = [prdEnt EXCEPT ![e] = r]
  BY DEF PredictionInv, EntitiesOK
<1>3. es[e] = r /\ \A d \in Predicted : d # e => es[d] = prdEnt[d]
  BY <1>2 DEF PredictionInv, EntitiesOK
<1>4. /\ prdEnt' = es /\ prdRollback' = prdRollback /\ prdStarted' = prdStarted
      /\ prdLast' = prdLast /\ prdClock' = prdClock /\ prdPolicy' = prdPolicy
      /\ prdEnt[e].life = "alive"
  BY <1>1, <1>2 DEF Prd!Destroy, Prd!Alive
<1>5. r.life # "alive" /\ DOMAIN r.pred = {} /\ r.pend = 0
  BY <1>1 DEF Blank
<1>6. EntitiesOK(es, prdLast)
  BY <1>1, <1>2, <1>3, <1>5 DEF PredictionInv, EntitiesOK
<1>7. \A g : Reached(prdEnt, prdLast, g) => Reached(es, prdLast, g)
  BY <1>3, <1>5 DEF Reached
<1>8. \A d \in Predicted : /\ DOMAIN es[d].pred \subseteq DOMAIN prdEnt[d].pred
                           /\ es[d].pend # 0 => es[d].pend = prdEnt[d].pend
  BY <1>3, <1>5
<1>9. RollbackOK(es, prdLast, prdRollback)
  BY <1>7, <1>8 DEF PredictionInv, RollbackOK
<1>10. ClockOK(es, prdLast, prdRollback, prdClock)
  <2>1. \A d \in Predicted : es[d].life = "alive" => es[d] = prdEnt[d]
    BY <1>3, <1>5
  <2> QED BY <1>8, <2>1 DEF PredictionInv, ClockOK
<1>11. prdStarted # FALSE
  BY <1>4 DEF PredictionInv
<1> QED BY <1>4, <1>6, <1>9, <1>10, <1>11 DEF PredictionInv

\* Without an entity the clock advances alone.
LEMMA SkipKeeps ==
    ASSUME PredictionInv, Prd!SkipFrame
    PROVE  PredictionInv'
<1>1. /\ prdEnt' = prdEnt /\ prdRollback' = prdRollback /\ prdStarted' = prdStarted
      /\ prdLast' = prdLast /\ prdClock' = prdClock + 1 /\ prdPolicy' = prdPolicy
      /\ prdClock < MaxPredicted /\ \A e \in Predicted : prdEnt[e].life # "alive"
  BY DEF Prd!SkipFrame, Prd!Alive
<1>2. PICK now \in 0 .. MaxPredicted : now = prdClock + 1
  BY <1>1, FrameNumbers DEF PredictionInv
<1>3. ClockOK(prdEnt, prdLast, prdRollback, now)
  BY <1>1, <1>2, FrameNumbers DEF PredictionInv, ClockOK
<1> QED BY <1>1, <1>2, <1>3 DEF PredictionInv

\* apply_pending_rollback of an entity: it is simulated again, or nothing is queued.
LEMMA RolledBack ==
    ASSUME PredictionInv, NEW e \in Predicted, prdEnt[e].life = "alive"
    PROVE  \E r \in PredictedEntity :
             /\ r = Prd!AppliedRollback[e] /\ EntityOK(r, prdLast) /\ r.pend = 0
             /\ r.joined = prdEnt[e].joined
             /\ \A g \in DOMAIN r.pred : g \in DOMAIN prdEnt[e].pred \/ prdLast < g + RingCapacity
             /\ prdRollback = 0 => r = prdEnt[e]
<1>0. /\ prdRollback \in Nat /\ prdLast \in Nat /\ prdLast <= MaxPredicted
      /\ prdPolicy \in Policies /\ Prd!Frames = 1 .. MaxPredicted /\ MaxPredicted \in Nat
  BY FrameNumbers DEF PredictionInv
<1>1. PICK s \in PredictedEntity : s = prdEnt[e] /\ EntityOK(s, prdLast) /\ s.life = "alive"
  BY DEF PredictionInv, EntitiesOK
<1>2. s.pend # 0 => 0 < prdRollback /\ prdRollback <= s.pend
  BY <1>1 DEF PredictionInv, RollbackOK
<1>3. CASE prdRollback = 0
  <2>1. Prd!AppliedRollback[e] = s
    BY <1>1, <1>3 DEF Prd!AppliedRollback, Prd!NoFrame
  <2>2. s.pend = 0
    BY <1>2, <1>3
  <2> QED BY <1>1, <2>1, <2>2
<1>4. CASE prdRollback # 0
  <2>1. Prd!AppliedRollback[e] =
          IF Prd!Resimulated(s) THEN Prd!Resimulate(s, prdRollback, prdLast) ELSE s
    BY <1>1, <1>4 DEF Prd!AppliedRollback, Prd!NoFrame
  <2>2. CASE ~(prdPolicy = "All" \/ s.pend # 0)
    <3>1. ~Prd!Resimulated(s)
      BY <2>2 DEF Prd!Resimulated, Prd!NoFrame
    <3> QED BY <1>1, <1>4, <2>1, <2>2, <3>1
  <2>3. CASE prdPolicy = "All" \/ s.pend # 0
    <3>1. Prd!Resimulated(s)
      BY <1>1, <2>3 DEF Prd!Resimulated, Prd!NoFrame, Prd!Alive
    <3>2. prdRollback <= prdLast /\ Reached(prdEnt, prdLast, prdRollback)
      BY <1>4 DEF PredictionInv, RollbackOK
    <3>3. PICK l \in Prd!Frames : l = prdLast
      BY <1>0, <1>4, <3>2
    <3>4. PICK b \in 1 .. l : b = prdRollback
      BY <1>0, <1>4, <3>2, <3>3
    <3>5. b <= s.joined \/ l < b + RingCapacity
      BY <1>1, <3>2, <3>3, <3>4 DEF Reached
    <3>6. \A g \in DOMAIN s.pred : g <= s.joined \/ l < g + RingCapacity
      BY <1>1, <3>3 DEF PredictionInv, RollbackOK, Reached
    <3>7. EntityOK(s, l) /\ (s.pend # 0 => b <= s.pend) /\ Prd!AppliedRollback[e] = Prd!Resimulate(s, b, l)
      BY <1>1, <1>2, <2>1, <3>1, <3>3, <3>4
    <3>8. CASE b < l
      <4>1. PICK r \in PredictedEntity :
             /\ r = Prd!Resimulate(s, b, l) /\ EntityOK(r, l) /\ r.pend = 0 /\ r.joined = s.joined
             /\ \A g \in DOMAIN r.pred : g \in DOMAIN s.pred \/ l < g + RingCapacity
        BY <1>0, <2>3, <3>5, <3>6, <3>7, <3>8, ResimulateLater
      <4> QED BY <1>1, <1>4, <3>3, <3>7, <4>1
    <3>9. CASE b = l
      <4>0. s.pend # 0 => l <= s.pend
        BY <3>7, <3>9
      <4>1. PICK r \in PredictedEntity :
             /\ r = Prd!Resimulate(s, l, l) /\ EntityOK(r, l) /\ r.pend = 0 /\ r.joined = s.joined
             /\ \A g \in DOMAIN r.pred : g \in DOMAIN s.pred \/ l < g + RingCapacity
        BY <1>0, <2>3, <3>6, <3>7, <4>0, ResimulateLast
      <4> QED BY <1>1, <1>4, <3>3, <3>7, <3>9, <4>1
    <3>10. b < l \/ b = l
      BY <1>0, <3>3
    <3> QED BY <3>8, <3>9, <3>10
  <2> QED BY <2>2, <2>3
<1> QED BY <1>3, <1>4

\* The pending rollback, then the next frame of every entity.
LEMMA RunFrameKeeps ==
    ASSUME PredictionInv, Prd!RunFrame
    PROVE  PredictionInv'
<1>0. /\ prdLast \in Nat /\ prdLast \in 0 .. MaxPredicted /\ prdClock \in Nat
      /\ RingCapacity \in Nat /\ RingCapacity > 0 /\ Prd!Frames = 1 .. MaxPredicted
      /\ prdLast <= prdClock /\ MaxPredicted \in Nat /\ prdPolicy \in Policies
      /\ prdStarted \in BOOLEAN
  BY FrameNumbers DEF PredictionInv, ClockOK
<1>1. PICK k \in Prd!Frames : k = prdClock + 1
  BY <1>0 DEF Prd!RunFrame
<1>2. PICK es : es = [e \in Predicted |-> Prd!PredictFrame(Prd!AppliedRollback[e], k)]
  OBVIOUS
<1>3. /\ prdEnt' = es /\ prdRollback' = 0 /\ prdClock' = k /\ prdLast' = k
      /\ prdStarted' = prdStarted /\ prdPolicy' = prdPolicy /\ prdStarted
  BY <1>1, <1>2 DEF Prd!RunFrame, Prd!NoFrame
<1>4. k \in Nat /\ prdLast < k /\ k \in 0 .. MaxPredicted
  BY <1>0, <1>1
\* The frames entities held before, and where they are afterwards.
<1>5. ASSUME NEW e \in Predicted, prdEnt[e].life = "alive"
      PROVE  /\ es[e] \in PredictedEntity /\ EntityOK(es[e], k) /\ es[e].life = "alive"
             /\ es[e].pend = 0 /\ es[e].joined = prdEnt[e].joined
             /\ \A g \in DOMAIN es[e].pred : Reached(prdEnt, k, g)
  <2>1. PICK r \in PredictedEntity :
             /\ r = Prd!AppliedRollback[e] /\ EntityOK(r, prdLast) /\ r.pend = 0
             /\ r.joined = prdEnt[e].joined
             /\ \A g \in DOMAIN r.pred : g \in DOMAIN prdEnt[e].pred \/ prdLast < g + RingCapacity
             /\ prdRollback = 0 => r = prdEnt[e]
    BY <1>5, RolledBack
  <2>2. r.joined \in Nat
    BY <2>1, EntityFields, FrameNumbers
  <2>3. \A g \in DOMAIN r.pred : Reached(prdEnt, prdLast, g)
    <3> SUFFICES ASSUME NEW g \in DOMAIN r.pred PROVE Reached(prdEnt, prdLast, g)
      OBVIOUS
    <3>1. CASE g \in DOMAIN prdEnt[e].pred
      BY <3>1 DEF PredictionInv, RollbackOK
    <3>2. CASE prdLast < g + RingCapacity
      BY <3>2 DEF Reached
    <3> QED BY <2>1, <3>1, <3>2
  <2>4. \A g \in DOMAIN r.pred : g <= r.joined \/ prdLast < g + RingCapacity
    BY <1>5, <2>1, <2>3 DEF Reached
  <2>5. \/ k = prdLast + 1
        \/ \A d \in Predicted : prdEnt[d].life = "alive" => prdLast <= prdEnt[d].joined
        \/ DOMAIN r.pred = {}
    BY <1>0, <1>1, <2>1 DEF PredictionInv, ClockOK
  <2>6. k = prdLast + 1 \/ prdLast <= r.joined \/ DOMAIN r.pred = {}
    BY <1>5, <2>1, <2>5
  <2>7. PICK t \in PredictedEntity :
             /\ t = Prd!PredictFrame(r, k) /\ EntityOK(t, k) /\ t.pend = 0 /\ t.joined = r.joined
             /\ \A g \in DOMAIN t.pred : g = k \/ (g \in DOMAIN r.pred /\ k # g + RingCapacity)
    <3>1. PICK l \in 0 .. MaxPredicted : l = prdLast
      BY <1>0
    <3>2. EntityOK(r, l) /\ r.pend = 0 /\ l < k /\ (k = l + 1 \/ l <= r.joined \/ DOMAIN r.pred = {})
      BY <1>4, <2>1, <2>6, <3>1
    <3>3. \A g \in DOMAIN r.pred : g <= r.joined \/ l < g + RingCapacity
      BY <2>4, <3>1
    <3> QED BY <3>2, <3>3, PredictIs
  <2>8. es[e] = t
    BY <1>2, <2>1, <2>7
  <2>9. \A g \in DOMAIN t.pred : Reached(prdEnt, k, g)
    <3> SUFFICES ASSUME NEW g \in DOMAIN t.pred, NEW d \in Predicted, prdEnt[d].life = "alive"
                 PROVE  g <= prdEnt[d].joined \/ k < g + RingCapacity
      BY DEF Reached
    <3>1. CASE g = k
      BY <1>0, <1>4, <3>1
    <3>2. CASE g # k
      <4>1. g \in DOMAIN r.pred /\ k # g + RingCapacity
        BY <2>7, <3>2
      <4>2. g \in 1 .. prdLast
        BY <2>1, <4>1 DEF EntityOK, RunOK
      <4>3. prdEnt[d].joined \in Nat
        BY <1>0, HeldFrames DEF PredictionInv
      <4>4. g <= prdEnt[d].joined \/ prdLast < g + RingCapacity
        BY <2>3, <4>1 DEF Reached
      <4>5. CASE k = prdLast + 1
        BY <1>0, <4>1, <4>2, <4>4, <4>5
      <4>6. CASE prdLast <= prdEnt[d].joined
        BY <1>0, <4>2, <4>3, <4>6
      <4> QED BY <2>5, <4>1, <4>5, <4>6
    <3> QED BY <3>1, <3>2
  <2>10. t.life = "alive"
    BY <2>7 DEF EntityOK
  <2> QED BY <2>1, <2>7, <2>8, <2>9, <2>10
<1>6. ASSUME NEW e \in Predicted, prdEnt[e].life # "alive"
      PROVE  es[e] = prdEnt[e] /\ es[e] \in PredictedEntity /\ Blank(es[e])
  <2>1. Prd!AppliedRollback[e] = prdEnt[e]
    BY <1>6 DEF Prd!AppliedRollback, Prd!Resimulated, Prd!Alive
  <2>2. es[e] = prdEnt[e]
    BY <1>2, <1>6, <2>1 DEF Prd!PredictFrame, Prd!Alive
  <2> QED BY <1>6, <2>2 DEF PredictionInv, EntitiesOK
<1>7. \A e \in Predicted : (es[e].life = "alive" <=> prdEnt[e].life = "alive") /\ es[e] \in PredictedEntity
  BY <1>5, <1>6
<1>8. es \in [Predicted -> PredictedEntity]
  BY <1>2, <1>7
<1>9. EntitiesOK(es, k)
  BY <1>5, <1>6, <1>7, <1>8 DEF EntitiesOK
<1>10. \A g : Reached(prdEnt, k, g) => Reached(es, k, g)
  BY <1>5, <1>7 DEF Reached
<1>11. \A e \in Predicted : \A g \in DOMAIN es[e].pred : Reached(es, k, g)
  BY <1>5, <1>6, <1>10 DEF Blank
<1>12. \A e \in Predicted : es[e].pend = 0
  BY <1>5, <1>6 DEF Blank
<1>13. RollbackOK(es, k, 0)
  BY <1>11, <1>12 DEF RollbackOK
<1>14. ClockOK(es, k, 0, k)
  BY <1>4 DEF ClockOK
<1>15. 0 \in 0 .. MaxPredicted
  BY <1>0
<1> QED BY <1>0, <1>3, <1>4, <1>9, <1>13, <1>14, <1>15 DEF PredictionInv

\* No entity is known.
LEMMA PredictionInvInit == Prd!Init => PredictionInv
<1> SUFFICES ASSUME Prd!Init PROVE PredictionInv
  OBVIOUS
<1>1. /\ prdPolicy \in Policies /\ prdClock = 0 /\ prdStarted = FALSE /\ prdLast = 0
      /\ prdRollback = 0 /\ prdEnt = [e \in Predicted |-> Prd!UnknownEntity]
  BY DEF Prd!Init, Prd!NoFrame
<1>2. Prd!UnknownEntity \in PredictedEntity
  BY EmptyRing, FrameNumbers DEF Prd!UnknownEntity, PredictedEntity, Prd!NoFrame
<1>3. PICK r \in PredictedEntity : r = Prd!UnknownEntity
  BY <1>2
<1>4. /\ r.life = "unknown" /\ r.pred = <<>> /\ r.base = <<>> /\ r.auth = 0 /\ r.pend = 0
      /\ r.served = {} /\ r.played = {} /\ r.confirmed = {} /\ r.settled = FALSE
      /\ r.sound = [f \in Prd!Frames |-> 0]
  BY <1>3 DEF Prd!UnknownEntity, Prd!NoFrame
<1>5. HeardAsPlayed(r)
  BY <1>4 DEF HeardAsPlayed
<1>6. Blank(r) /\ DOMAIN r.pred = {} /\ r.pend = 0 /\ r.life = "unknown"
  BY <1>4, <1>5, EmptyRing DEF Blank
<1>7. prdEnt = [e \in Predicted |-> r] /\ \A e \in Predicted : prdEnt[e] = r
  BY <1>1, <1>3
<1>8. EntitiesOK(prdEnt, 0) /\ RollbackOK(prdEnt, 0, 0) /\ ClockOK(prdEnt, 0, 0, 0)
  BY <1>3, <1>6, <1>7 DEF EntitiesOK, RollbackOK, ClockOK
<1>9. 0 \in 0 .. MaxPredicted
  BY FrameNumbers
<1> QED BY <1>1, <1>6, <1>7, <1>8, <1>9 DEF PredictionInv

\* Every step of the prediction keeps the invariant.
LEMMA PredictionInvStep ==
    ASSUME PredictionInv, Prd!Next
    PROVE  PredictionInv'
BY ReceiveKeeps, DestroyKeeps, RunFrameKeeps, SkipKeeps DEF Prd!Next

\* The invariant holds of every behaviour.
LEMMA PredictionInvAlways == MCSpec => []PredictionInv
<1>1. MCInit => PredictionInv
  BY PredictionInvInit DEF MCInit
<1>2. PredictionInv /\ [MCNext]_<<part, vars, prdVars, clockVars, lossVars>> => PredictionInv'
  <2>1. ASSUME PredictionInv, UNCHANGED prdVars PROVE PredictionInv'
    BY <2>1 DEF PredictionInv, prdVars
  <2> QED BY <2>1, PredictionInvStep DEF MCNext
<1> QED BY <1>1, <1>2, PTL DEF MCSpec

\* A correction outlives whatever is received, rolled back and predicted after it:
\* PredictionRuntime with rings of any capacity, any number of entities and either
\* rollback policy.
THEOREM CorrectionIsKept == MCSpec => []CorrectionHolds
<1>1. PredictionInv => CorrectionHolds
  <2> SUFFICES ASSUME PredictionInv, NEW e \in Predicted, prdEnt[e].life = "alive",
                      prdEnt[e].settled, prdEnt[e].pend = 0
               PROVE  Corrected(prdEnt[e], prdLast)
    BY DEF CorrectionHolds, Prd!CorrectionHolds, Prd!Alive, Prd!NoFrame, Corrected
  <2> QED BY DEF PredictionInv, EntitiesOK, EntityOK, SettledOK
<1> QED BY <1>1, PredictionInvAlways, PTL

\* What is heard is the prediction as it stands: every cue the server sent once,
\* and of the frames after its record the cues their latest simulation emitted.
THEOREM CuesAreThoseOfThePrediction == MCSpec => []CuesFollowPrediction
<1>1. PredictionInv => CuesFollowPrediction
  <2> SUFFICES ASSUME PredictionInv, NEW e \in Predicted, prdEnt[e].life = "alive"
               PROVE  LET s == prdEnt[e] IN
                      /\ \A f \in DOMAIN s.pred : f > s.auth /\ f > s.joined =>
                           s.sound[f] = IF Prd!EmitsCue(s.pred[f]) THEN 1 ELSE 0
                      /\ \A f \in s.served : s.sound[f] = 1
                      /\ s.settled /\ s.auth \notin s.served => s.sound[s.auth] = 0
    BY DEF CuesFollowPrediction, Prd!CuesFollowPrediction, Prd!Alive
  <2>1. PICK s \in PredictedEntity : s = prdEnt[e] /\ EntityOK(s, prdLast)
    BY DEF PredictionInv, EntitiesOK
  <2>2. /\ HeardAsPlayed(s) /\ CuesOK(s, prdLast) /\ SettledOK(s, prdLast)
        /\ DOMAIN s.pred \subseteq Prd!Frames /\ s.served \subseteq Prd!Frames
        /\ s.auth \in Nat /\ s.joined \in Nat /\ s.auth \in 0 .. MaxPredicted
    BY <2>1, EntityFields, RingFacts, FrameNumbers DEF EntityOK
  <2>3. ASSUME NEW f \in DOMAIN s.pred, f > s.auth, f > s.joined
        PROVE  s.sound[f] = IF Prd!EmitsCue(s.pred[f]) THEN 1 ELSE 0
    <3>1. f \in Prd!Frames /\ s.auth < f /\ s.joined < f
      BY <2>2, <2>3, FrameNumbers
    <3> QED BY <2>2, <2>3, <3>1 DEF HeardAsPlayed, CuesOK
  <2>4. \A f \in s.served : s.sound[f] = 1
    BY <2>2 DEF HeardAsPlayed, CuesOK
  <2>5. ASSUME s.settled, s.auth \notin s.served PROVE s.sound[s.auth] = 0
    <3>1. s.auth \in Prd!Frames /\ s.auth \notin s.played
      BY <2>2, <2>5, FrameNumbers DEF SettledOK, CuesOK
    <3> QED BY <2>2, <3>1 DEF HeardAsPlayed
  <2> QED BY <2>1, <2>3, <2>4, <2>5
<1> QED BY <1>1, PredictionInvAlways, PTL

================================================================================
