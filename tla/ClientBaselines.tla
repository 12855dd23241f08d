---------------------------- MODULE ClientBaselines ----------------------------
(***************************************************************************)
(* What the client keeps for one replicated entity in Snap mode, and what  *)
(* applying one upsert record does to it: the current authoritative state, *)
(* the ring of the last Retention baselines indexed by frame number, and   *)
(* the one baseline pinned because the server still refers to it.          *)
(***************************************************************************)
EXTENDS UpdateRecord

CONSTANT Retention    \* baseline_retention_count, 64 in the source

ASSUME RetentionAssumption == Retention \in Nat \ {0}

Baseline == [frame : Frames, data : ClientData]

\* EntityState::replication; frame NoFrame = no state for the entity yet.
ClientEntity ==
    [frame   : Frames,
     data    : ClientData,
     history : [0 .. Retention - 1 -> Baseline],
     pinned  : Baseline,
     ref     : Frames]

NewClientEntity ==
    [frame   |-> NoFrame,
     data    |-> NoData,
     history |-> [i \in 0 .. Retention - 1 |-> NoBaseline],
     pinned  |-> NoBaseline,
     ref     |-> NoFrame]

RingSlot(frame) == frame % Retention

\* Every baseline the client could decode a delta against.
StoredBaselines(state) ==
    {b \in {state.history[i] : i \in 0 .. Retention - 1} \cup {state.pinned} :
        b.frame # NoFrame}

HasBaseline(state, frame) ==
    frame \in {state.history[RingSlot(frame)].frame, state.pinned.frame}

FindBaseline(state, frame) ==
    IF state.history[RingSlot(frame)].frame = frame
    THEN state.history[RingSlot(frame)].data
    ELSE state.pinned.data

\* read_upsert_metadata and decode_upsert_record: the early returns.
RecordApplies(state, frame, rec) ==
    /\ frame > state.frame
    /\ rec.full \/ /\ state.frame # NoFrame
                   /\ HasBaseline(state, rec.base)
                   /\ DeltaStorageFound(rec, FindBaseline(state, rec.base))

DecodeRecord(state, rec) ==
    IF rec.full THEN DecodeFull(rec)
                ELSE DecodeDelta(rec, FindBaseline(state, rec.base))

\* protect_referenced_baseline runs before the record is applied.
ProtectReferencedBaseline(state, rec) ==
    IF rec.full THEN state ELSE [state EXCEPT !.ref = rec.base]

\* remember_baseline: the evicted slot moves to the pin if it is referenced.
RememberBaseline(state, frame, data) ==
    LET slot    == RingSlot(frame)
        evicted == state.history[slot]
        pins    == state.ref # NoFrame /\ evicted.frame = state.ref
    IN  [state EXCEPT !.frame   = frame,
                      !.data    = data,
                      !.history = [@ EXCEPT ![slot] = [frame |-> frame, data |-> data]],
                      !.pinned  = IF pins THEN evicted ELSE @]

ApplyUpsert(state, frame, rec) ==
    RememberBaseline(ProtectReferencedBaseline(state, rec), frame, DecodeRecord(state, rec))

================================================================================
