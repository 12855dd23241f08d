------------------------------ MODULE UpdateRecord ------------------------------
(***************************************************************************)
(* Upsert records: how the server writes the state of one entity for one   *)
(* client (UpdateWriter::write_entity_record) and how the client decodes   *)
(* it (ClientUpdateRuntime::decode_*_upsert_record_payload).               *)
(*                                                                         *)
(* A component's quantized bytes are a member of Values.  A component that *)
(* is not in a frame's present_mask has the value Absent.  The delta       *)
(* serializers encode a component against its previous bytes, so decoding  *)
(* against other previous bytes produces bytes nobody wrote: Garbage.      *)
(***************************************************************************)
EXTENDS Naturals

CONSTANTS Components,   \* components of the archetype (tags are never masked)
          Values,       \* quantized values of one component
          Absent,       \* a component outside a frame's present_mask
          Garbage       \* a delta decoded against the wrong previous bytes

ASSUME ValueAssumption ==
    /\ Absent \notin Values
    /\ Garbage \notin Values
    /\ Absent # Garbage

Frames == Nat                  \* SyncFrame; 0 stands for "no frame"
NoFrame == 0

\* QuantizedFrameData as the server captures it, and as a client may hold it.
ServerData == [Components -> Values \cup {Absent}]
ClientData == [Components -> Values \cup {Absent, Garbage}]

NoData == [c \in Components |-> Absent]

Present(data) == {c \in Components : data[c] # Absent}

\* A quantized frame kept as a baseline on either side; frame NoFrame = none.
NoBaseline == [frame |-> NoFrame, data |-> NoData]

(***************************************************************************)
(* The records.  prev and cur are the quantized frames the record was      *)
(* written from; only the components in ChangedMask (delta) or in          *)
(* PresentSlots (full) are on the wire.  base is the baseline frame number *)
(* of a delta record.                                                      *)
(***************************************************************************)
Record == [full : BOOLEAN,
           base : Frames,
           prev : ServerData,
           cur  : ServerData,
           mask : SUBSET Components]

\* A delta needs a live baseline with the same present_mask.
CanDelta(baseline, cur) ==
    /\ baseline.frame # NoFrame
    /\ Present(baseline.data) = Present(cur)

WriteEntityRecord(baseline, cur, mask) ==
    IF CanDelta(baseline, cur)
    THEN [full |-> FALSE, base |-> baseline.frame,
          prev |-> baseline.data, cur |-> cur, mask |-> mask]
    ELSE [full |-> TRUE, base |-> NoFrame,
          prev |-> NoData, cur |-> cur, mask |-> mask]

PresentSlots(rec) == rec.mask \cap Present(rec.cur)

ChangedMask(rec) == {c \in PresentSlots(rec) : rec.cur[c] # rec.prev[c]}

DecodeFull(rec) ==
    [c \in Components |-> IF c \in PresentSlots(rec) THEN rec.cur[c] ELSE Absent]

\* deserialize() of a changed component: right only over the bytes it was
\* serialized against.
DecodeComponent(rec, c, previous) ==
    IF previous = rec.prev[c] THEN rec.cur[c] ELSE Garbage

\* Every changed component needs storage in the client's previous baseline.
DeltaStorageFound(rec, previous) == ChangedMask(rec) \subseteq Present(previous)

DecodeDelta(rec, previous) ==
    [c \in Components |->
        IF c \in ChangedMask(rec)
        THEN DecodeComponent(rec, c, previous[c])
        ELSE previous[c]]

================================================================================
