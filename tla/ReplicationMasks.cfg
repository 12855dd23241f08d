SPECIFICATION MCSpec
CONSTANTS
    Components = {a, b}
    Values = {v1, v2}
    Absent = Absent
    Garbage = Garbage
    Entities = {e1}
    Retention = 2
    MaxPacketId = 3
    MaxPendingAcks = 2
    MaxRecords = 1
    MaxStepsPerTick = 2
    MayRefuse = TRUE
    MayHide = TRUE
    MaxFrame = 3
    Masks = {{a}, {b}, {a, b}}
INVARIANT DecodedExactly
INVARIANT BaselineAgreement
INVARIANT RoundTrip
PROPERTY BaselineNeverRegresses
SYMMETRY ValueSymmetry
\* The server stops at frame MaxFrame.
CHECK_DEADLOCK FALSE
