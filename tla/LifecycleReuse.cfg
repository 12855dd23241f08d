SPECIFICATION MCSpec
CONSTANTS
    Entities = {e1, e2}
    MaxNetworkId = 2
    MaxPendingAcks = 2
    MayRestart = FALSE
    MaxFrame = 4
    Wires = {w1, w2}
    NoWire = NoWire
    Modes = {"Snap", "Buffered", "Predict"}
    MaxSlots = 2
    MaxLocals = 2
    StoreFrames = 2
    MaxDestroys = 3
    MaxTombstones = 1
    CompactAt = 1

SYMMETRY EntitySymmetry
\* The server stops at frame MaxFrame.
CHECK_DEADLOCK FALSE
INVARIANT IdsPartitioned
INVARIANT NeverAliased
INVARIANT NoOrphan
INVARIANT NoResurrection
INVARIANT StoreConsistent
INVARIANT OldestTombstoneEvicted
