--------------------------- MODULE MCEntityLifecycle ---------------------------
(* Entities on both sides, for TLC: their ids and lives between the server and  *)
(* a client (EntityLifecycle), and the tables of the client (EntityStore). They *)
(* share no state here: a behaviour is one of the two (part), and the other     *)
(* stays in its initial state. Entities and wire ids are interchangeable.       *)
EXTENDS EntityLifecycle, TLC

CONSTANTS
    Wires,          \* wire ids of the client's tables
    NoWire,         \* not a wire id
    Modes,          \* modes of an entity
    MaxSlots,       \* bound: slots of the client's table
    MaxLocals,      \* bound: entities of the client's registry
    StoreFrames,    \* bound: server frames the table sees
    MaxDestroys,    \* bound: destroy records that leave a tombstone
    MaxTombstones,  \* max_destroy_tombstones
    CompactAt       \* consumed ages before they are dropped

ASSUME StoreAssumption == MaxTombstones \in Nat \ {0} /\ CompactAt \in Nat

VARIABLES
    part,     \* whose behaviour this is: "lifecycle" or "store"
    store, tombs, locals, applied, order

Str == INSTANCE EntityStore WITH MaxFrame <- StoreFrames

storeVars == <<store, tombs, locals, applied, order>>

EntitySymmetry == Permutations(Entities) \cup Permutations(Wires)

MCInit == part \in {"lifecycle", "store"} /\ Init /\ Str!Init

MCNext ==
    \/ part = "lifecycle" /\ Next /\ UNCHANGED <<part, storeVars>>
    \/ part = "store" /\ Str!Next /\ UNCHANGED <<part, vars>>

MCSpec == MCInit /\ [][MCNext]_<<part, vars, storeVars>>

\* Slots, maps and lists of the client agree (StoreConsistent of EntityStore).
StoreConsistent == part = "store" => Str!StoreConsistent

\* Only the oldest tombstone is given up (OldestTombstoneEvicted of EntityStore).
OldestTombstoneEvicted == part = "store" => Str!OldestTombstoneEvicted

================================================================================
