----------------------------- MODULE MCReplication -----------------------------
(* Symmetry for the model checker: values and entities are interchangeable. *)
EXTENDS Replication, TLC

ValueSymmetry == Permutations(Values)
EntityAndValueSymmetry == Permutations(Values) \cup Permutations(Entities)

================================================================================
