------------------------------ MODULE MCReplay ------------------------------
(* The recording of server frames and their playback, for TLC.                 *)
EXTENDS Replay

\* An archetype with one component and one with none: a slot given from the first to
\* the second has a component too many when the entity is not made anew.
TwoArchetypes == [a \in Archetypes |-> IF a = "a" THEN {"x"} ELSE {}]
=============================================================================
