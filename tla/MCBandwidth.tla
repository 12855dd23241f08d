----------------------------- MODULE MCBandwidth -----------------------------
(* Instances of Bandwidth for TLC.                                             *)
EXTENDS Bandwidth, TLC

First == CHOOSE p \in Participants : TRUE

\* The first participant has two thirds of the budget; the second goes first.
Weights == [p \in Participants |-> IF p = First THEN 2 ELSE 1]
Urgencies == [p \in Participants |-> IF p = First THEN 0 ELSE 1]

\* A small record that matters and a large one that matters less.
Sizes == [e \in Entities |-> e]
\* The second participant does not see the second entity.
Priorities == [p \in Participants |->
                 [e \in Entities |-> IF e = 1 THEN 2 ELSE IF p = First THEN 1 ELSE 0]]
===============================================================================
