----------------------------- MODULE MCConnection -----------------------------
(* Connection for TLC: the peers are interchangeable.                          *)
EXTENDS Connection, TLC

PeerSymmetry == Permutations(Peers)
===============================================================================
