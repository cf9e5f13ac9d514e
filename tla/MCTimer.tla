------------------------------ MODULE MCTimer ------------------------------
(* Timer for TLC: events are interchangeable.                             *)
EXTENDS Timer, TLC

Symmetry == Permutations(Event)
=============================================================================
