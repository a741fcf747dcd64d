------------------------------ MODULE MCTimeslice ------------------------------
(* Timeslice on small instances: the ring needs three slices to have one that *)
(* is neither the current nor the next to fall off.                           *)
EXTENDS Timeslice, TLC

CONSTANTS c1, c2, f1, f2, f3

TwoClients == {c1, c2}
ThreeFiles == {f1, f2, f3}
Symmetry == Permutations(Clients) \cup Permutations(Files)
================================================================================
