--------------------------------- MODULE MCLocks ---------------------------------
(* Constants of the runs of Locks. *)
EXTENDS Locks, TLC

CONSTANTS c1, c2, c3

TwoClients == {c1, c2}
ThreeClients == {c1, c2, c3}
Symmetry == Permutations(Clients)
AllCalls == DOMAIN PathCalls

================================================================================
