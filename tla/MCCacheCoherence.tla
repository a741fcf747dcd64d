--------------------------- MODULE MCCacheCoherence ---------------------------
(* CacheCoherence on small instances: a file of two blocks, so that a copy   *)
(* is seen half done; two clients, symmetric; two or three inodes, so that a *)
(* descriptor may outlive the file it was opened on.                         *)
EXTENDS CacheCoherence, TLC

CONSTANTS c1, c2

TwoClients == {c1, c2}
OneClient == {c1}
Symmetry == Permutations(Clients)
================================================================================
