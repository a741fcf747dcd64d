------------------------------ MODULE MCJournal -------------------------------
(* Journal on small instances: one or two files, of which "a" has a copy in  *)
(* the cache and "b" has none; two clients; one or two transfer threads per  *)
(* type, as the transfer threads options of the command line allow.          *)
EXTENDS Journal, TLC

CONSTANTS c1, c2, backup1, writeback1, writeback2

TwoClients == {c1, c2}
OneClient == {c1}
TwoThreads == {backup1, writeback1}
TwoThreadsType == backup1 :> BACKUP @@ writeback1 :> WRITEBACK
ThreeThreads == {backup1, writeback1, writeback2}
ThreeThreadsType == backup1 :> BACKUP @@ writeback1 :> WRITEBACK @@ writeback2 :> WRITEBACK
Symmetry == Permutations(Clients)
================================================================================
