----------------------------- MODULE MCFileSource -----------------------------
(* FileSource on small instances.  Threads are model values and symmetric;   *)
(* descriptor numbers are the first ones a process hands out.                *)
EXTENDS FileSource, TLC

CONSTANTS t1, t2, t3

ThreeThreads == {t1, t2, t3}
TwoThreads == {t1, t2}
MCFDs == 3..5
Symmetry == Permutations(Threads)
===============================================================================
