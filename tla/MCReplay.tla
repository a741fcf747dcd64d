-------------------------------- MODULE MCReplay --------------------------------
(* Replay with two names at the top and one below each: a file in a directory, *)
(* or two files, to start from.                                                *)
EXTENDS Replay, TLC

CONSTANTS c1, c2, a, b, x, n1, n2

TwoClients == {c1, c2}
TwoNames == {a, b}
OneBelow == {<<a, x>>, <<b, x>>}
Alike == {<<a, b>>}
NoPrefix == {}
TwoNodes == {n1, n2}
Namespace(f) == [p \in Paths |-> IF p \in DOMAIN f THEN f[p] ELSE Empty]
TwoStarts == {Namespace((<<a>> :> Dir) @@ (<<a, x>> :> File(n1))),
              Namespace((<<a>> :> File(n1)) @@ (<<b>> :> File(n2)))}
Symmetry == Permutations(TwoClients)
================================================================================
