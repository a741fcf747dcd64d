------------------------------- MODULE ReplayRuns -------------------------------
(***************************************************************************)
(* What the proofs about Replay need of its namespaces: paths, the changes  *)
(* of one, a list of them replayed in order, and several that are under way *)
(* together.                                                                *)
(***************************************************************************)
EXTENDS Replay, FiniteSetTheorems, NaturalsInduction, SequenceTheorems, WellFoundedInduction, TLAPS

-----------------------------------------------------------------------------
(* Paths *)

Atoms == Names \cup {p[2] : p \in Depth2}

LEMMA TopForm ==
  ASSUME NEW n \in Names
  PROVE  /\ <<n>> \in Paths /\ <<n>> \in Seq(Atoms) /\ Len(<<n>>) = 1 /\ <<n>>[1] = n
<1>1. n \in Atoms
  BY DEF Atoms
<1>2. <<n>> \in Seq(Atoms) /\ Len(<<n>>) = 1 /\ <<n>>[1] = n
  BY <1>1
<1>3. <<n>> \in Paths
  BY Zenon DEF Paths
<1> QED BY <1>2, <1>3

LEMMA PairForm ==
  ASSUME NEW S, NEW a \in S, NEW b \in S
  PROVE  <<a, b>> \in Seq(S) /\ Len(<<a, b>>) = 2 /\ <<a, b>>[1] = a /\ <<a, b>>[2] = b
  OBVIOUS

LEMMA PathForms ==
  ASSUME NEW p \in Paths
  PROVE  /\ p \in Seq(Atoms) /\ Len(p) \in {1, 2} /\ p[1] \in Names
         /\ \A i \in 1..Len(p) : p[i] \in Atoms
<1>1. CASE p \in {<<n>> : n \in Names}
  <2>1. PICK n \in Names : p = <<n>>
    BY <1>1
  <2>2. p \in Seq(Atoms) /\ Len(p) = 1 /\ p[1] \in Names
    BY <2>1, TopForm
  <2> QED BY <2>2, ElementOfSeq
<1>2. CASE p \in Depth2
  <2>1. Len(p) = 2 /\ p = <<p[1], p[2]>> /\ p[1] \in Names
    BY <1>2, PathsAssumption
  <2>2. p[1] \in Atoms /\ p[2] \in Atoms
    BY <1>2, <2>1, Zenon DEF Atoms
  <2>3. p \in Seq(Atoms)
    BY <2>1, <2>2, PairForm, Zenon
  <2> QED BY <2>1, <2>3, ElementOfSeq
<1> QED BY <1>1, <1>2 DEF Paths

LEMMA SamePath ==
  ASSUME NEW p \in Seq(Atoms), NEW q \in Seq(Atoms), Len(p) = Len(q), p[1] = q[1],
         Len(p) = 1 \/ (Len(p) = 2 /\ p[2] = q[2])
  PROVE  p = q
<1>1. \A i \in 1..Len(p) : p[i] = q[i]
  OBVIOUS
<1> QED BY <1>1, SeqEqual

LEMMA BelowForms ==
  ASSUME NEW p \in Paths, NEW q \in Paths
  PROVE  Below(p, q) <=> p = q \/ (Len(p) = 1 /\ Len(q) = 2 /\ p[1] = q[1])
<1>0. p \in Seq(Atoms) /\ q \in Seq(Atoms) /\ Len(p) \in {1, 2} /\ Len(q) \in {1, 2}
  BY PathForms
<1>1. ASSUME Len(p) <= Len(q)
      PROVE  /\ SubSeq(p, 1, Len(p)) = p
             /\ SubSeq(q, 1, Len(p)) \in Seq(Atoms) /\ Len(SubSeq(q, 1, Len(p))) = Len(p)
             /\ \A i \in 1..Len(p) : SubSeq(q, 1, Len(p))[i] = q[i]
  <2>1. \A i \in 1..Len(p) : q[i] \in Atoms
    BY <1>1, PathForms
  <2> QED BY <1>0, <2>1, SubSeqProperties, SubSeqFull
<1>2. ASSUME Len(p) <= Len(q)
      PROVE  SubSeq(p, 1, Len(p)) = SubSeq(q, 1, Len(p)) <=> \A i \in 1..Len(p) : p[i] = q[i]
  BY <1>0, <1>1, <1>2, SeqEqual
<1>3. Below(p, q) <=> Len(p) <= Len(q) /\ \A i \in 1..Len(p) : p[i] = q[i]
  BY <1>2 DEF Below, IsPrefix
<1>4. CASE Len(p) = Len(q)
  BY <1>0, <1>3, <1>4, SeqEqual
<1>5. CASE Len(p) = 1 /\ Len(q) = 2
  BY <1>3, <1>5
<1>6. CASE Len(p) = 2 /\ Len(q) = 1
  BY <1>3, <1>6
<1> QED BY <1>0, <1>4, <1>5, <1>6

LEMMA UpForm ==
  ASSUME NEW p \in Paths, Len(p) = 2
  PROVE  Up(p) \in Paths /\ Len(Up(p)) = 1 /\ Up(p)[1] = p[1]
<1>1. p \in Seq(Atoms) /\ p[1] \in Names /\ \A i \in 1..1 : p[i] \in Atoms
  BY PathForms
<1>2. SubSeq(p, 1, 1) \in Seq(Atoms) /\ Len(SubSeq(p, 1, 1)) = 1 /\ SubSeq(p, 1, 1)[1] = p[1]
  BY <1>1, SubSeqProperties
<1>3. SubSeq(p, 1, 1) = <<p[1]>>
  BY <1>1, <1>2, TopForm, SamePath
<1>4. Up(p) = SubSeq(p, 1, 1)
  BY DEF Up, Front
<1> QED BY <1>1, <1>2, <1>3, <1>4, TopForm

LEMMA MovedForms ==
  ASSUME NEW p \in Paths, NEW q \in Paths, NEW t \in Paths, Below(p, q)
  PROVE  IF q = p THEN Moved(q, p, t) = t
         ELSE /\ Len(q) = 2 /\ Len(p) = 1 /\ p[1] = q[1]
              /\ Moved(q, p, t) \in Seq(Atoms) /\ Len(Moved(q, p, t)) = Len(t) + 1
              /\ Moved(q, p, t)[1] = t[1]
              /\ Len(t) = 1 => Moved(q, p, t)[2] = q[2]
<1>0. t \in Seq(Atoms) /\ q \in Seq(Atoms) /\ p \in Seq(Atoms) /\ Len(t) \in {1, 2} /\ Len(q) \in {1, 2}
  BY PathForms
<1>1. CASE q = p
  <2>1. SubSeq(q, Len(q) + 1, Len(q)) = << >>
    BY <1>0, SubSeqEmpty
  <2> QED BY <1>0, <1>1, <2>1, ConcatEmptySeq DEF Moved
<1>2. CASE q # p
  <2>1. Len(q) = 2 /\ Len(p) = 1 /\ p[1] = q[1] /\ \A i \in 2..2 : q[i] \in Atoms
    BY <1>2, BelowForms, PathForms
  <2> DEFINE b == SubSeq(q, 2, 2)
             m == t \o b
  <2>2. b \in Seq(Atoms) /\ Len(b) = 1 /\ b[1] = q[2]
    BY <1>0, <2>1, SubSeqProperties
  <2>3. Moved(q, p, t) = m
    BY <2>1 DEF Moved
  <2> HIDE DEF b
  <2>4. m \in Seq(Atoms) /\ Len(m) = Len(t) + 1 /\ \A i \in 1..Len(t) + 1 : m[i] = IF i <= Len(t) THEN t[i] ELSE b[i - Len(t)]
    BY <1>0, <2>2, ConcatProperties
  <2> HIDE DEF m
  <2> QED BY <1>0, <1>2, <2>1, <2>2, <2>3, <2>4
<1> QED BY <1>1, <1>2
(* The paths below a path are a tree. *)
LEMMA Tree ==
  /\ \A p \in Paths : Below(p, p)
  /\ \A p, q, r \in Paths : Below(p, q) /\ Below(q, r) => Below(p, r)
  /\ \A p, q, r \in Paths : Below(p, r) /\ Below(q, r) => Below(p, q) \/ Below(q, p)
  /\ \A p, q \in Paths : Below(p, q) /\ Below(q, p) => p = q
<1> DEFINE B(p, q) == p = q \/ (Len(p) = 1 /\ Len(q) = 2 /\ p[1] = q[1])
<1>1. \A p, q \in Paths : Below(p, q) <=> B(p, q)
  BY BelowForms
<1>2. \A p, q \in Paths : Len(p) = 1 /\ Len(q) = 1 /\ p[1] = q[1] => p = q
  BY PathForms, SamePath
<1>3. \A p \in Paths : Len(p) \in {1, 2}
  BY PathForms
<1> QED BY <1>1, <1>2, <1>3

LEMMA Parents ==
  ASSUME NEW p \in Paths
  PROVE  /\ Len(p) > 1 => Up(p) \in Paths /\ Below(Up(p), p) /\ Up(p) # p
         /\ \A q \in Paths : Below(q, p) /\ q # p => Len(p) > 1 /\ q = Up(p)
<1>1. Len(p) \in {1, 2}
  BY PathForms
<1>2. ASSUME Len(p) > 1 PROVE Up(p) \in Paths /\ Below(Up(p), p) /\ Up(p) # p
  <2>1. Len(p) = 2 /\ Up(p) \in Paths /\ Len(Up(p)) = 1 /\ Up(p)[1] = p[1]
    BY <1>1, <1>2, UpForm
  <2> QED BY <2>1, BelowForms
<1>3. ASSUME NEW q \in Paths, Below(q, p), q # p PROVE Len(p) > 1 /\ q = Up(p)
  <2>1. Len(q) = 1 /\ Len(p) = 2 /\ q[1] = p[1]
    BY <1>3, BelowForms
  <2>2. Up(p) \in Paths /\ Len(Up(p)) = 1 /\ Up(p)[1] = p[1]
    BY <2>1, UpForm
  <2>3. q = Up(p)
    BY <2>1, <2>2, PathForms, SamePath
  <2> QED BY <2>1, <2>2, <2>3, BelowForms
<1> QED BY <1>2, <1>3

(* A path below p, moved below t, and back *)
LEMMA MovedPath ==
  ASSUME NEW p \in Paths, NEW t \in Paths, NEW q \in Paths, Below(p, q)
  PROVE  /\ Moved(p, p, t) = t
         /\ Moved(q, p, t) \in Paths =>
              /\ Below(t, Moved(q, p, t))
              /\ Moved(Moved(q, p, t), t, p) = q
              /\ q = p <=> Moved(q, p, t) = t
              /\ q # p => Up(q) = p /\ Up(Moved(q, p, t)) = t
<1>1. Moved(p, p, t) = t /\ Moved(t, t, p) = p
  BY Tree, MovedForms
<1>2. ASSUME q # p, Moved(q, p, t) \in Paths
      PROVE  /\ Below(t, Moved(q, p, t)) /\ Moved(Moved(q, p, t), t, p) = q /\ Moved(q, p, t) # t
             /\ Up(q) = p /\ Up(Moved(q, p, t)) = t
  <2> DEFINE m == Moved(q, p, t)
  <2>1. Len(q) = 2 /\ Len(p) = 1 /\ p[1] = q[1] /\ Len(m) = Len(t) + 1 /\ m[1] = t[1] /\ (Len(t) = 1 => m[2] = q[2])
    BY <1>2, MovedForms
  <2>2. Len(t) = 1 /\ Len(m) = 2 /\ m[2] = q[2]
    BY <1>2, <2>1, PathForms
  <2>3. m \in Paths
    BY <1>2
  <2> HIDE DEF m
  <2>4. Below(t, m) /\ m # t
    BY <2>1, <2>2, <2>3, BelowForms
  <2>5. Up(q) = p /\ Up(m) = t
    <3>1. Len(Up(q)) = 1 /\ Up(q)[1] = q[1] /\ Len(Up(m)) = 1 /\ Up(m)[1] = m[1] /\ Up(q) \in Paths /\ Up(m) \in Paths
      BY <2>1, <2>2, <2>3, UpForm
    <3> QED BY <2>1, <2>2, <3>1, PathForms, SamePath
  <2>6. Moved(m, t, p) = q
    <3>1. /\ Moved(m, t, p) \in Seq(Atoms) /\ Len(Moved(m, t, p)) = 2 /\ Moved(m, t, p)[1] = p[1]
          /\ Moved(m, t, p)[2] = m[2]
      <4>1. /\ Moved(m, t, p) \in Seq(Atoms) /\ Len(Moved(m, t, p)) = Len(p) + 1 /\ Moved(m, t, p)[1] = p[1]
            /\ Len(p) = 1 => Moved(m, t, p)[2] = m[2]
        BY <2>3, <2>4, MovedForms
      <4> QED BY <2>1, <4>1
    <3> QED BY <2>1, <2>2, <3>1, PathForms, SamePath
  <2> QED BY <2>4, <2>5, <2>6 DEF m
<1>3. CASE q = p
  BY <1>1, <1>3, Tree
<1> QED BY <1>1, <1>2, <1>3
-----------------------------------------------------------------------------
(* Changes of a namespace *)

(* The entries of the journal *)
Proper(e) ==
  \/ e.op = "mknod" /\ e.path \in Paths /\ e.node \in Nodes
  \/ e.op \in {"mkdir", "unlink", "rmdir"} /\ e.path \in Paths
  \/ e.op = "rename" /\ e.path \in Paths /\ e.to \in Paths
  \/ e.op = "fsync"
Ents == {e \in [op : {"mknod", "mkdir", "unlink", "rmdir", "rename", "fsync"}, path : Paths \cup {LOST},
                to : Paths \cup {LOST}, node : Nodes \cup {NONE, DIR}] : Proper(e)}
Updates == {e \in Ents : IsUpdate(e)}

(* The paths a change is about, and those that say whether it can be made *)
Changed(e) == {r \in Paths : \E q \in Touched(e) : Below(q, r)}
Reads(e) == Changed(e) \cup {r \in Paths : \E q \in Touched(e) : Len(q) > 1 /\ r = Up(q)}

LEMMA EntForms ==
  ASSUME NEW e \in Updates
  PROVE  /\ e.path \in Paths /\ e.path \in Touched(e) /\ Touched(e) \subseteq Paths
         /\ e.op \in {"mknod", "mkdir", "unlink", "rmdir", "rename"}
         /\ e.op = "mknod" => e.node \in Nodes
         /\ e.op = "rename" => e.to \in Paths /\ Touched(e) = {e.path, e.to}
         /\ e.op # "rename" => Touched(e) = {e.path}
  BY DEF Updates, Ents, Proper, IsUpdate, Touched

LEMMA NodeForms ==
  /\ Empty \in Entries /\ Dir \in Entries /\ \A n \in Nodes : File(n) \in Entries
  /\ Empty.node = NONE /\ Dir.node = DIR /\ \A n \in Nodes : File(n).node = n
  /\ Empty.ver = 0 /\ Dir.ver = 0 /\ \A n \in Nodes : File(n).ver = 0
  /\ ~IsFile(Empty) /\ ~IsFile(Dir) /\ \A n \in Nodes : IsFile(File(n))
  BY NodesAssumption, BoundsAssumption DEF Empty, Dir, File, Entries, IsFile

LEMMA MoveForms ==
  ASSUME NEW ns \in Namespaces, NEW p \in Paths, NEW t \in Paths
  PROVE  /\ Move(ns, p, t) \in Namespaces
         /\ \A q \in Paths :
              /\ Below(t, q) /\ Moved(q, t, p) \in Paths => Move(ns, p, t)[q] = ns[Moved(q, t, p)]
              /\ Below(t, q) /\ Moved(q, t, p) \notin Paths => Move(ns, p, t)[q] = Empty
              /\ Below(p, q) /\ ~Below(t, q) => Move(ns, p, t)[q] = Empty
              /\ ~Below(p, q) /\ ~Below(t, q) => Move(ns, p, t)[q] = ns[q]
<1>1. \A q \in Paths : ns[q] \in Entries
  BY DEF Namespaces
<1> QED BY <1>1, NodeForms DEF Move, Namespaces

LEMMA MoveAway ==
  ASSUME NEW ns \in Namespaces, NEW p \in Paths, NEW t \in Paths, NEW q \in Paths,
         Below(p, q) \/ Below(t, q), Below(t, q) => Moved(q, t, p) \notin Paths
  PROVE  Move(ns, p, t)[q] = Empty
  BY MoveForms

LEMMA MoveIn ==
  ASSUME NEW ns \in Namespaces, NEW p \in Paths, NEW t \in Paths, NEW q \in Paths,
         Below(t, q), Moved(q, t, p) \in Paths
  PROVE  Move(ns, p, t)[q] = ns[Moved(q, t, p)]
  BY MoveForms

LEMMA MoveOut ==
  ASSUME NEW ns \in Namespaces, NEW p \in Paths, NEW t \in Paths, NEW q \in Paths,
         ~Below(p, q), ~Below(t, q)
  PROVE  Move(ns, p, t)[q] = ns[q]
  BY MoveForms

LEMMA MoveGone ==
  ASSUME NEW ns \in Namespaces, NEW p \in Paths, NEW t \in Paths, NEW q \in Paths,
         Below(p, q) \/ Below(t, q), ~(Below(t, q) /\ Moved(q, t, p) \in Paths)
  PROVE  Move(ns, p, t)[q] = Empty
  BY MoveForms

LEMMA DoForms ==
  ASSUME NEW ns \in Namespaces, NEW e \in Updates
  PROVE  /\ e.op = "mknod" => Do(ns, e) = [ns EXCEPT ![e.path] = File(e.node)]
         /\ e.op = "mkdir" => Do(ns, e) = [ns EXCEPT ![e.path] = Dir]
         /\ e.op \in {"unlink", "rmdir"} => Do(ns, e) = [ns EXCEPT ![e.path] = Empty]
         /\ e.op = "rename" => Do(ns, e) = Move(ns, e.path, e.to)
         /\ Do(ns, e) \in Namespaces
         /\ \A r \in Paths \ Changed(e) : Do(ns, e)[r] = ns[r]
<1>1. /\ e.op = "mknod" => Do(ns, e) = [ns EXCEPT ![e.path] = File(e.node)]
      /\ e.op = "mkdir" => Do(ns, e) = [ns EXCEPT ![e.path] = Dir]
      /\ e.op \in {"unlink", "rmdir"} => Do(ns, e) = [ns EXCEPT ![e.path] = Empty]
      /\ e.op = "rename" => Do(ns, e) = Move(ns, e.path, e.to)
  BY DEF Do
<1>2. Do(ns, e) \in Namespaces
  BY <1>1, EntForms, MoveForms, NodeForms DEF Namespaces
<1>3. ASSUME NEW r \in Paths \ Changed(e) PROVE Do(ns, e)[r] = ns[r]
  <2>1. \A q \in Touched(e) : ~Below(q, r)
    BY DEF Changed
  <2>2. CASE e.op = "rename"
    <3>1. e.path \in Paths /\ e.to \in Paths /\ ~Below(e.path, r) /\ ~Below(e.to, r)
      BY <2>1, <2>2, EntForms
    <3>2. Move(ns, e.path, e.to)[r] = ns[r]
      BY <3>1, MoveOut
    <3> QED BY <1>1, <2>2, <3>2
  <2>3. CASE e.op # "rename"
    <3>1. e.path # r
      BY <2>1, EntForms, Tree
    <3> QED BY <1>1, <2>3, <3>1, EntForms DEF Namespaces
  <2> QED BY <2>2, <2>3
<1> QED BY <1>1, <1>2, <1>3

LEMMA PossibleForms ==
  ASSUME NEW ns, NEW e \in Updates
  PROVE  /\ e.op \in {"mknod", "mkdir"} => (Possible(ns, e) <=> ns[e.path].node = NONE /\ HasParent(ns, e.path))
         /\ e.op = "unlink" => (Possible(ns, e) <=> IsFile(ns[e.path]))
         /\ e.op = "rmdir" => (Possible(ns, e) <=> ns[e.path].node = DIR /\ IsEmptyDir(ns, e.path))
         /\ e.op = "rename" =>
             (Possible(ns, e) <=> /\ ns[e.path].node # NONE /\ ns[e.to].node = NONE
                                  /\ HasParent(ns, e.to) /\ ~Below(e.path, e.to)
                                  /\ \A q \in Paths : Below(e.path, q) /\ ns[q].node # NONE
                                                        => Moved(q, e.path, e.to) \in Paths)
  BY Zenon DEF Possible
-----------------------------------------------------------------------------
(* A change depends on the names it reads, and on what it changes. *)

Agree(ns, ms, S) == \A r \in S : ns[r].node = ms[r].node

LEMMA ReadsForms ==
  ASSUME NEW e \in Updates
  PROVE  /\ Changed(e) \subseteq Reads(e) /\ Reads(e) \subseteq Paths
         /\ e.path \in Changed(e)
         /\ \A r \in Paths : Below(e.path, r) => r \in Changed(e)
         /\ Len(e.path) > 1 => Up(e.path) \in Reads(e)
         /\ e.op = "rename" => /\ e.to \in Changed(e)
                               /\ Len(e.to) > 1 => Up(e.to) \in Reads(e)
                               /\ \A r \in Paths : Below(e.to, r) => r \in Changed(e)
<1>1. /\ e.path \in Paths /\ e.path \in Touched(e) /\ Touched(e) \subseteq Paths
      /\ e.op = "rename" => e.to \in Paths /\ e.to \in Touched(e)
  BY EntForms
<1>2. \A q \in Touched(e) : /\ q \in Changed(e)
                            /\ \A r \in Paths : Below(q, r) => r \in Changed(e)
                            /\ Len(q) > 1 => Up(q) \in Reads(e)
  BY <1>1, Tree, Parents DEF Changed, Reads
<1>3. Changed(e) \subseteq Reads(e) /\ Reads(e) \subseteq Paths
  BY DEF Changed, Reads
<1> QED BY <1>1, <1>2, <1>3

LEMMA PossibleLocal ==
  ASSUME NEW ns, NEW ms, NEW e \in Updates, Agree(ns, ms, Reads(e)), Possible(ns, e)
  PROVE  Possible(ms, e)
<1>1. \A r \in Reads(e) : ns[r].node = ms[r].node
  BY DEF Agree
<1>2. ns[e.path].node = ms[e.path].node
  BY <1>1, ReadsForms
<1>3. HasParent(ns, e.path) => HasParent(ms, e.path)
  BY <1>1, ReadsForms DEF HasParent
<1>4. \A q \in Paths : Below(e.path, q) => ns[q].node = ms[q].node
  BY <1>1, ReadsForms
<1>5. e.op \in {"mknod", "mkdir", "unlink", "rmdir", "rename"}
  BY EntForms
<1>6. CASE e.op \in {"mknod", "mkdir"}
  BY <1>2, <1>3, <1>6, PossibleForms
<1>7. CASE e.op = "unlink"
  BY <1>2, <1>7, PossibleForms DEF IsFile
<1>8. CASE e.op = "rmdir"
  BY <1>2, <1>4, <1>8, PossibleForms DEF IsEmptyDir
<1>9. CASE e.op = "rename"
  <2>1. ns[e.to].node = ms[e.to].node
    BY <1>1, <1>9, ReadsForms
  <2>2. HasParent(ns, e.to) => HasParent(ms, e.to)
    BY <1>1, <1>9, ReadsForms DEF HasParent
  <2> QED BY <1>2, <1>4, <1>9, <2>1, <2>2, PossibleForms
<1> QED BY <1>5, <1>6, <1>7, <1>8, <1>9

(* What a change makes of a path: what is new there, or what was at another path
   it changes *)
LEMMA DoLocal ==
  ASSUME NEW ns \in Namespaces, NEW ms \in Namespaces, NEW e \in Updates, NEW p \in Changed(e)
  PROVE  \/ Do(ns, e)[p] = Do(ms, e)[p]
              /\ Do(ns, e)[p] \in {Empty, Dir} \cup (IF e.op = "mknod" THEN {File(e.node)} ELSE {})
         \/ \E q \in Changed(e) : Do(ns, e)[p] = ns[q] /\ Do(ms, e)[p] = ms[q]
<1>1. p \in Paths /\ e.op \in {"mknod", "mkdir", "unlink", "rmdir", "rename"} /\ e.path \in Paths
  BY EntForms DEF Changed
<1>2. CASE e.op # "rename" /\ p = e.path
  BY <1>1, <1>2, DoForms, EntForms DEF Namespaces
<1>3. CASE e.op # "rename" /\ p # e.path
  <2>1. Do(ns, e)[p] = ns[p] /\ Do(ms, e)[p] = ms[p]
    BY <1>1, <1>3, DoForms DEF Namespaces
  <2> QED BY <2>1
<1>4. CASE e.op = "rename"
  <2>1. e.to \in Paths /\ Do(ns, e) = Move(ns, e.path, e.to) /\ Do(ms, e) = Move(ms, e.path, e.to)
    BY <1>4, EntForms, DoForms
  <2>2. Below(e.path, p) \/ Below(e.to, p)
    BY <1>4, EntForms DEF Changed
  <2>3. CASE Below(e.to, p) /\ Moved(p, e.to, e.path) \in Paths
    <3> DEFINE q == Moved(p, e.to, e.path)
    <3>1. q \in Changed(e)
      <4>1. Below(e.path, q)
        BY <1>1, <2>1, <2>3, MovedPath
      <4> QED BY <2>3, <4>1, ReadsForms
    <3>2. Move(ns, e.path, e.to)[p] = ns[q] /\ Move(ms, e.path, e.to)[p] = ms[q]
      BY <1>1, <2>1, <2>3, MoveIn
    <3>3. Do(ns, e)[p] = ns[q] /\ Do(ms, e)[p] = ms[q]
      BY <2>1, <3>2
    <3> QED BY <3>1, <3>3
  <2>4. CASE ~(Below(e.to, p) /\ Moved(p, e.to, e.path) \in Paths)
    BY <1>1, <2>1, <2>2, <2>4, MoveGone
  <2> QED BY <2>3, <2>4
<1> QED BY <1>2, <1>3, <1>4

LEMMA DoSame ==
  ASSUME NEW ns \in Namespaces, NEW ms \in Namespaces, NEW e \in Updates, NEW p \in Changed(e)
  PROVE  /\ (\A r \in Changed(e) : ns[r] = ms[r]) => Do(ns, e)[p] = Do(ms, e)[p]
         /\ Agree(ns, ms, Changed(e)) => Do(ns, e)[p].node = Do(ms, e)[p].node
  BY DoLocal DEF Agree

(* Calls that are under way together do not change what the other depends on. *)
LEMMA NoConflict ==
  ASSUME NEW e \in Updates, NEW f \in Updates, ~Conflict(e, f)
  PROVE  Changed(e) \cap Reads(f) = {} /\ Changed(f) \cap Reads(e) = {} /\ e # f
<1>1. \A p \in Touched(e), q \in Touched(f) : ~Below(p, q) /\ ~Below(q, p)
  BY DEF Conflict, Updates
<1>2. Touched(e) \subseteq Paths /\ Touched(f) \subseteq Paths /\ e.path \in Touched(e)
  BY EntForms
<1>3. ASSUME NEW r \in Paths, NEW p \in Touched(e), NEW q \in Touched(f), Below(p, r), Below(q, r) PROVE FALSE
  BY <1>1, <1>2, <1>3, Tree
<1>4. ASSUME NEW r \in Paths, NEW p \in Touched(e), NEW q \in Touched(f), Below(p, r), Len(q) > 1, r = Up(q) PROVE FALSE
  <2>1. Below(r, q)
    BY <1>2, <1>4, Parents
  <2> QED BY <1>1, <1>2, <1>4, <2>1, Tree
<1>5. ASSUME NEW r \in Paths, NEW p \in Touched(e), NEW q \in Touched(f), Below(q, r), Len(p) > 1, r = Up(p) PROVE FALSE
  <2>1. Below(r, p)
    BY <1>2, <1>5, Parents
  <2> QED BY <1>1, <1>2, <1>5, <2>1, Tree
<1>6. e # f
  BY <1>1, <1>2, Tree
<1>7. Changed(e) \cap Reads(f) = {}
  BY <1>3, <1>4 DEF Changed, Reads
<1>8. Changed(f) \cap Reads(e) = {}
  BY <1>3, <1>5 DEF Changed, Reads
<1> QED BY <1>6, <1>7, <1>8

-----------------------------------------------------------------------------
(* Changes keep a namespace a tree, with one name for a file. *)

Unique(ns) == \A p, q \in Paths : IsFile(ns[p]) /\ ns[q].node = ns[p].node => q = p
Absent(n, ns) == \A p \in Paths : ns[p].node # n

(* Where a file of the changed namespace comes from *)
LEMMA DoFiles ==
  ASSUME NEW ns \in Namespaces, NEW e \in Updates, NEW p \in Paths
  PROVE  \/ e.op = "mknod" /\ p = e.path /\ Do(ns, e)[p] = File(e.node)
         \/ Do(ns, e)[p] \in {Empty, Dir}
         \/ /\ Do(ns, e)[p] = ns[p]
            /\ e.op = "rename" => ~Below(e.path, p)
         \/ /\ e.op = "rename"
            /\ \E q \in Paths : Below(e.path, q) /\ p = Moved(q, e.path, e.to) /\ Do(ns, e)[p] = ns[q]
<1>1. e.path \in Paths /\ e.op \in {"mknod", "mkdir", "unlink", "rmdir", "rename"}
  BY EntForms
<1>2. CASE e.op # "rename"
  BY <1>1, <1>2, DoForms DEF Namespaces
<1>3. CASE e.op = "rename"
  <2>1. e.to \in Paths /\ Do(ns, e) = Move(ns, e.path, e.to)
    BY <1>3, EntForms, DoForms
  <2>2. CASE Below(e.to, p) /\ Moved(p, e.to, e.path) \in Paths
    <3>1. PICK q \in Paths : q = Moved(p, e.to, e.path)
      BY <2>2
    <3>2. Move(ns, e.path, e.to)[p] = ns[Moved(p, e.to, e.path)]
      BY <1>1, <2>1, <2>2, MoveIn
    <3>3. Below(e.path, q) /\ p = Moved(q, e.path, e.to)
      BY <1>1, <2>1, <2>2, <3>1, MovedPath
    <3> QED BY <1>3, <2>1, <3>1, <3>2, <3>3
  <2>3. CASE ~(Below(e.to, p) /\ Moved(p, e.to, e.path) \in Paths)
    <3>1. CASE Below(e.to, p) \/ Below(e.path, p)
      <4>1. Move(ns, e.path, e.to)[p] = Empty
        BY <1>1, <2>1, <2>3, <3>1, MoveGone
      <4> QED BY <2>1, <4>1
    <3>2. CASE ~(Below(e.to, p) \/ Below(e.path, p))
      <4>1. Move(ns, e.path, e.to)[p] = ns[p]
        BY <1>1, <2>1, <3>2, MoveOut
      <4> QED BY <2>1, <3>2, <4>1
    <3> QED BY <3>1, <3>2
  <2> QED BY <2>2, <2>3
<1> QED BY <1>2, <1>3

LEMMA DoUnique ==
  ASSUME NEW ns \in Namespaces, NEW e \in Updates, Unique(ns), e.op = "mknod" => Absent(e.node, ns)
  PROVE  Unique(Do(ns, e))
<1> SUFFICES ASSUME NEW p \in Paths, NEW q \in Paths, IsFile(Do(ns, e)[p]), Do(ns, e)[q].node = Do(ns, e)[p].node
             PROVE  q = p
  BY DEF Unique
<1> DEFINE ms == Do(ns, e)
           new(r) == e.op = "mknod" /\ r = e.path /\ ms[r].node = e.node
           kept(r) == ms[r] = ns[r] /\ (e.op = "rename" => ~Below(e.path, r))
           moved(r) == e.op = "rename" /\ \E s \in Paths : Below(e.path, s) /\ r = Moved(s, e.path, e.to) /\ ms[r] = ns[s]
<1>1. IsFile(ms[p]) /\ IsFile(ms[q]) /\ ms[q].node = ms[p].node
  BY DEF IsFile
<1>2. \A r \in {p, q} : new(r) \/ kept(r) \/ moved(r)
  <2>1. \A n \in Nodes : File(n).node = n
    BY NodeForms
  <2> QED BY <1>1, <2>1, DoFiles, NodeForms, EntForms
<1>3. \A r, s \in Paths : IsFile(ns[r]) /\ ns[s].node = ns[r].node => s = r
  BY DEF Unique
<1>4. e.op = "mknod" => \A r \in Paths : ns[r].node # e.node
  BY DEF Absent
<1> HIDE DEF ms
<1>5. CASE new(p) \/ new(q)
  BY <1>1, <1>2, <1>4, <1>5
<1>6. CASE kept(p) /\ kept(q)
  BY <1>1, <1>3, <1>6
<1>7. CASE kept(p) /\ moved(q)
  BY <1>1, <1>3, <1>7
<1>8. CASE moved(p) /\ kept(q)
  BY <1>1, <1>3, <1>8
<1>9. CASE moved(p) /\ moved(q)
  BY <1>1, <1>3, <1>9
<1> QED BY <1>2, <1>5, <1>6, <1>7, <1>8, <1>9

LEMMA WellFormedParts ==
  ASSUME NEW ns
  PROVE  WellFormed(ns) <=> /\ ns \in Namespaces /\ Unique(ns)
                            /\ \A p \in Paths : ns[p].node # NONE => HasParent(ns, p)
                            /\ \A p \in Paths : ~IsFile(ns[p]) => ns[p].ver = 0
  BY DEF WellFormed, Unique

LEMMA BelowNothing ==
  ASSUME NEW ns, WellFormed(ns), NEW p \in Paths, NEW q \in Paths, Below(p, q)
  PROVE  /\ ns[p].node # DIR /\ q # p => ns[q] = Empty
         /\ ns[q].node = NONE => ns[q] = Empty
         /\ ns[p].node = NONE => ns[q] = Empty
<1>1. ns[q] \in Entries /\ (ns[q].node # NONE => HasParent(ns, q)) /\ (~IsFile(ns[q]) => ns[q].ver = 0)
  BY WellFormedParts DEF Namespaces
<1>2. ns[q].node = NONE => ns[q] = Empty
  BY <1>1, NodesAssumption DEF Entries, Empty, IsFile
<1>3. q # p => Len(q) > 1 /\ p = Up(q)
  BY Parents
<1>4. q # p /\ ns[p].node # DIR => ns[q].node = NONE
  BY <1>1, <1>3 DEF HasParent
<1> QED BY <1>2, <1>4, NodesAssumption

LEMMA NotAbove ==
  ASSUME NEW ns, WellFormed(ns), NEW e \in Updates, e.op = "rename", Possible(ns, e)
  PROVE  ~Below(e.to, e.path)
<1>1. e.path \in Paths /\ e.to \in Paths /\ ns[e.path].node # NONE /\ ns[e.to].node = NONE
  BY EntForms, PossibleForms
<1> QED BY <1>1, BelowNothing, NodeForms

LEMMA DoWellFormed ==
  ASSUME NEW ns, WellFormed(ns), NEW e \in Updates, Possible(ns, e), e.op = "mknod" => Absent(e.node, ns)
  PROVE  WellFormed(Do(ns, e))
<1> DEFINE ms == Do(ns, e)
<1>1. /\ ns \in Namespaces /\ Unique(ns)
      /\ \A p \in Paths : ns[p].node # NONE => HasParent(ns, p)
      /\ \A p \in Paths : ~IsFile(ns[p]) => ns[p].ver = 0
  BY WellFormedParts
<1>2. ms \in Namespaces /\ Unique(ms)
  BY <1>1, DoForms, DoUnique
<1>3. ASSUME NEW p \in Paths, ~IsFile(ms[p]) PROVE ms[p].ver = 0
  <2>1. CASE e.op = "mknod" /\ p = e.path /\ ms[p] = File(e.node)
    BY <2>1, NodeForms, EntForms
  <2>2. CASE ms[p] \in {Empty, Dir}
    BY <2>2, NodeForms
  <2>3. CASE \E q \in Paths : ms[p] = ns[q]
    BY <1>1, <1>3, <2>3
  <2> QED BY <1>1, <2>1, <2>2, <2>3, DoFiles
<1>4. ASSUME NEW p \in Paths, ms[p].node # NONE, Len(p) > 1 PROVE ms[Up(p)].node = DIR
  <2>1. /\ Up(p) \in Paths /\ Below(Up(p), p) /\ Up(p) # p
        /\ e.path \in Paths /\ e.op \in {"mknod", "mkdir", "unlink", "rmdir", "rename"}
    BY <1>4, Parents, EntForms
  <2>2. \A q \in Paths : ns[q].node # NONE /\ Len(q) > 1 => ns[Up(q)].node = DIR
    BY <1>1 DEF HasParent
  <2>3. CASE e.op \in {"mknod", "mkdir"}
    <3>1. ns[e.path].node = NONE /\ (Len(e.path) > 1 => ns[Up(e.path)].node = DIR)
      BY <2>3, PossibleForms DEF HasParent
    <3>2. \A q \in Paths : q # e.path => ms[q] = ns[q]
      BY <1>1, <2>1, <2>3, DoForms DEF Namespaces
    <3> QED BY <1>4, <2>1, <2>2, <3>1, <3>2, NodesAssumption
  <2>4. CASE e.op \in {"unlink", "rmdir"}
    <3>1. \A q \in Paths : Below(e.path, q) /\ q # e.path => ns[q].node = NONE
      <4>1. CASE e.op = "unlink"
        BY <2>1, <4>1, PossibleForms, BelowNothing, NodeForms, NodesAssumption DEF IsFile
      <4>2. CASE e.op = "rmdir"
        BY <4>2, PossibleForms DEF IsEmptyDir
      <4> QED BY <2>4, <4>1, <4>2
    <3>2. ms[e.path] = Empty /\ \A q \in Paths : q # e.path => ms[q] = ns[q]
      BY <1>1, <2>1, <2>4, DoForms DEF Namespaces
    <3> QED BY <1>4, <2>1, <2>2, <3>1, <3>2, NodeForms
  <2>5. CASE e.op = "rename"
    <3>1. /\ e.to \in Paths /\ ns[e.path].node # NONE /\ ns[e.to].node = NONE /\ ms = Move(ns, e.path, e.to)
          /\ Len(e.to) > 1 => ns[Up(e.to)].node = DIR
          /\ ~Below(e.path, e.to) /\ ~Below(e.to, e.path)
      BY <1>1, <2>5, EntForms, PossibleForms, NotAbove, DoForms DEF HasParent
    <3> HIDE DEF ms
    <3>2. \A q \in Paths : ~Below(e.path, q) /\ ~Below(e.to, q) => ms[q] = ns[q]
      BY <1>1, <2>1, <3>1, MoveOut
    <3>3. CASE Below(e.to, p)
      <4>1. Moved(p, e.to, e.path) \in Paths /\ ms[p] = ns[Moved(p, e.to, e.path)]
        BY <1>1, <1>4, <2>1, <3>1, <3>3, MoveIn, MoveGone, NodeForms
      <4>2. CASE p = e.to
        <5>1. ~Below(e.path, Up(p)) /\ ~Below(e.to, Up(p))
          BY <2>1, <3>1, <4>2, Tree
        <5> QED BY <1>4, <2>1, <3>1, <3>2, <4>2, <5>1
      <4>3. CASE p # e.to
        <5>1. Up(p) = e.to /\ Up(Moved(p, e.to, e.path)) = e.path /\ Moved(p, e.to, e.path) # e.path
          BY <2>1, <3>1, <3>3, <4>1, <4>3, MovedPath
        <5>2. Len(Moved(p, e.to, e.path)) > 1
          BY <2>1, <3>1, <3>3, <4>1, <5>1, MovedPath, Parents
        <5>3. ns[e.path].node = DIR
          BY <1>4, <2>2, <4>1, <5>1, <5>2
        <5>4. ms[e.to] = ns[e.path]
          <6>1. Below(e.to, e.to)
            BY <3>1, Tree
          <6>2. Moved(e.to, e.to, e.path) = e.path
            BY <2>1, <3>1, <6>1, MovedPath
          <6> QED BY <1>1, <2>1, <3>1, <6>1, <6>2, MoveIn
        <5> QED BY <5>1, <5>3, <5>4
      <4> QED BY <4>2, <4>3
    <3>4. CASE ~Below(e.to, p)
      <4>1. ~Below(e.path, p) /\ ms[p] = ns[p]
        BY <1>1, <1>4, <2>1, <3>1, <3>4, MoveOut, MoveGone, NodeForms
      <4>2. ~Below(e.path, Up(p)) /\ ~Below(e.to, Up(p))
        BY <2>1, <3>1, <3>4, <4>1, Tree
      <4> QED BY <1>4, <2>1, <2>2, <3>2, <4>1, <4>2
    <3> QED BY <3>3, <3>4
  <2> QED BY <2>1, <2>3, <2>4, <2>5
<1> QED BY <1>2, <1>3, <1>4, WellFormedParts DEF HasParent

-----------------------------------------------------------------------------
(* Runs of a list of entries *)

LEMMA Least == ASSUME NEW T \in SUBSET Nat, T # {} PROVE \E n \in T : \A m \in T : n <= m
<1> DEFINE R == {ss \in Nat \X Nat : ss[1] < ss[2]}
<1>1. IsWellFoundedOn(R, Nat)
  BY NatLessThanWellFounded, Zenon DEF OpToRel
<1>2. PICK x \in T : \A y \in T : ~(<<y, x>> \in R)
  <2> HIDE DEF R
  <2> QED BY <1>1, WFMin
<1>3. \A y \in T : ~(y < x)
  BY <1>2
<1> QED BY <1>3

LEMMA Induct == ASSUME NEW T \in SUBSET Nat, 0 \in T, \A n \in T : n + 1 \in T PROVE T = Nat
<1> SUFFICES ASSUME Nat \ T # {} PROVE FALSE
  OBVIOUS
<1>1. PICK n \in Nat \ T : \A m \in Nat \ T : n <= m
  BY Least
<1>2. n - 1 \in T
  BY <1>1
<1> QED BY <1>1, <1>2

(* What holds at first and is kept by every step holds all the way. *)
LEMMA Along ==
  ASSUME NEW l \in Nat, NEW T, 1 \in T, \A i \in 1..l : i \in T => i + 1 \in T
  PROVE  \A i \in 1..l + 1 : i \in T
<1> DEFINE S == {n \in Nat : n <= l => n + 1 \in T}
<1>1. 0 \in S
  OBVIOUS
<1>2. \A n \in S : n + 1 \in S
  OBVIOUS
<1>3. S = Nat
  <2> HIDE DEF S
  <2>1. S \in SUBSET Nat
    BY DEF S
  <2> QED BY <1>1, <1>2, <2>1, Induct
<1>4. \A n \in Nat : n <= l => n + 1 \in T
  BY <1>3
<1>5. \A i \in 1..l + 1 : i - 1 \in Nat /\ i - 1 <= l /\ (i - 1) + 1 = i
  OBVIOUS
<1> QED BY <1>4, <1>5

(* f is a run of the first k - 1 entries of es. *)
Runs(f, start, es, k) == f = [i \in 1..k |-> IF i = 1 THEN start ELSE ApplyEntry(f[i - 1], es[i - 1])]

LEMMA RunExists ==
  ASSUME NEW start, NEW es, NEW k \in Nat
  PROVE  \E f : Runs(f, start, es, k)
<1> DEFINE Is(f, n) == f = [i \in 1..n |-> IF i = 1 THEN start ELSE ApplyEntry(f[i - 1], es[i - 1])]
           T == {n \in Nat : \E f : Is(f, n)}
<1>1. 0 \in T
  <2>1. Is([i \in 1..0 |-> start], 0)
    OBVIOUS
  <2> HIDE DEF Is
  <2> QED BY <2>1
<1>2. ASSUME NEW n \in T PROVE n + 1 \in T
  <2>1. n \in Nat
    OBVIOUS
  <2>2. PICK f : Is(f, n)
    OBVIOUS
  <2> DEFINE g == [i \in 1..n + 1 |-> IF i = n + 1 THEN IF i = 1 THEN start ELSE ApplyEntry(f[i - 1], es[i - 1]) ELSE f[i]]
  <2>3. \A i \in 1..n : f[i] = IF i = 1 THEN start ELSE ApplyEntry(f[i - 1], es[i - 1])
    BY <2>2
  <2>4. \A i \in 1..n : g[i] = f[i]
    BY <2>1
  <2>5. \A i \in 1..n + 1 : g[i] = IF i = 1 THEN start ELSE ApplyEntry(g[i - 1], es[i - 1])
    <3>1. g[n + 1] = IF n + 1 = 1 THEN start ELSE ApplyEntry(f[n], es[n])
      BY <2>1
    <3>2. n + 1 # 1 => n \in 1..n
      BY <2>1
    <3> HIDE DEF g
    <3>3. \A i \in 1..n : i # 1 => i - 1 \in 1..n
      BY <2>1
    <3>4. (n + 1) - 1 = n /\ \A i \in 1..n + 1 : i \in 1..n \/ i = n + 1
      BY <2>1
    <3> QED BY <2>3, <2>4, <3>1, <3>2, <3>3, <3>4
  <2>6. g = [i \in 1..n + 1 |-> g[i]]
    OBVIOUS
  <2> HIDE DEF g
  <2>7. Is(g, n + 1)
    BY <2>5, <2>6
  <2> HIDE DEF Is
  <2> QED BY <2>1, <2>7
<1>3. T = Nat
  <2> HIDE DEF T
  <2>1. T \in SUBSET Nat
    BY DEF T
  <2> QED BY <1>1, <1>2, <2>1, Induct
<1>4. \E f : Is(f, k)
  BY <1>3
<1> QED BY <1>4 DEF Runs

LEMMA RunIs ==
  ASSUME NEW start, NEW es \in Seq(Ents)
  PROVE  Run(start, es) = [i \in 1..Len(es) + 1 |->
                             IF i = 1 THEN start ELSE ApplyEntry(Run(start, es)[i - 1], es[i - 1])]
<1>1. Len(es) + 1 \in Nat
  BY LenProperties
<1>2. \E f : Runs(f, start, es, Len(es) + 1)
  BY <1>1, RunExists
<1>3. Runs(CHOOSE f : Runs(f, start, es, Len(es) + 1), start, es, Len(es) + 1)
  BY <1>2
<1>4. Run(start, es) = CHOOSE f : Runs(f, start, es, Len(es) + 1)
  BY DEF Run, Runs
<1> QED BY <1>3, <1>4 DEF Runs

LEMMA ApplyForms ==
  ASSUME NEW ns \in Namespaces, NEW e \in Ents
  PROVE  /\ ApplyEntry(ns, e) \in Namespaces
         /\ ApplyEntry(ns, e) = IF e \in Updates /\ Possible(ns, e) THEN Do(ns, e) ELSE ns
  BY DoForms DEF ApplyEntry, Updates

LEMMA RunForms ==
  ASSUME NEW start \in Namespaces, NEW es \in Seq(Ents)
  PROVE  /\ Run(start, es)[1] = start
         /\ \A i \in 1..Len(es) : Run(start, es)[i + 1] = ApplyEntry(Run(start, es)[i], es[i])
         /\ Run(start, es) \in [1..Len(es) + 1 -> Namespaces]
         /\ Run(start, es) \in Seq(Namespaces) /\ Len(Run(start, es)) = Len(es) + 1
         /\ Final(start, es) \in Namespaces
<1> DEFINE f == Run(start, es)
           l == Len(es)
<1>1. l \in Nat /\ \A i \in 1..l : es[i] \in Ents
  BY ElementOfSeq
<1>2. f = [i \in 1..l + 1 |-> IF i = 1 THEN start ELSE ApplyEntry(f[i - 1], es[i - 1])]
  BY RunIs
<1>3. Final(start, es) = f[l + 1]
  BY DEF Final
<1> HIDE DEF f, l
<1>4. f[1] = start /\ \A i \in 1..l : f[i + 1] = ApplyEntry(f[i], es[i])
  <2>1. \A i \in 1..l : i + 1 \in 1..l + 1 /\ i + 1 # 1 /\ (i + 1) - 1 = i
    BY <1>1
  <2>2. 1 \in 1..l + 1
    BY <1>1
  <2> QED BY <1>2, <2>1, <2>2
<1>5. \A i \in 1..l + 1 : f[i] \in Namespaces
  <2> DEFINE T == {i \in Nat : f[i] \in Namespaces}
  <2>1. 1 \in T
    BY <1>4
  <2>2. ASSUME NEW i \in 1..l, i \in T PROVE i + 1 \in T
    <3>1. ApplyEntry(f[i], es[i]) \in Namespaces
      BY <1>1, <2>2, ApplyForms
    <3> QED BY <1>1, <1>4, <3>1
  <2> HIDE DEF T
  <2>3. \A i \in 1..l + 1 : i \in T
    BY <1>1, <2>1, <2>2, Along
  <2> QED BY <2>3 DEF T
<1>6. f \in [1..l + 1 -> Namespaces]
  BY <1>2, <1>5
<1>7. f \in Seq(Namespaces) /\ Len(f) = l + 1
  BY <1>1, <1>6, LenProperties, IsASeq
<1> QED BY <1>1, <1>3, <1>4, <1>5, <1>6, <1>7 DEF f, l

(* Lists that differ in fsync entries only have the same runs. *)
LEMMA RunPrefix ==
  ASSUME NEW start \in Namespaces, NEW es \in Seq(Ents), NEW fs \in Seq(Ents), NEW k \in Nat,
         k <= Len(es), k <= Len(fs),
         \A i \in 1..k : es[i] = fs[i] \/ (IsFsync(es[i]) /\ IsFsync(fs[i]))
  PROVE  \A i \in 1..k + 1 : Run(start, es)[i] = Run(start, fs)[i]
<1> DEFINE f == Run(start, es)
           g == Run(start, fs)
           T == {i \in Nat : f[i] = g[i]}
<1>1. Len(es) \in Nat /\ Len(fs) \in Nat
  BY LenProperties
<1>2. /\ f[1] = start /\ g[1] = start
      /\ \A i \in 1..k : f[i + 1] = ApplyEntry(f[i], es[i]) /\ g[i + 1] = ApplyEntry(g[i], fs[i])
  <2>1. f[1] = start /\ \A i \in 1..Len(es) : f[i + 1] = ApplyEntry(f[i], es[i])
    BY RunForms
  <2>2. g[1] = start /\ \A i \in 1..Len(fs) : g[i + 1] = ApplyEntry(g[i], fs[i])
    BY RunForms
  <2> HIDE DEF f, g
  <2>3. \A i \in 1..k : i \in 1..Len(es) /\ i \in 1..Len(fs)
    BY <1>1
  <2> QED BY <2>1, <2>2, <2>3
<1> HIDE DEF f, g
<1>3. 1 \in T
  BY <1>2
<1>4. ASSUME NEW i \in 1..k, i \in T PROVE i + 1 \in T
  <2>1. f[i] = g[i] /\ i + 1 \in Nat
    BY <1>4
  <2>2. CASE es[i] = fs[i]
    BY <1>2, <2>1, <2>2
  <2>3. CASE IsFsync(es[i]) /\ IsFsync(fs[i])
    <3>1. f[i + 1] = f[i] /\ g[i + 1] = g[i]
      BY <1>2, <2>3 DEF ApplyEntry, IsUpdate, IsFsync
    <3> QED BY <2>1, <3>1
  <2> QED BY <2>2, <2>3
<1> HIDE DEF T
<1>5. \A i \in 1..k + 1 : i \in T
  BY <1>3, <1>4, Along
<1> QED BY <1>5 DEF T, f, g

(* The rest of a run is a run of the rest. *)
LEMMA RunShift ==
  ASSUME NEW start \in Namespaces, NEW es \in Seq(Ents), NEW fs \in Seq(Ents), NEW k \in Nat,
         Len(es) = k + Len(fs), \A i \in 1..Len(fs) : fs[i] = es[k + i]
  PROVE  /\ Run(start, es)[k + 1] \in Namespaces
         /\ \A i \in 1..Len(fs) + 1 : Run(Run(start, es)[k + 1], fs)[i] = Run(start, es)[k + i]
         /\ Final(Run(start, es)[k + 1], fs) = Final(start, es)
<1> DEFINE f == Run(start, es)
           l == Len(fs)
           g == Run(f[k + 1], fs)
           T == {i \in Nat : g[i] = f[k + i]}
<1>1. l \in Nat /\ Len(es) = k + l
  BY LenProperties
<1>2. f[k + 1] \in Namespaces
  <2>1. k + 1 \in 1..Len(es) + 1
    BY <1>1
  <2>2. f \in [1..Len(es) + 1 -> Namespaces]
    BY RunForms
  <2> HIDE DEF f
  <2> QED BY <2>1, <2>2
<1>3. \A i \in 1..l : f[k + i + 1] = ApplyEntry(f[k + i], es[k + i])
  <2>1. \A j \in 1..Len(es) : f[j + 1] = ApplyEntry(f[j], es[j])
    BY RunForms
  <2>2. \A i \in 1..l : k + i \in 1..Len(es)
    BY <1>1
  <2> HIDE DEF f, l
  <2> QED BY <2>1, <2>2
<1>4. g[1] = f[k + 1] /\ \A i \in 1..l : g[i + 1] = ApplyEntry(g[i], fs[i])
  BY <1>2, RunForms
<1>5. Final(f[k + 1], fs) = g[l + 1] /\ Final(start, es) = f[k + l + 1]
  BY <1>1 DEF Final
<1>6. \A i \in 1..l : fs[i] = es[k + i]
  OBVIOUS
<1> HIDE DEF f, g, l
<1>7. 1 \in T
  BY <1>4
<1>8. ASSUME NEW i \in 1..l, i \in T PROVE i + 1 \in T
  <2>1. g[i] = f[k + i] /\ i + 1 \in Nat /\ k + (i + 1) = k + i + 1
    BY <1>8
  <2>2. g[i + 1] = f[k + (i + 1)]
    BY <1>3, <1>4, <1>6, <2>1
  <2> QED BY <2>1, <2>2
<1> HIDE DEF T
<1>9. \A i \in 1..l + 1 : i \in T
  BY <1>1, <1>7, <1>8, Along
<1>10. \A i \in 1..l + 1 : g[i] = f[k + i]
  BY <1>9 DEF T
<1>11. g[l + 1] = f[k + l + 1]
  <2>1. l + 1 \in 1..l + 1 /\ k + (l + 1) = k + l + 1
    BY <1>1
  <2> QED BY <1>10, <2>1
<1> QED BY <1>2, <1>5, <1>10, <1>11 DEF f, g, l

LEMMA FinalEmpty == ASSUME NEW start \in Namespaces PROVE Final(start, <<>>) = start
<1>1. <<>> \in Seq(Ents) /\ Len(<<>>) + 1 = 1
  OBVIOUS
<1>2. Run(start, <<>>)[1] = start
  BY <1>1, RunForms
<1> QED BY <1>1, <1>2 DEF Final

LEMMA FinalSame ==
  ASSUME NEW start \in Namespaces, NEW es \in Seq(Ents), NEW fs \in Seq(Ents), Len(es) = Len(fs),
         \A i \in 1..Len(es) : es[i] = fs[i] \/ (IsFsync(es[i]) /\ IsFsync(fs[i]))
  PROVE  Final(start, es) = Final(start, fs)
<1>1. Len(es) \in Nat /\ Len(es) + 1 \in 1..Len(es) + 1
  BY LenProperties
<1>2. \A i \in 1..Len(es) + 1 : Run(start, es)[i] = Run(start, fs)[i]
  BY <1>1, RunPrefix
<1> QED BY <1>1, <1>2 DEF Final

LEMMA RunTail ==
  ASSUME NEW start \in Namespaces, NEW es \in Seq(Ents), es # <<>>
  PROVE  /\ Head(es) \in Ents /\ Tail(es) \in Seq(Ents) /\ ApplyEntry(start, Head(es)) \in Namespaces
         /\ Final(ApplyEntry(start, Head(es)), Tail(es)) = Final(start, es)
         /\ Run(ApplyEntry(start, Head(es)), Tail(es)) = Tail(Run(start, es))
<1>1. /\ Head(es) \in Ents /\ Tail(es) \in Seq(Ents) /\ Len(Tail(es)) = Len(es) - 1 /\ Len(es) \in Nat
      /\ \A i \in 1..Len(Tail(es)) : Tail(es)[i] = es[1 + i]
      /\ Len(es) >= 1 /\ Head(es) = es[1]
  BY HeadTailProperties, LenProperties, EmptySeq
<1>2. Len(es) = 1 + Len(Tail(es)) /\ 1 \in 1..Len(es)
  BY <1>1
<1>3. Run(start, es)[1 + 1] = ApplyEntry(start, Head(es))
  <2>1. Run(start, es)[1] = start /\ Run(start, es)[1 + 1] = ApplyEntry(Run(start, es)[1], es[1])
    <3>1. \A i \in 1..Len(es) : Run(start, es)[i + 1] = ApplyEntry(Run(start, es)[i], es[i])
      BY RunForms
    <3> QED BY <1>2, <3>1, RunForms
  <2> QED BY <1>1, <2>1
<1>4. /\ Run(start, es)[1 + 1] \in Namespaces
      /\ \A i \in 1..Len(Tail(es)) + 1 : Run(Run(start, es)[1 + 1], Tail(es))[i] = Run(start, es)[1 + i]
      /\ Final(Run(start, es)[1 + 1], Tail(es)) = Final(start, es)
  <2> DEFINE fs == Tail(es)
  <2>1. fs \in Seq(Ents) /\ Len(es) = 1 + Len(fs) /\ \A i \in 1..Len(fs) : fs[i] = es[1 + i]
    BY <1>1, <1>2
  <2> HIDE DEF fs
  <2>2. /\ Run(start, es)[1 + 1] \in Namespaces
        /\ \A i \in 1..Len(fs) + 1 : Run(Run(start, es)[1 + 1], fs)[i] = Run(start, es)[1 + i]
        /\ Final(Run(start, es)[1 + 1], fs) = Final(start, es)
    BY <2>1, RunShift
  <2> QED BY <2>2 DEF fs
<1> DEFINE f == Run(start, es)
           g == Run(ApplyEntry(start, Head(es)), Tail(es))
<1>5. f \in Seq(Namespaces) /\ Len(f) = Len(es) + 1 /\ g \in Seq(Namespaces) /\ Len(g) = Len(Tail(es)) + 1
  BY <1>1, <1>3, <1>4, RunForms
<1>6. \A i \in 1..Len(g) : g[i] = f[1 + i]
  BY <1>3, <1>4, <1>5
<1>7. Tail(f) = g
  <2> HIDE DEF f, g
  <2>1. f # <<>> /\ Tail(f) \in Seq(Namespaces) /\ Len(Tail(f)) = Len(f) - 1
    BY <1>1, <1>5, HeadTailProperties, EmptySeq
  <2>2. \A i \in 1..Len(Tail(f)) : Tail(f)[i] = f[i + 1]
    BY <1>5, <2>1, HeadTailProperties
  <2>3. Len(Tail(f)) = Len(g) /\ \A i \in 1..Len(g) : Tail(f)[i] = g[i]
    BY <1>1, <1>5, <1>6, <2>1, <2>2
  <2> QED BY <1>5, <2>1, <2>3, SeqEqual
<1> QED BY <1>1, <1>3, <1>4, <1>7

LEMMA FinalCat ==
  ASSUME NEW start \in Namespaces, NEW es \in Seq(Ents), NEW fs \in Seq(Ents)
  PROVE  Final(start, es \o fs) = Final(Final(start, es), fs)
<1> DEFINE gs == es \o fs
           k == Len(es)
<1>1. /\ gs \in Seq(Ents) /\ k \in Nat /\ Len(fs) \in Nat /\ Len(gs) = k + Len(fs)
      /\ \A i \in 1..k + Len(fs) : gs[i] = IF i <= k THEN es[i] ELSE fs[i - k]
  BY ConcatProperties, LenProperties
<1> HIDE DEF gs, k
<1>2. k <= Len(gs) /\ k <= Len(es) /\ \A i \in 1..k : gs[i] = es[i]
  BY <1>1 DEF k
<1>3. \A i \in 1..k + 1 : Run(start, gs)[i] = Run(start, es)[i]
  BY <1>1, <1>2, RunPrefix
<1>4. Run(start, gs)[k + 1] = Final(start, es)
  BY <1>1, <1>3 DEF Final, k
<1>5. \A i \in 1..Len(fs) : k + i \in 1..k + Len(fs) /\ ~(k + i <= k) /\ (k + i) - k = i
  BY <1>1
<1>6. \A i \in 1..Len(fs) : fs[i] = gs[k + i]
  BY <1>1, <1>5
<1>7. Final(Run(start, gs)[k + 1], fs) = Final(start, gs)
  BY <1>1, <1>6, RunShift
<1> QED BY <1>4, <1>7 DEF gs

LEMMA RunAppend ==
  ASSUME NEW start \in Namespaces, NEW es \in Seq(Ents), NEW e \in Ents
  PROVE  /\ Append(es, e) \in Seq(Ents)
         /\ Final(start, Append(es, e)) = ApplyEntry(Final(start, es), e)
         /\ \A i \in 1..Len(es) + 1 : Run(start, Append(es, e))[i] = Run(start, es)[i]
<1> DEFINE gs == Append(es, e)
           k == Len(es)
<1>1. /\ gs \in Seq(Ents) /\ k \in Nat /\ Len(gs) = k + 1
      /\ \A i \in 1..k : gs[i] = es[i]
      /\ gs[k + 1] = e
  BY AppendProperties, LenProperties
<1> HIDE DEF gs, k
<1>2. k <= Len(gs) /\ k <= Len(es) /\ k + 1 \in 1..k + 1
  BY <1>1 DEF k
<1>3. \A i \in 1..k + 1 : Run(start, gs)[i] = Run(start, es)[i]
  BY <1>1, <1>2, RunPrefix
<1>4. Run(start, gs)[k + 1] = Final(start, es)
  BY <1>2, <1>3 DEF Final, k
<1>5. Run(start, gs)[(k + 1) + 1] = ApplyEntry(Run(start, gs)[k + 1], gs[k + 1])
  <2>1. \A i \in 1..Len(gs) : Run(start, gs)[i + 1] = ApplyEntry(Run(start, gs)[i], gs[i])
    BY <1>1, RunForms
  <2>2. k + 1 \in 1..Len(gs)
    BY <1>1
  <2> QED BY <2>1, <2>2
<1> QED BY <1>1, <1>3, <1>4, <1>5 DEF Final, gs, k

(* The names of a run depend on the names it starts with. *)
LEMMA DoNames ==
  ASSUME NEW ns \in Namespaces, NEW ms \in Namespaces, NEW e \in Updates, Agree(ns, ms, Paths)
  PROVE  Agree(Do(ns, e), Do(ms, e), Paths) /\ (Possible(ns, e) <=> Possible(ms, e))
<1>1. \A r \in Paths : ns[r].node = ms[r].node
  BY DEF Agree
<1>2. Changed(e) \subseteq Paths /\ Reads(e) \subseteq Paths
  BY ReadsForms
<1>3. Agree(ns, ms, Reads(e)) /\ Agree(ms, ns, Reads(e)) /\ Agree(ns, ms, Changed(e))
  BY <1>1, <1>2 DEF Agree
<1>4. \A p \in Changed(e) : Do(ns, e)[p].node = Do(ms, e)[p].node
  BY <1>3, DoSame
<1>5. \A p \in Paths \ Changed(e) : Do(ns, e)[p] = ns[p] /\ Do(ms, e)[p] = ms[p]
  BY DoForms
<1>6. Agree(Do(ns, e), Do(ms, e), Paths)
  BY <1>1, <1>4, <1>5 DEF Agree
<1> QED BY <1>3, <1>6, PossibleLocal

LEMMA RunNames ==
  ASSUME NEW ns \in Namespaces, NEW ms \in Namespaces, NEW es \in Seq(Ents), Agree(ns, ms, Paths)
  PROVE  /\ \A i \in 1..Len(es) + 1 : Agree(Run(ns, es)[i], Run(ms, es)[i], Paths)
         /\ Agree(Final(ns, es), Final(ms, es), Paths)
<1> DEFINE f == Run(ns, es)
           g == Run(ms, es)
           l == Len(es)
           T == {i \in Nat : Agree(f[i], g[i], Paths)}
<1>1. l \in Nat /\ \A i \in 1..l : es[i] \in Ents
  BY LenProperties, ElementOfSeq
<1>2. f[1] = ns /\ (\A i \in 1..l : f[i + 1] = ApplyEntry(f[i], es[i])) /\ f \in [1..l + 1 -> Namespaces]
  BY RunForms
<1>3. g[1] = ms /\ (\A i \in 1..l : g[i + 1] = ApplyEntry(g[i], es[i])) /\ g \in [1..l + 1 -> Namespaces]
  BY RunForms
<1>4. Final(ns, es) = f[l + 1] /\ Final(ms, es) = g[l + 1]
  BY DEF Final
<1> HIDE DEF f, g, l
<1>5. 1 \in T
  BY <1>2, <1>3
<1>6. ASSUME NEW i \in 1..l, i \in T PROVE i + 1 \in T
  <2>1. Agree(f[i], g[i], Paths) /\ i + 1 \in Nat
    BY <1>6
  <2>2. f[i] \in Namespaces /\ g[i] \in Namespaces /\ es[i] \in Ents
    <3>1. i \in 1..l + 1
      BY <1>1
    <3> QED BY <1>1, <1>2, <1>3, <3>1
  <2>3. Agree(ApplyEntry(f[i], es[i]), ApplyEntry(g[i], es[i]), Paths)
    <3>1. CASE es[i] \in Updates
      <4>1. /\ Agree(Do(f[i], es[i]), Do(g[i], es[i]), Paths)
            /\ Possible(f[i], es[i]) <=> Possible(g[i], es[i])
        BY <2>1, <2>2, <3>1, DoNames
      <4>2. /\ ApplyEntry(f[i], es[i]) = IF Possible(f[i], es[i]) THEN Do(f[i], es[i]) ELSE f[i]
            /\ ApplyEntry(g[i], es[i]) = IF Possible(g[i], es[i]) THEN Do(g[i], es[i]) ELSE g[i]
        BY <2>2, <3>1, ApplyForms
      <4> QED BY <2>1, <4>1, <4>2
    <3>2. CASE es[i] \notin Updates
      BY <2>1, <2>2, <3>2, ApplyForms
    <3> QED BY <3>1, <3>2
  <2> QED BY <1>2, <1>3, <2>1, <2>3
<1> HIDE DEF T
<1>7. \A i \in 1..l + 1 : i \in T
  BY <1>1, <1>5, <1>6, Along
<1>8. l + 1 \in 1..l + 1
  BY <1>1
<1> QED BY <1>4, <1>7, <1>8 DEF T, f, g, l

(* No file of a run has data but the files it starts with. *)
Known(ns, K) == \A p \in Paths : IsFile(ns[p]) => ns[p] \in K
Makes(e, K) == e.op = "mknod" => File(e.node) \in K

LEMMA DoKnown ==
  ASSUME NEW ns \in Namespaces, NEW e \in Updates, NEW K, Known(ns, K), Makes(e, K)
  PROVE  Known(Do(ns, e), K)
<1> SUFFICES ASSUME NEW p \in Paths, IsFile(Do(ns, e)[p]) PROVE Do(ns, e)[p] \in K
  BY DEF Known
<1>1. CASE e.op = "mknod" /\ Do(ns, e)[p] = File(e.node)
  BY <1>1 DEF Makes
<1>2. CASE Do(ns, e)[p] \in {Empty, Dir}
  BY <1>2, NodeForms
<1>3. CASE \E q \in Paths : Do(ns, e)[p] = ns[q]
  BY <1>3 DEF Known
<1> QED BY <1>1, <1>2, <1>3, DoFiles

LEMMA RunKnown ==
  ASSUME NEW start \in Namespaces, NEW es \in Seq(Ents), NEW K, Known(start, K), \A i \in 1..Len(es) : Makes(es[i], K)
  PROVE  Known(Final(start, es), K)
<1> DEFINE f == Run(start, es)
           l == Len(es)
           T == {i \in Nat : Known(f[i], K)}
<1>1. l \in Nat /\ \A i \in 1..l : es[i] \in Ents /\ Makes(es[i], K)
  BY LenProperties, ElementOfSeq
<1>2. f[1] = start /\ (\A i \in 1..l : f[i + 1] = ApplyEntry(f[i], es[i])) /\ f \in [1..l + 1 -> Namespaces]
  BY RunForms
<1>3. Final(start, es) = f[l + 1]
  BY DEF Final
<1> HIDE DEF f, l
<1>4. 1 \in T
  BY <1>2
<1>5. ASSUME NEW i \in 1..l, i \in T PROVE i + 1 \in T
  <2>1. Known(f[i], K) /\ i + 1 \in Nat
    BY <1>5
  <2>2. f[i] \in Namespaces /\ es[i] \in Ents /\ Makes(es[i], K)
    <3>1. i \in 1..l + 1
      BY <1>1
    <3> QED BY <1>1, <1>2, <3>1
  <2>3. Known(ApplyEntry(f[i], es[i]), K)
    <3>1. CASE es[i] \in Updates
      BY <2>1, <2>2, <3>1, DoKnown, ApplyForms
    <3>2. CASE es[i] \notin Updates
      BY <2>1, <2>2, <3>2, ApplyForms
    <3> QED BY <3>1, <3>2
  <2> QED BY <1>2, <2>1, <2>3
<1> HIDE DEF T
<1>6. \A i \in 1..l + 1 : i \in T
  BY <1>1, <1>4, <1>5, Along
<1>7. l + 1 \in 1..l + 1
  BY <1>1
<1> QED BY <1>3, <1>6, <1>7 DEF T

-----------------------------------------------------------------------------
(* Changes that are under way together: made in any order, each has the effect
   it has alone. *)

AllApart(S) == \A e, f \in S : e # f => ~Conflict(e, f)
Merge(b, S) ==
  [p \in Paths |-> IF \E e \in S : p \in Changed(e) THEN Do(b, CHOOSE e \in S : p \in Changed(e))[p] ELSE b[p]]

LEMMA ApartForms ==
  ASSUME NEW S \in SUBSET Updates, AllApart(S), NEW e \in S, NEW f \in S, e # f
  PROVE  Changed(e) \cap Reads(f) = {} /\ Changed(e) \cap Changed(f) = {}
  BY NoConflict, ReadsForms DEF AllApart

LEMMA MergeForms ==
  ASSUME NEW b \in Namespaces, NEW S \in SUBSET Updates, AllApart(S)
  PROVE  /\ \A e \in S : \A p \in Changed(e) : Merge(b, S)[p] = Do(b, e)[p]
         /\ \A p \in Paths : (\A e \in S : p \notin Changed(e)) => Merge(b, S)[p] = b[p]
         /\ Merge(b, S) \in Namespaces
<1>1. ASSUME NEW e \in S, NEW p \in Changed(e) PROVE Merge(b, S)[p] = Do(b, e)[p]
  <2>1. p \in Paths
    BY DEF Changed
  <2>2. \A f \in S : p \in Changed(f) => f = e
    BY ApartForms
  <2>3. (CHOOSE f \in S : p \in Changed(f)) = e
    BY <2>2
  <2> QED BY <2>1, <2>3 DEF Merge
<1>2. ASSUME NEW p \in Paths, \A e \in S : p \notin Changed(e) PROVE Merge(b, S)[p] = b[p]
  BY <1>2 DEF Merge
<1>3. \A p \in Paths : Merge(b, S)[p] \in Entries
  <2>1. \A e \in S : Do(b, e) \in Namespaces
    BY DoForms
  <2>2. \A e \in S, p \in Paths : Do(b, e)[p] \in Entries
    BY <2>1 DEF Namespaces
  <2>3. \A p \in Paths : b[p] \in Entries
    BY DEF Namespaces
  <2> QED BY <1>1, <1>2, <2>2, <2>3
<1>4. Merge(b, S) = [p \in Paths |-> Merge(b, S)[p]]
  BY DEF Merge
<1> QED BY <1>1, <1>2, <1>3, <1>4 DEF Namespaces

LEMMA SameNamespace ==
  ASSUME NEW ns \in Namespaces, NEW ms \in Namespaces, \A p \in Paths : ns[p] = ms[p]
  PROVE  ns = ms
  BY DEF Namespaces

(* One more change after the others *)
LEMMA MergeLast ==
  ASSUME NEW b \in Namespaces, NEW S \in SUBSET Updates, NEW e \in Updates, e \notin S,
         AllApart(S \cup {e}), Possible(b, e)
  PROVE  ApplyEntry(Merge(b, S), e) = Merge(b, S \cup {e}) /\ Possible(Merge(b, S), e)
<1> DEFINE m == Merge(b, S)
           n == Merge(b, S \cup {e})
<1>1. AllApart(S) /\ S \cup {e} \in SUBSET Updates /\ e \in Ents
  BY DEF AllApart, Updates
<1>2. /\ \A f \in S : \A p \in Changed(f) : m[p] = Do(b, f)[p]
      /\ \A p \in Paths : (\A f \in S : p \notin Changed(f)) => m[p] = b[p]
      /\ m \in Namespaces
  BY <1>1, MergeForms
<1>3. /\ \A f \in S \cup {e} : \A p \in Changed(f) : n[p] = Do(b, f)[p]
      /\ \A p \in Paths : (\A f \in S \cup {e} : p \notin Changed(f)) => n[p] = b[p]
      /\ n \in Namespaces
  BY <1>1, MergeForms
<1> HIDE DEF m, n
<1>4. \A f \in S : Changed(f) \cap Reads(e) = {} /\ Changed(f) \cap Changed(e) = {}
  BY <1>1, ApartForms
<1>5. /\ \A r \in Reads(e) : r \in Paths /\ m[r] = b[r]
      /\ \A r \in Changed(e) : r \in Paths /\ m[r] = b[r]
  BY <1>2, <1>4, ReadsForms
<1>6. Possible(m, e)
  <2>1. Agree(b, m, Reads(e))
    BY <1>5 DEF Agree
  <2> QED BY <2>1, PossibleLocal
<1>7. ApplyEntry(m, e) = Do(m, e) /\ Do(m, e) \in Namespaces
  BY <1>1, <1>2, <1>6, ApplyForms, DoForms
<1>8. ASSUME NEW p \in Paths PROVE Do(m, e)[p] = n[p]
  <2>1. CASE p \in Changed(e)
    <3>1. Do(m, e)[p] = Do(b, e)[p]
      BY <1>2, <1>5, <2>1, DoSame
    <3> QED BY <1>3, <2>1, <3>1
  <2>2. CASE p \notin Changed(e)
    <3>1. Do(m, e)[p] = m[p]
      BY <1>2, <2>2, DoForms
    <3>2. m[p] = n[p]
      BY <1>2, <1>3, <2>2
    <3> QED BY <3>1, <3>2
  <2> QED BY <2>1, <2>2
<1>9. Do(m, e) = n
  BY <1>3, <1>7, <1>8, SameNamespace
<1> QED BY <1>6, <1>7, <1>9 DEF m, n

(* One of the changes first *)
LEMMA MergeFirst ==
  ASSUME NEW b \in Namespaces, NEW S \in SUBSET Updates, NEW e \in S,
         AllApart(S), \A f \in S : Possible(b, f)
  PROVE  /\ Merge(ApplyEntry(b, e), S \ {e}) = Merge(b, S)
         /\ \A f \in S \ {e} : Possible(ApplyEntry(b, e), f)
<1> DEFINE d == Do(b, e)
           R == S \ {e}
           m == Merge(b, S)
           n == Merge(d, R)
<1>1. AllApart(R) /\ R \in SUBSET Updates /\ e \in Updates /\ e \in Ents
  BY DEF AllApart, Updates
<1>2. ApplyEntry(b, e) = d /\ d \in Namespaces /\ \A p \in Paths \ Changed(e) : d[p] = b[p]
  BY <1>1, ApplyForms, DoForms
<1>3. \A f \in R : Changed(e) \cap Reads(f) = {} /\ Changed(e) \cap Changed(f) = {}
  BY ApartForms
<1> HIDE DEF d
<1>4. \A f \in R : /\ \A r \in Reads(f) : d[r] = b[r]
                   /\ \A r \in Changed(f) : r \in Paths /\ d[r] = b[r]
  BY <1>1, <1>2, <1>3, ReadsForms
<1>5. ASSUME NEW f \in R PROVE Possible(d, f)
  <2>1. Agree(b, d, Reads(f))
    BY <1>4 DEF Agree
  <2> QED BY <1>1, <2>1, PossibleLocal
<1>6. /\ \A f \in S : \A p \in Changed(f) : m[p] = Do(b, f)[p]
      /\ \A p \in Paths : (\A f \in S : p \notin Changed(f)) => m[p] = b[p]
      /\ m \in Namespaces
  BY MergeForms
<1>7. /\ \A f \in R : \A p \in Changed(f) : n[p] = Do(d, f)[p]
      /\ \A p \in Paths : (\A f \in R : p \notin Changed(f)) => n[p] = d[p]
      /\ n \in Namespaces
  BY <1>1, <1>2, MergeForms
<1> HIDE DEF m, n
<1>8. ASSUME NEW p \in Paths PROVE n[p] = m[p]
  <2>1. CASE p \in Changed(e)
    <3>1. n[p] = d[p]
      BY <1>3, <1>7, <2>1
    <3> QED BY <1>6, <2>1, <3>1 DEF d
  <2>2. ASSUME NEW f \in R, p \in Changed(f) PROVE n[p] = m[p]
    <3>1. Do(d, f)[p] = Do(b, f)[p]
      BY <1>1, <1>2, <1>4, <2>2, DoSame
    <3> QED BY <1>6, <1>7, <2>2, <3>1
  <2>3. CASE \A f \in S : p \notin Changed(f)
    BY <1>2, <1>6, <1>7, <2>3
  <2> QED BY <2>1, <2>2, <2>3
<1>9. n = m
  BY <1>6, <1>7, <1>8, SameNamespace
<1> QED BY <1>2, <1>5, <1>9 DEF m, n

LEMMA MergeNames ==
  ASSUME NEW b \in Namespaces, NEW d \in Namespaces, NEW S \in SUBSET Updates, AllApart(S), Agree(b, d, Paths)
  PROVE  /\ Agree(Merge(b, S), Merge(d, S), Paths)
         /\ \A f \in S : Possible(b, f) <=> Possible(d, f)
<1>1. /\ \A f \in S : \A p \in Changed(f) : Merge(b, S)[p] = Do(b, f)[p]
      /\ \A p \in Paths : (\A f \in S : p \notin Changed(f)) => Merge(b, S)[p] = b[p]
  BY MergeForms
<1>2. /\ \A f \in S : \A p \in Changed(f) : Merge(d, S)[p] = Do(d, f)[p]
      /\ \A p \in Paths : (\A f \in S : p \notin Changed(f)) => Merge(d, S)[p] = d[p]
  BY MergeForms
<1>3. \A f \in S : /\ \A p \in Paths : Do(b, f)[p].node = Do(d, f)[p].node
                   /\ Possible(b, f) <=> Possible(d, f)
  BY DoNames DEF Agree
<1>4. \A p \in Paths : b[p].node = d[p].node
  BY DEF Agree
<1>5. ASSUME NEW p \in Paths PROVE Merge(b, S)[p].node = Merge(d, S)[p].node
  <2>1. ASSUME NEW f \in S, p \in Changed(f) PROVE Merge(b, S)[p].node = Merge(d, S)[p].node
    BY <1>1, <1>2, <1>3, <2>1
  <2>2. CASE \A f \in S : p \notin Changed(f)
    BY <1>1, <1>2, <1>4, <2>2
  <2> QED BY <2>1, <2>2
<1> QED BY <1>3, <1>5 DEF Agree

LEMMA MergeKnown ==
  ASSUME NEW b \in Namespaces, NEW S \in SUBSET Updates, AllApart(S), NEW K, Known(b, K), \A e \in S : Makes(e, K)
  PROVE  Known(Merge(b, S), K)
<1>1. /\ \A f \in S : \A p \in Changed(f) : Merge(b, S)[p] = Do(b, f)[p]
      /\ \A p \in Paths : (\A f \in S : p \notin Changed(f)) => Merge(b, S)[p] = b[p]
  BY MergeForms
<1>2. \A f \in S, p \in Paths : IsFile(Do(b, f)[p]) => Do(b, f)[p] \in K
  BY DoKnown DEF Known
<1>3. ASSUME NEW p \in Paths, IsFile(Merge(b, S)[p]) PROVE Merge(b, S)[p] \in K
  <2>1. ASSUME NEW f \in S, p \in Changed(f) PROVE Merge(b, S)[p] \in K
    BY <1>1, <1>2, <1>3, <2>1
  <2>2. CASE \A f \in S : p \notin Changed(f)
    BY <1>1, <1>3, <2>2 DEF Known
  <2> QED BY <2>1, <2>2
<1> QED BY <1>3 DEF Known

LEMMA MergeNothing == ASSUME NEW b \in Namespaces PROVE Merge(b, {}) = b
<1>1. {} \in SUBSET Updates /\ AllApart({})
  BY DEF AllApart
<1>2. Merge(b, {}) \in Namespaces /\ \A p \in Paths : Merge(b, {})[p] = b[p]
  BY <1>1, MergeForms
<1> QED BY <1>2, SameNamespace

LEMMA RunMerge ==
  ASSUME NEW b \in Namespaces, NEW S \in SUBSET Updates, AllApart(S), \A e \in S : Possible(b, e),
         NEW es \in Seq(Ents), \A i \in 1..Len(es) : es[i] \in S,
         \A i, j \in 1..Len(es) : es[i] = es[j] => i = j,
         \A e \in S : \E i \in 1..Len(es) : es[i] = e
  PROVE  Final(b, es) = Merge(b, S)
<1> DEFINE f == Run(b, es)
           l == Len(es)
           Done(i) == {es[j] : j \in 1..i - 1}
           T == {i \in Nat : f[i] = Merge(b, Done(i))}
<1>1. l \in Nat /\ \A i \in 1..l : es[i] \in S
  BY LenProperties
<1>2. f[1] = b /\ \A i \in 1..l : f[i + 1] = ApplyEntry(f[i], es[i])
  BY RunForms
<1>3. Final(b, es) = f[l + 1]
  BY DEF Final
<1> HIDE DEF f
<1>4. 1 \in T
  <2>1. Done(1) = {}
    OBVIOUS
  <2> HIDE DEF Done
  <2> QED BY <1>2, <2>1, MergeNothing
<1>5. ASSUME NEW i \in 1..l, i \in T PROVE i + 1 \in T
  <2>1. f[i] = Merge(b, Done(i)) /\ i + 1 \in Nat
    BY <1>5
  <2>2. Done(i) \subseteq S /\ es[i] \in S /\ es[i] \notin Done(i)
    <3>1. \A j \in 1..i - 1 : j \in 1..l /\ j # i
      BY <1>1
    <3> QED BY <1>1, <3>1
  <2>3. Done(i + 1) = Done(i) \cup {es[i]}
    <3>1. \A j : j \in 1..(i + 1) - 1 <=> j \in 1..i - 1 \/ j = i
      BY <1>1
    <3> QED BY <3>1
  <2> HIDE DEF Done
  <2>4. AllApart(Done(i) \cup {es[i]}) /\ Possible(b, es[i]) /\ Done(i) \in SUBSET Updates /\ es[i] \in Updates
    BY <2>2 DEF AllApart
  <2>5. ApplyEntry(Merge(b, Done(i)), es[i]) = Merge(b, Done(i) \cup {es[i]})
    BY <2>2, <2>4, MergeLast
  <2> QED BY <1>2, <2>1, <2>3, <2>5
<1>6. Done(l + 1) = S
  <2>1. \A j : j \in 1..(l + 1) - 1 <=> j \in 1..l
    BY <1>1
  <2> QED BY <1>1, <2>1
<1> HIDE DEF T
<1>7. \A i \in 1..l + 1 : i \in T
  BY <1>1, <1>4, <1>5, Along
<1>8. l + 1 \in 1..l + 1
  BY <1>1
<1>9. f[l + 1] = Merge(b, Done(l + 1))
  BY <1>7, <1>8 DEF T
<1> QED BY <1>3, <1>6, <1>9

LEMMA SetToSeqForms ==
  ASSUME NEW S, IsFiniteSet(S)
  PROVE  /\ SetToSeq(S) \in Seq(S)
         /\ \A i, j \in 1..Len(SetToSeq(S)) : SetToSeq(S)[i] = SetToSeq(S)[j] => i = j
         /\ \A e \in S : \E i \in 1..Len(SetToSeq(S)) : SetToSeq(S)[i] = e
<1> DEFINE n == Cardinality(S)
           s == SetToSeq(S)
<1>1. n \in Nat /\ ExistsBijection(1..n, S)
  BY FS_CardinalityType
<1>2. PICK g : g \in Bijection(1..n, S)
  BY <1>1 DEF ExistsBijection
<1>3. g \in [1..n -> S] /\ IsInjective(g)
  BY <1>2, Zenon DEF Bijection, Injection
<1>4. s \in [1..n -> S] /\ IsInjective(s)
  BY <1>3, Zenon DEF SetToSeq
<1>5. s \in Injection(1..n, S)
  BY <1>4, Zenon DEF Injection
<1> HIDE DEF s
<1>6. IsFiniteSet(1..n) /\ Cardinality(1..n) = n
  <2>1. 0 \in Int /\ 1 \in Int /\ n \in Int
    BY <1>1
  <2> QED BY <1>1, <2>1, FS_Interval
<1>7. s \in Surjection(1..n, S)
  BY <1>5, <1>6, FS_Injection
<1>8. \A e \in S : \E i \in 1..n : s[i] = e
  BY <1>7, Zenon DEF Surjection
<1>9. s \in Seq(S) /\ Len(s) = n
  BY <1>1, <1>4
<1>10. \A i, j \in 1..n : s[i] = s[j] => i = j
  BY <1>4 DEF IsInjective
<1> QED BY <1>8, <1>9, <1>10 DEF s

-----------------------------------------------------------------------------
(* A change brings no file but the one it makes. *)
LEMMA DoAbsent ==
  ASSUME NEW ns \in Namespaces, NEW e \in Updates, NEW n \in Nodes, Absent(n, ns), e.op = "mknod" => e.node # n
  PROVE  Absent(n, Do(ns, e))
<1> SUFFICES ASSUME NEW p \in Paths, Do(ns, e)[p].node = n PROVE FALSE
  BY DEF Absent
<1>1. \A q \in Paths : ns[q].node # n
  BY DEF Absent
<1>2. CASE e.op = "mknod" /\ p = e.path /\ Do(ns, e)[p] = File(e.node)
  BY <1>2, NodeForms, EntForms
<1>3. CASE Do(ns, e)[p] \in {Empty, Dir}
  BY <1>3, NodeForms, NodesAssumption
<1>4. CASE \E q \in Paths : Do(ns, e)[p] = ns[q]
  BY <1>1, <1>4
<1> QED BY <1>2, <1>3, <1>4, DoFiles

LEMMA SameAbsent ==
  ASSUME NEW ns, NEW ms, Agree(ns, ms, Paths), NEW n, Absent(n, ns)
  PROVE  Absent(n, ms)
  BY DEF Agree, Absent

LEMMA SameUnique ==
  ASSUME NEW ns, NEW ms, Agree(ns, ms, Paths), Unique(ns)
  PROVE  Unique(ms)
  BY DEF Agree, Unique, IsFile


LEMMA SameWellFormed ==
  ASSUME NEW ns, WellFormed(ns), NEW ms \in Namespaces, Agree(ns, ms, Paths),
         \A p \in Paths : ~IsFile(ns[p]) => ms[p] = ns[p]
  PROVE  WellFormed(ms)
<1>1. ns \in Namespaces /\ Unique(ms)
  BY WellFormedParts, SameUnique
<1>2. \A p \in Paths : ns[p].node = ms[p].node
  BY DEF Agree
<1>3. ASSUME NEW p \in Paths, ms[p].node # NONE PROVE HasParent(ms, p)
  <2>1. HasParent(ns, p)
    BY <1>2, <1>3, WellFormedParts
  <2>2. Len(p) > 1 => Up(p) \in Paths
    BY Parents
  <2> QED BY <1>2, <2>1, <2>2 DEF HasParent
<1>4. ASSUME NEW p \in Paths, ~IsFile(ms[p]) PROVE ms[p].ver = 0
  <2>1. ~IsFile(ns[p])
    BY <1>2, <1>4 DEF IsFile
  <2> QED BY <2>1, WellFormedParts
<1> QED BY <1>1, <1>3, <1>4, WellFormedParts

=================================================================================
