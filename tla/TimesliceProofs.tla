---------------------------- MODULE TimesliceProofs ----------------------------
(***************************************************************************)
(* The lists of Timeslice are lists, whatever is opened, freshened, freed  *)
(* and collected, for any files, clients and ring; and from that, what the *)
(* collector closes and what it does not.                                  *)
(***************************************************************************)
EXTENDS Timeslice, FiniteSetTheorems, TLAPS

-----------------------------------------------------------------------------
(* Least elements stand for induction. *)

LEMMA LeastNatural ==
  ASSUME NEW T, T \subseteq Nat, T # {}
  PROVE  \E n \in T : \A m \in T : n <= m
<1> DEFINE Below(n) == 0..n
           R == StrictSubsetOrdering(Nat)
           Belows == {Below(n) : n \in T}
<1>1. Belows \subseteq FiniteSubsetsOf(Nat) /\ Belows # {}
  <2>1. \A n \in T : Below(n) \in SUBSET Nat /\ IsFiniteSet(Below(n))
    BY FS_Interval
  <2> QED BY <2>1 DEF FiniteSubsetsOf
<1>2. PICK B \in Belows : \A C \in Belows : ~ (<<C, B>> \in R)
  <2> HIDE DEF Belows, R
  <2>1. IsWellFoundedOn(R, FiniteSubsetsOf(Nat))
    BY FS_StrictSubsetOrderingWellFounded DEF R
  <2> QED BY <1>1, <2>1, WFMin
<1>3. PICK n \in T : B = Below(n)
  OBVIOUS
<1>4. ASSUME NEW m \in T, m < n PROVE FALSE
  <2>1. Below(m) \subseteq Below(n) /\ Below(m) # Below(n)
    <3>1. n \in Below(n) /\ n \notin Below(m)
      BY <1>4
    <3> QED BY <1>4, <3>1
  <2>2. <<Below(m), Below(n)>> \in R
    BY <2>1 DEF StrictSubsetOrdering
  <2> QED BY <1>2, <1>3, <2>2
<1> QED BY <1>4

-----------------------------------------------------------------------------
(* Lists as places: the list a file is in, and its position there, from 0.    *)

Placements == [Files -> Lists \cup {None}]
MaybeFiles == Files \cup {NULL}

LinkTypes(L) ==
  /\ L.head \in [Lists -> MaybeFiles]
  /\ L.next \in [Files -> MaybeFiles] /\ L.previous \in [Files -> MaybeFiles]
  /\ L.slice \in Placements

(* g comes next after f. *)
Follows(w, p, f, g) == w[f] # None /\ w[g] = w[f] /\ p[g] = p[f] + 1

Placed(L, w, p) ==
  /\ LinkTypes(L) /\ w \in Placements /\ p \in [Files -> Nat]
  /\ \A s \in Lists, f \in Files : L.head[s] = f <=> w[f] = s /\ p[f] = 0
  /\ \A f, g \in Files : L.next[f] = g <=> Follows(w, p, f, g)
  /\ \A f, g \in Files : L.previous[g] = f <=> Follows(w, p, f, g)
  /\ \A f \in Files : w[f] # None /\ p[f] > 0 => L.previous[f] # NULL
  /\ \A f, g \in Files : w[f] # None /\ w[g] = w[f] /\ p[g] = p[f] => g = f

LEMMA ListNames ==
  /\ None \notin Lists /\ NULL \notin Files /\ Garbage \in Lists /\ Freed \in Lists
  /\ Garbage \notin Ring /\ Freed \notin Ring /\ Garbage # Freed /\ Ring \subseteq Lists
  BY SlicesAssumption, NullAssumption DEF None, Lists, Ring, Garbage, Freed

(* Every position before that of a file is taken. *)
LEMMA Filled ==
  ASSUME NEW L, NEW w, NEW p, Placed(L, w, p), NEW f \in Files, w[f] # None, NEW k \in 0..p[f]
  PROVE  \E g \in Files : w[g] = w[f] /\ p[g] = k
<1>0. p \in [Files -> Nat]
  BY DEF Placed
<1> DEFINE T == {n \in 0..p[f] : ~ \E g \in Files : w[g] = w[f] /\ p[g] = p[f] - n}
<1>1. CASE T = {}
  <2>1. p[f] - k \in 0..p[f] /\ p[f] - (p[f] - k) = k
    BY <1>0
  <2>2. p[f] - k \notin T
    BY <1>1
  <2> QED BY <2>1, <2>2
<1>2. ASSUME T # {} PROVE FALSE
  <2>1. T \subseteq Nat
    BY <1>0
  <2>2. PICK n \in T : \A m \in T : n <= m
    BY <2>1, <1>2, LeastNatural
  <2>3. n \in 1..p[f]
    BY <1>0, <2>2
  <2>4. n - 1 \notin T
    BY <2>2, <2>3
  <2>5. PICK g \in Files : w[g] = w[f] /\ p[g] = p[f] - (n - 1)
    BY <1>0, <2>3, <2>4
  <2>6. PICK h \in Files : L.previous[g] = h
    BY <1>0, <2>3, <2>5 DEF Placed, LinkTypes, MaybeFiles
  <2>7. w[h] = w[f] /\ p[h] = p[f] - n
    BY <1>0, <2>3, <2>5, <2>6 DEF Placed, Follows
  <2> QED BY <2>2, <2>7
<1> QED BY <1>1, <1>2

(* No list is longer than there are files. *)
LEMMA PlacesAreBounded ==
  ASSUME NEW L, NEW w, NEW p, Placed(L, w, p), NEW f \in Files, w[f] # None
  PROVE  p[f] < Cardinality(Files)
<1>0. p \in [Files -> Nat] /\ p[f] \in Nat
  BY DEF Placed
<1> DEFINE At(k) == CHOOSE g \in Files : w[g] = w[f] /\ p[g] = k
           at == [k \in 0..p[f] |-> At(k)]
<1>1. \A k \in 0..p[f] : at[k] \in Files /\ p[at[k]] = k
  <2> SUFFICES ASSUME NEW k \in 0..p[f] PROVE At(k) \in Files /\ p[At(k)] = k
    OBVIOUS
  <2> QED BY Filled
<1>2. at \in Injection(0..p[f], Files)
  <2>1. at \in [0..p[f] -> Files]
    BY <1>1
  <2>2. \A i, j \in 0..p[f] : at[i] = at[j] => i = j
    BY <1>1
  <2> HIDE DEF at
  <2> QED BY <2>1, <2>2 DEF Injection, IsInjective
<1>3. Cardinality(0..p[f]) <= Cardinality(Files)
  <2> HIDE DEF at
  <2> QED BY <1>2, FilesAssumption, FS_Injection
<1>4. Cardinality(0..p[f]) = p[f] + 1
  BY <1>0, FS_Interval
<1>5. Cardinality(Files) \in Nat
  BY FilesAssumption, FS_CardinalityType
<1> QED BY <1>0, <1>3, <1>4, <1>5

(* The n-th file of list s is the one at position n. *)
At(w, p, s, n) ==
  IF \E f \in Files : w[f] = s /\ p[f] = n THEN CHOOSE f \in Files : w[f] = s /\ p[f] = n ELSE NULL

LEMMA AtIs ==
  ASSUME NEW L, NEW w, NEW p, Placed(L, w, p), NEW s \in Lists, NEW n \in Nat
  PROVE  /\ At(w, p, s, n) \in MaybeFiles
         /\ \A f \in Files : At(w, p, s, n) = f <=> w[f] = s /\ p[f] = n
<1>1. CASE \E f \in Files : w[f] = s /\ p[f] = n
  <2>1. PICK g \in Files : w[g] = s /\ p[g] = n
    BY <1>1
  <2>2. At(w, p, s, n) \in Files /\ w[At(w, p, s, n)] = s /\ p[At(w, p, s, n)] = n
    BY <1>1 DEF At
  <2> QED BY <2>2, ListNames DEF Placed, MaybeFiles
<1>2. CASE ~ \E f \in Files : w[f] = s /\ p[f] = n
  BY <1>2, ListNames DEF At, MaybeFiles
<1> QED BY <1>1, <1>2

LEMMA NthIs ==
  ASSUME NEW L, NEW w, NEW p, Placed(L, w, p), NEW s \in Lists
  PROVE  Nth(L, s) = [n \in 0..Cardinality(Files) |-> At(w, p, s, n)]
<1> DEFINE N == Cardinality(Files)
           Is(g) == g = [n \in 0..N |-> IF n = 0 THEN L.head[s]
                                       ELSE IF g[n - 1] = NULL THEN NULL ELSE L.next[g[n - 1]]]
           at == [n \in 0..N |-> At(w, p, s, n)]
<1>0. N \in Nat
  BY FilesAssumption, FS_CardinalityType
<1>1. Nth(L, s) = CHOOSE g : Is(g)
  BY DEF Nth
<1>2. Is(at)
  <2>1. At(w, p, s, 0) = L.head[s]
    <3>0. /\ At(w, p, s, 0) \in MaybeFiles
          /\ \A f \in Files : At(w, p, s, 0) = f <=> w[f] = s /\ p[f] = 0
      <4>1. 0 \in Nat
        OBVIOUS
      <4> HIDE DEF N, Is, at
      <4> QED BY ONLY Placed(L, w, p), s \in Lists, <4>1, AtIs
    <3>1. L.head[s] \in MaybeFiles /\ At(w, p, s, 0) \in MaybeFiles
      BY <3>0 DEF Placed, LinkTypes
    <3>2. \A f \in Files : L.head[s] = f <=> At(w, p, s, 0) = f
      BY <3>0 DEF Placed
    <3> QED BY <3>1, <3>2 DEF MaybeFiles
  <2>2. ASSUME NEW n \in 0..N, n # 0
        PROVE  At(w, p, s, n) = IF At(w, p, s, n - 1) = NULL THEN NULL ELSE L.next[At(w, p, s, n - 1)]
    <3>0. n \in Nat /\ n - 1 \in Nat /\ p \in [Files -> Nat]
      BY <1>0, <2>2 DEF Placed
    <3>1. At(w, p, s, n) \in MaybeFiles /\ At(w, p, s, n - 1) \in MaybeFiles
      BY <3>0, AtIs
    <3>2. \A f \in Files : /\ At(w, p, s, n) = f <=> w[f] = s /\ p[f] = n
                           /\ At(w, p, s, n - 1) = f <=> w[f] = s /\ p[f] = n - 1
      BY <3>0, AtIs
    <3>3. CASE At(w, p, s, n - 1) = NULL
      <4>1. ASSUME NEW f \in Files, At(w, p, s, n) = f PROVE FALSE
        <5>1. w[f] = s /\ p[f] = n /\ s # None
          BY <4>1, <3>0, <3>2, ListNames
        <5>2. PICK g \in Files : w[g] = s /\ p[g] = n - 1
          BY <5>1, <3>0, Filled
        <5> QED BY <5>2, <3>2, <3>3, ListNames
      <4> QED BY <4>1, <3>1, <3>3 DEF MaybeFiles
    <3>4. CASE At(w, p, s, n - 1) # NULL
      <4>1. PICK g \in Files : At(w, p, s, n - 1) = g /\ w[g] = s /\ p[g] = n - 1
        BY <3>0, <3>4, <3>1, <3>2 DEF MaybeFiles
      <4>2. \A f \in Files : L.next[g] = f <=> At(w, p, s, n) = f
        BY <4>1, <3>0, <3>2, ListNames DEF Placed, Follows
      <4>3. L.next[g] \in MaybeFiles
        BY DEF Placed, LinkTypes
      <4>4. L.next[g] = At(w, p, s, n)
        BY <4>2, <4>3, <3>1 DEF MaybeFiles
      <4> QED BY <4>1, <4>4, <3>4
    <3> QED BY <3>3, <3>4
  <2> QED BY <1>0, <2>1, <2>2
<1>3. ASSUME NEW g, Is(g) PROVE g = at
  <2> DEFINE T == {n \in 0..N : g[n] # at[n]}
  <2>1. ASSUME T # {} PROVE FALSE
    <3>0. T \subseteq Nat
      BY <1>0
    <3>1. PICK n \in T : \A m \in T : n <= m
      <4> HIDE DEF T
      <4> QED BY <3>0, <2>1, LeastNatural
    <3>2. n # 0
      <4>1. g[0] = L.head[s] /\ at[0] = L.head[s]
        <5> HIDE DEF at
        <5> QED BY <1>0, <1>2, <1>3
      <4> QED BY <3>1, <4>1
    <3>3. n - 1 \in 0..N /\ n - 1 \notin T
      BY <1>0, <3>1, <3>2
    <3>4. g[n - 1] = at[n - 1]
      BY <3>3
    <3>5. /\ g[n] = IF g[n - 1] = NULL THEN NULL ELSE L.next[g[n - 1]]
          /\ at[n] = IF at[n - 1] = NULL THEN NULL ELSE L.next[at[n - 1]]
      <4> HIDE DEF at
      <4> QED BY <1>2, <1>3, <3>2
    <3> HIDE DEF at
    <3> QED BY <3>1, <3>4, <3>5
  <2>2. \A n \in 0..N : g[n] = at[n]
    BY <2>1
  <2>3. DOMAIN g = 0..N /\ DOMAIN at = 0..N /\ g = [n \in 0..N |-> g[n]] /\ at = [n \in 0..N |-> at[n]]
    BY <1>2, <1>3
  <2> QED BY <2>2, <2>3
<1>4. (CHOOSE g : Is(g)) = at
  <2> HIDE DEF Is, at
  <2> QED BY <1>2, <1>3
<1> QED BY <1>1, <1>4

(* A list has the files that are placed in it. *)
LEMMA MembersAre ==
  ASSUME NEW L, NEW w, NEW p, Placed(L, w, p), NEW s \in Lists
  PROVE  Members(L, s) = {f \in Files : w[f] = s}
<1> DEFINE N == Cardinality(Files)
<1>0. N \in Nat
  BY FilesAssumption, FS_CardinalityType
<1>1. Members(L, s) = {At(w, p, s, n) : n \in 0..N} \ {NULL}
  <2>1. Nth(L, s) = [n \in 0..N |-> At(w, p, s, n)]
    BY NthIs
  <2> QED BY <2>1 DEF Members
<1>2. ASSUME NEW n \in 0..N, At(w, p, s, n) # NULL
      PROVE  At(w, p, s, n) \in Files /\ w[At(w, p, s, n)] = s
  <2>1. n \in Nat
    BY <1>0
  <2> QED BY <2>1, <1>2, AtIs DEF MaybeFiles
<1>3. ASSUME NEW f \in Files, w[f] = s
      PROVE  \E n \in 0..N : At(w, p, s, n) = f
  <2>1. p[f] \in Nat /\ p[f] < N
    BY <1>3, PlacesAreBounded, ListNames DEF Placed
  <2>2. p[f] \in 0..N
    BY <1>0, <2>1
  <2>3. At(w, p, s, p[f]) = f
    BY <2>1, <1>3, AtIs
  <2> QED BY <2>2, <2>3
<1> QED BY <1>1, <1>2, <1>3, ListNames

-----------------------------------------------------------------------------
(* The operations on the lists, and where they leave the files *)

(* A file believes to be in the list it is in, unless it is behind the head of
   the garbage. *)
Sliced(L, w, p) ==
  \A f \in Files : w[f] # None => L.slice[f] = w[f] \/ (w[f] = Garbage /\ p[f] > 0)

Sound(L, w, p) == Placed(L, w, p) /\ Sliced(L, w, p)

AfterInsert(w, p, f, s) ==
  [g \in Files |-> IF g = f THEN 0 ELSE IF w[g] = s THEN p[g] + 1 ELSE p[g]]

LEMMA InsertIsSound ==
  ASSUME NEW L, NEW w, NEW p, Sound(L, w, p), NEW f \in Files, w[f] = None, NEW s \in Lists
  PROVE  Sound(Insert(L, f, s), [w EXCEPT ![f] = s], AfterInsert(w, p, f, s))
<1> DEFINE M == Insert(L, f, s)
           v == [w EXCEPT ![f] = s]
           q == AfterInsert(w, p, f, s)
<1>0. /\ LinkTypes(L) /\ w \in Placements /\ p \in [Files -> Nat]
      /\ s # None /\ f # NULL /\ NULL \notin Files
  BY ListNames DEF Sound, Placed
<1>1. /\ M.head = [L.head EXCEPT ![s] = f]
      /\ M.next = [L.next EXCEPT ![f] = L.head[s]]
      /\ M.previous = [g \in Files |-> IF g = L.head[s] THEN f ELSE L.previous[g]]
      /\ M.slice = [L.slice EXCEPT ![f] = s]
  BY DEF Insert
<1>2. LinkTypes(M) /\ v \in Placements /\ q \in [Files -> Nat]
  <2>1. LinkTypes(M)
    BY <1>0, <1>1 DEF LinkTypes, MaybeFiles, Placements
  <2> QED BY <1>0, <2>1 DEF AfterInsert, Placements
<1>3. /\ v[f] = s /\ q[f] = 0
      /\ \A g \in Files \ {f} : /\ v[g] = w[g]
                                /\ w[g] = s => q[g] = p[g] + 1
                                /\ w[g] # s => q[g] = p[g]
  BY <1>0 DEF AfterInsert, Placements
<1>4. \A g \in Files : L.next[g] # f /\ L.previous[g] # f /\ L.next[f] = NULL /\ L.previous[f] = NULL
  BY <1>0 DEF Sound, Placed, Follows, LinkTypes, MaybeFiles
<1>5. \A t \in Lists, g \in Files : L.head[t] = g <=> w[g] = t /\ p[g] = 0
  BY DEF Sound, Placed
<1> HIDE DEF M, v, q
<1>6. \A t \in Lists, g \in Files : M.head[t] = g <=> v[g] = t /\ q[g] = 0
  <2>1. M.head[s] = f /\ \A t \in Lists \ {s} : M.head[t] = L.head[t]
    BY <1>0, <1>1 DEF LinkTypes
  <2>2. \A g \in Files : M.head[s] = g <=> v[g] = s /\ q[g] = 0
    BY <1>0, <1>3, <2>1
  <2>3. \A t \in Lists \ {s}, g \in Files : M.head[t] = g <=> v[g] = t /\ q[g] = 0
    BY <1>0, <1>3, <1>5, <2>1, ListNames
  <2> QED BY <2>2, <2>3
<1>7. \A g, h \in Files : M.next[g] = h <=> Follows(v, q, g, h)
  BY <1>0, <1>1, <1>3, <1>4, <1>5 DEF LinkTypes, Follows, Sound, Placed
<1>8. \A g, h \in Files : M.previous[h] = g <=> Follows(v, q, g, h)
  BY <1>0, <1>1, <1>3, <1>4, <1>5 DEF LinkTypes, Follows, Sound, Placed
<1>9. \A g \in Files : v[g] # None /\ q[g] > 0 => M.previous[g] # NULL
  BY <1>0, <1>1, <1>3, <1>4, <1>5 DEF LinkTypes, Sound, Placed
<1>10. \A g, h \in Files : v[g] # None /\ v[h] = v[g] /\ q[h] = q[g] => h = g
  BY <1>0, <1>3 DEF Sound, Placed
<1>11. Sliced(M, v, q)
  BY <1>0, <1>1, <1>3 DEF Sound, Sliced, LinkTypes, Placements
<1>12. Placed(M, v, q)
  BY <1>2, <1>6, <1>7, <1>8, <1>9, <1>10 DEF Placed
<1> QED BY <1>11, <1>12 DEF Sound, M, v, q

AfterRemove(w, p, f) == [g \in Files |-> IF w[g] = w[f] /\ p[g] > p[f] THEN p[g] - 1 ELSE p[g]]

LEMMA RemoveIsSound ==
  ASSUME NEW L, NEW w, NEW p, Sound(L, w, p), NEW f \in Files, w[f] # None
  PROVE  Sound(Remove(L, f), [w EXCEPT ![f] = None], AfterRemove(w, p, f))
<1> DEFINE M == Remove(L, f)
           v == [w EXCEPT ![f] = None]
           q == AfterRemove(w, p, f)
<1>0. /\ LinkTypes(L) /\ w \in Placements /\ p \in [Files -> Nat]
      /\ w[f] \in Lists /\ f # NULL /\ NULL \notin Files
  BY ListNames DEF Sound, Placed, Placements
<1>1. /\ M.head = IF L.previous[f] = NULL THEN [L.head EXCEPT ![L.slice[f]] = L.next[f]] ELSE L.head
      /\ M.next = [g \in Files |-> IF g = f THEN NULL ELSE IF g = L.previous[f] THEN L.next[f] ELSE L.next[g]]
      /\ M.previous = [g \in Files |-> IF g = f THEN NULL ELSE IF g = L.next[f] THEN L.previous[f] ELSE L.previous[g]]
      /\ M.slice = [g \in Files |-> IF g = f THEN None ELSE IF g = L.next[f] THEN L.slice[f] ELSE L.slice[g]]
  BY DEF Remove
<1>2. LinkTypes(M) /\ v \in Placements /\ q \in [Files -> Nat]
  <2>1. LinkTypes(M)
    <3>1. M.head \in [Lists -> MaybeFiles]
      <4>1. L.next[f] \in MaybeFiles /\ L.head \in [Lists -> MaybeFiles]
        BY <1>0 DEF LinkTypes
      <4>2. CASE L.previous[f] = NULL
        <5>1. M.head = [L.head EXCEPT ![L.slice[f]] = L.next[f]]
          BY <1>1, <4>2
        <5> HIDE DEF M
        <5> QED BY <4>1, <5>1
      <4>3. CASE L.previous[f] # NULL
        BY <1>1, <4>1, <4>3
      <4> QED BY <4>2, <4>3
    <3>2. M.next \in [Files -> MaybeFiles] /\ M.previous \in [Files -> MaybeFiles]
      BY <1>0, <1>1 DEF LinkTypes, MaybeFiles
    <3>3. M.slice \in Placements
      BY <1>0, <1>1 DEF LinkTypes, Placements
    <3> QED BY <3>1, <3>2, <3>3 DEF LinkTypes
  <2>2. q \in [Files -> Nat]
    BY <1>0 DEF AfterRemove
  <2> QED BY <1>0, <2>1, <2>2 DEF Placements
<1>3. /\ v[f] = None
      /\ \A g \in Files \ {f} : v[g] = w[g]
      /\ \A g \in Files : /\ w[g] = w[f] /\ p[g] > p[f] => q[g] = p[g] - 1
                          /\ ~ (w[g] = w[f] /\ p[g] > p[f]) => q[g] = p[g]
  BY <1>0 DEF AfterRemove, Placements
<1>4. /\ \A t \in Lists, g \in Files : L.head[t] = g <=> w[g] = t /\ p[g] = 0
      /\ \A g, h \in Files : L.next[g] = h <=> Follows(w, p, g, h)
      /\ \A g, h \in Files : L.previous[h] = g <=> Follows(w, p, g, h)
      /\ \A g \in Files : w[g] # None /\ p[g] > 0 => L.previous[g] # NULL
      /\ \A g, h \in Files : w[g] # None /\ w[h] = w[g] /\ p[h] = p[g] => h = g
  BY DEF Sound, Placed
<1>5. L.previous[f] = NULL <=> p[f] = 0
  BY <1>0, <1>4 DEF Follows, LinkTypes, MaybeFiles
<1>6. p[f] = 0 => L.slice[f] = w[f]
  BY <1>0 DEF Sound, Sliced
<1> HIDE DEF M, v, q
<1>7. \A t \in Lists, g \in Files : M.head[t] = g <=> v[g] = t /\ q[g] = 0
  <2>1. CASE p[f] = 0
    <3>1. M.head = [L.head EXCEPT ![w[f]] = L.next[f]]
      BY <1>1, <1>5, <1>6, <2>1
    <3> QED BY <1>0, <1>3, <1>4, <2>1, <3>1, ListNames DEF Follows, LinkTypes
  <2>2. CASE p[f] > 0
    <3>1. M.head = L.head
      BY <1>1, <1>5, <2>2
    <3> QED BY <1>0, <1>3, <1>4, <2>2, <3>1, ListNames DEF Follows, LinkTypes
  <2> QED BY <1>0, <2>1, <2>2
<1>8. \A g, h \in Files : M.next[g] = h <=> Follows(v, q, g, h)
  BY <1>0, <1>1, <1>3, <1>4, <1>5, SMTT(30) DEF LinkTypes, Follows
<1>9. \A g, h \in Files : M.previous[h] = g <=> Follows(v, q, g, h)
  <2> SUFFICES ASSUME NEW g \in Files, NEW h \in Files PROVE M.previous[h] = g <=> Follows(v, q, g, h)
    OBVIOUS
  <2>1. CASE h = f
    BY <1>0, <1>1, <1>3, <2>1 DEF Follows
  <2>2. CASE h # f /\ h = L.next[f]
    BY <1>0, <1>1, <1>3, <1>4, <2>2 DEF LinkTypes, Follows
  <2>3. CASE h # f /\ h # L.next[f]
    <3>1. M.previous[h] = L.previous[h]
      BY <1>1, <2>3
    <3>2. CASE w[h] # w[f] \/ p[h] < p[f]
      BY <1>0, <1>3, <1>4, <3>1, <3>2, <2>3 DEF Follows
    <3>3. CASE w[h] = w[f] /\ p[h] > p[f]
      <4>1. p[h] > p[f] + 1
        BY <1>0, <1>4, <2>3, <3>3, ListNames DEF Follows
      <4> QED BY <1>0, <1>3, <1>4, <3>1, <3>3, <4>1, <2>3 DEF Follows
    <3> QED BY <1>0, <1>4, <2>3, <3>2, <3>3, ListNames
  <2> QED BY <2>1, <2>2, <2>3
<1>10. \A g \in Files : v[g] # None /\ q[g] > 0 => M.previous[g] # NULL
  BY <1>0, <1>1, <1>3, <1>4, <1>5 DEF LinkTypes, Follows
<1>11. \A g, h \in Files : v[g] # None /\ v[h] = v[g] /\ q[h] = q[g] => h = g
  BY <1>0, <1>3, <1>4
<1>12. Sliced(M, v, q)
  BY <1>0, <1>1, <1>3, <1>4 DEF Sound, Sliced, LinkTypes, Follows
<1>13. Placed(M, v, q)
  BY <1>2, <1>7, <1>8, <1>9, <1>10, <1>11 DEF Placed
<1> QED BY <1>12, <1>13 DEF Sound, M, v, q

(* The last file of a list is the one after all others. *)
LEMMA TailIs ==
  ASSUME NEW L, NEW w, NEW p, Placed(L, w, p), NEW s \in Lists, L.head[s] # NULL
  PROVE  /\ Tail(L, s) \in Files /\ w[Tail(L, s)] = s /\ L.next[Tail(L, s)] = NULL
         /\ \A g \in Files : w[g] = s => p[g] <= p[Tail(L, s)]
<1>0. /\ LinkTypes(L) /\ p \in [Files -> Nat] /\ s # None /\ NULL \notin Files
      /\ Cardinality(Files) \in Nat
  BY ListNames, FilesAssumption, FS_CardinalityType DEF Placed
<1>1. L.head[s] \in Files /\ w[L.head[s]] = s
  BY <1>0 DEF Placed, LinkTypes, MaybeFiles
<1> DEFINE After(f) == Cardinality(Files) - p[f]
           T == {After(f) : f \in {g \in Files : w[g] = s}}
<1>2. T \subseteq Nat /\ T # {}
  <2>1. \A f \in Files : w[f] = s => After(f) \in Nat
    BY <1>0, PlacesAreBounded
  <2> QED BY <1>1, <2>1
<1>3. PICK n \in T : \A m \in T : n <= m
  <2> HIDE DEF T
  <2> QED BY <1>2, LeastNatural
<1>4. PICK t \in Files : w[t] = s /\ n = After(t)
  OBVIOUS
<1>5. \A g \in Files : w[g] = s => p[g] <= p[t]
  <2> SUFFICES ASSUME NEW g \in Files, w[g] = s PROVE p[g] <= p[t]
    OBVIOUS
  <2>1. After(t) <= After(g)
    BY <1>3, <1>4
  <2> QED BY <1>0, <2>1
<1>6. ASSUME NEW g \in Files, w[g] = s PROVE L.next[g] = NULL <=> p[g] = p[t]
  <2>1. CASE p[g] = p[t]
    <3>1. \A h \in Files : L.next[g] # h
      BY <1>0, <1>5, <1>6, <2>1 DEF Placed, Follows
    <3> QED BY <1>0, <2>1, <3>1 DEF LinkTypes, MaybeFiles
  <2>2. CASE p[g] # p[t]
    <3>1. p[g] + 1 \in 0..p[t]
      BY <1>0, <1>5, <1>6, <2>2
    <3>2. PICK h \in Files : w[h] = s /\ p[h] = p[g] + 1
      BY <1>0, <1>4, <3>1, Filled
    <3> QED BY <1>0, <1>6, <2>2, <3>2 DEF Placed, Follows
  <2> QED BY <2>1, <2>2
<1>7. Members(L, s) = {f \in Files : w[f] = s}
  BY MembersAre
<1>8. t \in Members(L, s) /\ L.next[t] = NULL
  BY <1>4, <1>6, <1>7
<1>9. Tail(L, s) \in Members(L, s) /\ L.next[Tail(L, s)] = NULL
  BY <1>8 DEF Tail
<1> QED BY <1>0, <1>5, <1>6, <1>7, <1>9

Thrown(w, s) == [g \in Files |-> IF w[g] = s THEN Garbage ELSE w[g]]
AfterThrow(w, p, t) == [g \in Files |-> IF w[g] = Garbage THEN p[g] + p[t] + 1 ELSE p[g]]

LEMMA ToGarbageIsSound ==
  ASSUME NEW L, NEW w, NEW p, Sound(L, w, p), NEW s \in Ring, L.head[s] # NULL
  PROVE  Sound(ToGarbage(L, s), Thrown(w, s), AfterThrow(w, p, Tail(L, s)))
<1> DEFINE M == ToGarbage(L, s)
           t == Tail(L, s)
           v == Thrown(w, s)
           q == AfterThrow(w, p, t)
           a == L.head[s]
           b == L.head[Garbage]
<1>0. /\ LinkTypes(L) /\ w \in Placements /\ p \in [Files -> Nat] /\ NULL \notin Files
      /\ s \in Lists /\ s # None /\ s # Garbage /\ Garbage # None /\ Garbage \in Lists
  BY ListNames DEF Sound, Placed
<1>t. t \in Files /\ w[t] = s /\ L.next[t] = NULL /\ \A g \in Files : w[g] = s => p[g] <= p[t]
  BY <1>0, TailIs DEF Sound
<1>a. /\ a \in Files /\ w[a] = s /\ p[a] = 0
      /\ b \in MaybeFiles
      /\ \A g \in Files : b = g <=> w[g] = Garbage /\ p[g] = 0
  BY <1>0 DEF Sound, Placed, LinkTypes, MaybeFiles
<1>1. /\ M.head = [L.head EXCEPT ![Garbage] = a, ![s] = NULL]
      /\ M.next = [L.next EXCEPT ![t] = b]
      /\ M.previous = [g \in Files |-> IF g = b THEN t ELSE L.previous[g]]
      /\ M.slice = [L.slice EXCEPT ![a] = Garbage]
  BY DEF ToGarbage
<1>2. v \in Placements /\ q \in [Files -> Nat]
  BY <1>0, <1>t DEF Thrown, AfterThrow, Placements
<1>3. \A g \in Files : /\ w[g] = s => v[g] = Garbage /\ q[g] = p[g]
                       /\ w[g] = Garbage => v[g] = Garbage /\ q[g] = p[g] + p[t] + 1
                       /\ w[g] # s /\ w[g] # Garbage => v[g] = w[g] /\ q[g] = p[g]
  BY <1>0 DEF Thrown, AfterThrow
<1>4. /\ \A l \in Lists, g \in Files : L.head[l] = g <=> w[g] = l /\ p[g] = 0
      /\ \A g, h \in Files : L.next[g] = h <=> Follows(w, p, g, h)
      /\ \A g, h \in Files : L.previous[h] = g <=> Follows(w, p, g, h)
      /\ \A g \in Files : w[g] # None /\ p[g] > 0 => L.previous[g] # NULL
      /\ \A g, h \in Files : w[g] # None /\ w[h] = w[g] /\ p[h] = p[g] => h = g
  BY DEF Sound, Placed
<1> HIDE DEF M, t, v, q, a, b
<1>5. LinkTypes(M)
  <2>1. M.head \in [Lists -> MaybeFiles]
    BY <1>0, <1>1, <1>a DEF LinkTypes, MaybeFiles
  <2>2. M.next \in [Files -> MaybeFiles] /\ M.previous \in [Files -> MaybeFiles]
    BY <1>0, <1>1, <1>t, <1>a DEF LinkTypes, MaybeFiles
  <2>3. M.slice \in Placements
    BY <1>0, <1>1, <1>a DEF LinkTypes, Placements
  <2> QED BY <2>1, <2>2, <2>3 DEF LinkTypes
<1>6. \A l \in Lists, g \in Files : M.head[l] = g <=> v[g] = l /\ q[g] = 0
  <2>1. /\ M.head[s] = NULL /\ M.head[Garbage] = a
        /\ \A l \in Lists : l # s /\ l # Garbage => M.head[l] = L.head[l]
    BY <1>0, <1>1 DEF LinkTypes
  <2>2. \A g \in Files : v[g] # s /\ q[g] \in Nat
    BY <1>0, <1>2, <1>3
  <2>3. \A g \in Files : a = g <=> v[g] = Garbage /\ q[g] = 0
    BY <1>0, <1>3, <1>4, <1>a, <1>t
  <2>4. ASSUME NEW l \in Lists, l # s, l # Garbage, NEW g \in Files
        PROVE  M.head[l] = g <=> v[g] = l /\ q[g] = 0
    BY <1>3, <1>4, <2>1, <2>4
  <2> QED BY <1>0, <2>1, <2>2, <2>3, <2>4
<1>7. \A g, h \in Files : Follows(v, q, g, h) <=> Follows(w, p, g, h) \/ (g = t /\ h = b)
  <2> SUFFICES ASSUME NEW g \in Files, NEW h \in Files
               PROVE  Follows(v, q, g, h) <=> Follows(w, p, g, h) \/ (g = t /\ h = b)
    OBVIOUS
  <2>0. p[g] \in Nat /\ p[h] \in Nat /\ p[t] \in Nat
    BY <1>0, <1>t
  <2>1. CASE w[g] = s /\ w[h] = Garbage
    <3>1. Follows(v, q, g, h) <=> p[g] = p[t] /\ p[h] = 0
      BY <1>0, <1>3, <1>t, <2>0, <2>1 DEF Follows
    <3> QED BY <1>0, <1>4, <1>a, <1>t, <2>0, <2>1, <3>1 DEF Follows
  <2>2. CASE w[g] = Garbage /\ w[h] = s
    BY <1>0, <1>3, <1>a, <1>t, <2>0, <2>2 DEF Follows
  <2>3. CASE ~ (w[g] = s /\ w[h] = Garbage) /\ ~ (w[g] = Garbage /\ w[h] = s)
    BY <1>0, <1>3, <1>a, <1>t, <2>0, <2>3 DEF Follows
  <2> QED BY <2>1, <2>2, <2>3
<1>8. \A g, h \in Files : M.next[g] = h <=> Follows(v, q, g, h)
  BY <1>0, <1>1, <1>4, <1>7, <1>t DEF LinkTypes
<1>9. \A g, h \in Files : M.previous[h] = g <=> Follows(v, q, g, h)
  BY <1>0, <1>1, <1>4, <1>7, <1>t, <1>a DEF LinkTypes, Follows
<1>10. \A g \in Files : v[g] # None /\ q[g] > 0 => M.previous[g] # NULL
  BY <1>0, <1>1, <1>3, <1>4, <1>a, <1>t DEF LinkTypes
<1>11. \A g, h \in Files : v[g] # None /\ v[h] = v[g] /\ q[h] = q[g] => h = g
  BY <1>0, <1>3, <1>4, <1>t
<1>12. Sliced(M, v, q)
  BY <1>0, <1>1, <1>3, <1>4, <1>a, <1>t DEF Sound, Sliced, LinkTypes, Placements
<1>13. Placed(M, v, q)
  BY <1>2, <1>5, <1>6, <1>8, <1>9, <1>10, <1>11 DEF Placed
<1> QED BY <1>12, <1>13 DEF Sound, M, v, q, t

Dropped(w) == [g \in Files |-> IF w[g] = Freed THEN None ELSE w[g]]

LEMMA DropFreedIsSound ==
  ASSUME NEW L, NEW w, NEW p, Sound(L, w, p)
  PROVE  Sound(DropFreed(L), Dropped(w), p)
<1> DEFINE M == DropFreed(L)
           v == Dropped(w)
<1>0. /\ LinkTypes(L) /\ w \in Placements /\ p \in [Files -> Nat] /\ NULL \notin Files
      /\ Freed \in Lists /\ Freed # None /\ Freed # Garbage
  BY ListNames DEF Sound, Placed
<1>1. Members(L, Freed) = {f \in Files : w[f] = Freed}
  BY <1>0, MembersAre DEF Sound
<1>2. /\ M.head = [L.head EXCEPT ![Freed] = NULL]
      /\ M.next = [g \in Files |-> IF w[g] = Freed THEN NULL ELSE L.next[g]]
      /\ M.previous = [g \in Files |-> IF w[g] = Freed THEN NULL ELSE L.previous[g]]
      /\ M.slice = [g \in Files |-> IF w[g] = Freed THEN None ELSE L.slice[g]]
  BY <1>1 DEF DropFreed
<1>3. v = [g \in Files |-> IF w[g] = Freed THEN None ELSE w[g]] /\ v \in Placements
  BY <1>0 DEF Dropped, Placements
<1> HIDE DEF M, v
<1>4. LinkTypes(M)
  BY <1>0, <1>2 DEF LinkTypes, MaybeFiles, Placements
<1>5. \A l \in Lists, g \in Files : M.head[l] = g <=> v[g] = l /\ p[g] = 0
  BY <1>0, <1>2, <1>3, ListNames DEF LinkTypes, Sound, Placed
<1>6. \A g, h \in Files : /\ M.next[g] = h <=> Follows(v, p, g, h)
                          /\ M.previous[h] = g <=> Follows(v, p, g, h)
  BY <1>0, <1>2, <1>3 DEF Follows, Sound, Placed
<1>7. \A g \in Files : v[g] # None /\ p[g] > 0 => M.previous[g] # NULL
  BY <1>0, <1>2, <1>3 DEF Sound, Placed
<1>8. \A g, h \in Files : v[g] # None /\ v[h] = v[g] /\ p[h] = p[g] => h = g
  BY <1>0, <1>3 DEF Sound, Placed
<1>9. Sliced(M, v, p)
  BY <1>0, <1>2, <1>3 DEF Sound, Sliced
<1>10. Placed(M, v, p)
  BY <1>0, <1>3, <1>4, <1>5, <1>6, <1>7, <1>8 DEF Placed
<1> QED BY <1>9, <1>10 DEF Sound, M, v

-----------------------------------------------------------------------------
(* The same, of the list each file is in: positions are needed no more. *)

In(L) == [f \in Files |-> IF \E s \in Lists : f \in Members(L, s)
                          THEN CHOOSE s \in Lists : f \in Members(L, s) ELSE None]

WellFormed(L) == \E p : Sound(L, In(L), p)

LEMMA SoundIsWellFormed ==
  ASSUME NEW L, NEW w, NEW p, Sound(L, w, p)
  PROVE  WellFormed(L) /\ In(L) = w
<1>0. w \in Placements
  BY DEF Sound, Placed
<1>1. \A s \in Lists : Members(L, s) = {f \in Files : w[f] = s}
  BY MembersAre DEF Sound
<1>2. ASSUME NEW f \in Files PROVE In(L)[f] = w[f]
  <2>1. CASE w[f] = None
    BY <1>1, <2>1, ListNames DEF In
  <2>2. CASE w[f] # None
    <3>1. \A s \in Lists : f \in Members(L, s) <=> s = w[f]
      BY <1>1
    <3>2. w[f] \in Lists
      BY <1>0, <2>2 DEF Placements
    <3> QED BY <3>1, <3>2 DEF In
  <2> QED BY <2>1, <2>2
<1>3. In(L) = w
  BY <1>0, <1>2 DEF In, Placements
<1> QED BY <1>3 DEF WellFormed

LEMMA ListsAre ==
  ASSUME NEW L, WellFormed(L)
  PROVE  /\ LinkTypes(L) /\ In(L) \in Placements
         /\ \A s \in Lists : Members(L, s) = {f \in Files : In(L)[f] = s}
         /\ \A s \in Lists : L.head[s] = NULL => \A f \in Files : In(L)[f] # s
         /\ \A s \in Lists : L.head[s] # NULL => L.head[s] \in Files /\ In(L)[L.head[s]] = s
<1>1. PICK p : Sound(L, In(L), p)
  BY DEF WellFormed
<1>2. ASSUME NEW s \in Lists PROVE Members(L, s) = {f \in Files : In(L)[f] = s}
  BY <1>1, MembersAre DEF Sound
<1>3. ASSUME NEW s \in Lists, L.head[s] # NULL PROVE L.head[s] \in Files /\ In(L)[L.head[s]] = s
  BY <1>1, <1>3 DEF Sound, Placed, LinkTypes, MaybeFiles
<1>4. ASSUME NEW s \in Lists, L.head[s] = NULL, NEW f \in Files, In(L)[f] = s PROVE FALSE
  <2>1. p \in [Files -> Nat] /\ s # None
    BY <1>1, ListNames DEF Sound, Placed
  <2>2. PICK g \in Files : In(L)[g] = s /\ p[g] = 0
    <3>1. 0 \in 0..p[f]
      BY <2>1
    <3> QED BY <1>1, <1>4, <2>1, <3>1, Filled DEF Sound
  <2> QED BY <1>1, <1>4, <2>2, ListNames DEF Sound, Placed
<1> QED BY <1>1, <1>2, <1>3, <1>4 DEF Sound, Placed

LEMMA InsertFits ==
  ASSUME NEW L, WellFormed(L), NEW f \in Files, In(L)[f] = None, NEW s \in Lists
  PROVE  WellFormed(Insert(L, f, s)) /\ In(Insert(L, f, s)) = [In(L) EXCEPT ![f] = s]
<1>1. PICK p : Sound(L, In(L), p)
  BY DEF WellFormed
<1>2. Sound(Insert(L, f, s), [In(L) EXCEPT ![f] = s], AfterInsert(In(L), p, f, s))
  BY <1>1, InsertIsSound
<1> QED BY <1>2, SoundIsWellFormed

LEMMA RemoveFits ==
  ASSUME NEW L, WellFormed(L), NEW f \in Files, In(L)[f] # None
  PROVE  /\ WellFormed(Remove(L, f)) /\ In(Remove(L, f)) = [In(L) EXCEPT ![f] = None]
         /\ ~ RemoveBug(L, f)
         /\ \A s \in Lists : ~ InsertBug(Remove(L, f), f, s)
<1>1. PICK p : Sound(L, In(L), p)
  BY DEF WellFormed
<1>2. Sound(Remove(L, f), [In(L) EXCEPT ![f] = None], AfterRemove(In(L), p, f))
  BY <1>1, RemoveIsSound
<1>3. LinkTypes(L) /\ In(L) \in Placements /\ p \in [Files -> Nat] /\ In(L)[f] \in Lists /\ NULL \notin Files
  BY <1>1, ListNames DEF Sound, Placed, Placements
<1>4. ~ RemoveBug(L, f)
  <2>1. L.previous[f] = NULL => L.slice[f] # None /\ L.head[L.slice[f]] = f
    <3>1. L.previous[f] = NULL => p[f] = 0
      BY <1>1, <1>3 DEF Sound, Placed
    <3>2. p[f] = 0 => L.slice[f] = In(L)[f]
      BY <1>1, <1>3 DEF Sound, Sliced
    <3> QED BY <1>1, <1>3, <3>1, <3>2 DEF Sound, Placed
  <2>2. L.previous[f] # NULL => L.next[L.previous[f]] = f
    BY <1>1, <1>3 DEF Sound, Placed, LinkTypes, MaybeFiles
  <2>3. L.next[f] # NULL => L.previous[L.next[f]] = f
    BY <1>1, <1>3 DEF Sound, Placed, LinkTypes, MaybeFiles
  <2> QED BY <2>1, <2>2, <2>3 DEF RemoveBug
<1>5. ASSUME NEW s \in Lists PROVE ~ InsertBug(Remove(L, f), f, s)
  <2> DEFINE M == Remove(L, f)
  <2>1. M.slice[f] = None /\ M.previous[f] = NULL /\ M.next[f] = NULL
    BY DEF Remove
  <2>0. \E w, q : Sound(M, w, q)
    BY <1>2
  <2> HIDE DEF M
  <2>2. \A n \in Files : M.next[n] # NULL => M.previous[M.next[n]] = n
    BY <1>3, <2>0 DEF Sound, Placed, LinkTypes, MaybeFiles
  <2>3. M.head[s] # NULL => M.head[s] \in Files
    BY <2>0 DEF Sound, Placed, LinkTypes, MaybeFiles
  <2> QED BY <2>1, <2>2, <2>3 DEF InsertBug, M
<1> QED BY <1>2, <1>4, <1>5, SoundIsWellFormed

LEMMA MoveFits ==
  ASSUME NEW L, WellFormed(L), NEW f \in Files, In(L)[f] # None, NEW s \in Lists
  PROVE  /\ WellFormed(Insert(Remove(L, f), f, s))
         /\ In(Insert(Remove(L, f), f, s)) = [In(L) EXCEPT ![f] = s]
         /\ ~ RemoveBug(L, f) /\ ~ InsertBug(Remove(L, f), f, s)
<1>1. In(L) \in Placements
  BY ListsAre
<1> DEFINE M == Remove(L, f)
<1>2. WellFormed(M) /\ In(M) = [In(L) EXCEPT ![f] = None]
  BY RemoveFits
<1>3. In(M)[f] = None
  BY <1>1, <1>2 DEF Placements
<1> HIDE DEF M
<1>4. WellFormed(Insert(M, f, s)) /\ In(Insert(M, f, s)) = [In(M) EXCEPT ![f] = s]
  <2>1. WellFormed(M)
    BY <1>2
  <2> QED BY <1>3, <2>1, InsertFits
<1>5. [In(M) EXCEPT ![f] = s] = [In(L) EXCEPT ![f] = s]
  BY <1>1, <1>2 DEF Placements
<1> QED BY <1>4, <1>5, RemoveFits DEF M

(* mcachefs_file_init clears what is clear already, but for the slice. *)
LEMMA StartFits ==
  ASSUME NEW L, WellFormed(L), NEW f \in Files, In(L)[f] = None, current \in Ring
  PROVE  WellFormed(Start(L, f)) /\ In(Start(L, f)) = [In(L) EXCEPT ![f] = current]
<1> DEFINE C == [head |-> L.head, next |-> [L.next EXCEPT ![f] = NULL],
                 previous |-> [L.previous EXCEPT ![f] = NULL], slice |-> [L.slice EXCEPT ![f] = None]]
<1>1. PICK p : Sound(L, In(L), p)
  BY DEF WellFormed
<1>2. LinkTypes(L) /\ NULL \notin Files
  BY <1>1, ListNames DEF Sound, Placed
<1>3. L.next[f] = NULL /\ L.previous[f] = NULL
  BY <1>1, <1>2 DEF Sound, Placed, Follows, LinkTypes, MaybeFiles
<1>4. C.head = L.head /\ C.next = L.next /\ C.previous = L.previous /\ C.slice = [L.slice EXCEPT ![f] = None]
  BY <1>2, <1>3 DEF LinkTypes
<1> HIDE DEF C
<1>5. Sound(C, In(L), p)
  BY <1>1, <1>2, <1>4 DEF Sound, Placed, Sliced, LinkTypes, Placements
<1>6. WellFormed(C) /\ In(C) = In(L)
  BY <1>5, SoundIsWellFormed
<1>7. Start(L, f) = Insert(C, f, current) /\ current \in Lists
  BY ListNames DEF Start, C
<1> QED BY <1>6, <1>7, InsertFits

LEMMA ToGarbageFits ==
  ASSUME NEW L, WellFormed(L), NEW s \in Ring
  PROVE  /\ WellFormed(ToGarbage(L, s)) /\ In(ToGarbage(L, s)) = Thrown(In(L), s)
         /\ ~ ToGarbageBug(L, s)
<1>1. PICK p : Sound(L, In(L), p)
  BY DEF WellFormed
<1>2. LinkTypes(L) /\ NULL \notin Files /\ Garbage \in Lists /\ s \in Lists /\ p \in [Files -> Nat]
  BY <1>1, ListNames DEF Sound, Placed
<1>3. ~ ToGarbageBug(L, s)
  <2>1. L.head[Garbage] # NULL => L.previous[L.head[Garbage]] = NULL
    BY <1>1, <1>2 DEF Sound, Placed, Follows, LinkTypes, MaybeFiles
  <2> QED BY <2>1 DEF ToGarbageBug
<1>4. CASE L.head[s] = NULL
  <2>1. ToGarbage(L, s) = L
    BY <1>4 DEF ToGarbage
  <2>2. \A f \in Files : In(L)[f] # s
    BY <1>2, <1>4, ListsAre
  <2>3. Thrown(In(L), s) = In(L)
    BY <2>2, ListsAre DEF Thrown, Placements
  <2> QED BY <1>3, <2>1, <2>3
<1>5. CASE L.head[s] # NULL
  <2>1. Sound(ToGarbage(L, s), Thrown(In(L), s), AfterThrow(In(L), p, Tail(L, s)))
    BY <1>1, <1>5, ToGarbageIsSound
  <2> QED BY <1>3, <2>1, SoundIsWellFormed
<1> QED BY <1>4, <1>5

LEMMA DropFreedFits ==
  ASSUME NEW L, WellFormed(L)
  PROVE  WellFormed(DropFreed(L)) /\ In(DropFreed(L)) = Dropped(In(L))
<1>1. PICK p : Sound(L, In(L), p)
  BY DEF WellFormed
<1> QED BY <1>1, DropFreedIsSound, SoundIsWellFormed

-----------------------------------------------------------------------------
(* Types, except those of the lists *)

Labels == {"idle", "freshen", "getfd", "io_real", "io_backing", "backup"}

Types ==
  /\ current \in Ring /\ ttl \in 1..NB - 1
  /\ alloced \subseteq Files
  /\ type \in [Files -> {"none", "file", "vops"}] /\ fd \in [Files -> SUBSET Sources] /\ done \in [Files -> BOOLEAN]
  /\ pc \in [Clients -> Labels] /\ handle \in [Clients -> MaybeFiles]
  /\ touched \in [Files -> 0..NB - 1] /\ escaped \in [Files -> BOOLEAN]

LEMMA RingTurns == ASSUME NEW a \in Ring PROVE (a + 1) % NB \in Ring /\ (a + NB + 1) % NB \in Ring
  BY SlicesAssumption DEF Ring

LEMMA TypesInit == Init => Types
  BY SlicesAssumption DEF Init, Types, Ring, Labels, MaybeFiles, Sources

LEMMA TypesStep == Types /\ [Next]_vars => Types'
<1> SUFFICES ASSUME Types, [Next]_vars PROVE Types'
  OBVIOUS
<1> USE DEF Types
<1>1. ASSUME NEW c \in Clients, NEW f \in Files, OpenAgain(c, f) PROVE Types'
  BY <1>1 DEF OpenAgain, files, history, MaybeFiles
<1>2. ASSUME NEW c \in Clients, NEW f \in Files, NEW t \in {"file", "vops"}, NEW d \in BOOLEAN, Open(c, f, t, d)
      PROVE  Types'
  BY <1>2, SlicesAssumption DEF Open, MaybeFiles
<1>3. ASSUME NEW c \in Clients, Release(c) PROVE Types'
  <2>1. UNCHANGED <<current, ttl, alloced, done, pc, touched>> /\ handle' = [handle EXCEPT ![c] = NULL]
    BY <1>3 DEF Release
  <2>2. CASE LastUser(c) /\ type[handle[c]] # "vops"
    <3>1. /\ fd' = [fd EXCEPT ![handle[c]] = @ \ Closable(handle[c])]
          /\ type' = [type EXCEPT ![handle[c]] = "none"] /\ escaped' = [escaped EXCEPT ![handle[c]] = FALSE]
      BY <1>3, <2>2 DEF Release
    <3>2. fd' \in [Files -> SUBSET Sources] /\ type' \in [Files -> {"none", "file", "vops"}]
      BY <3>1
    <3>3. escaped' \in [Files -> BOOLEAN]
      BY <3>1
    <3> QED BY <2>1, <3>2, <3>3 DEF MaybeFiles
  <2>3. CASE ~ (LastUser(c) /\ type[handle[c]] # "vops")
    <3>1. UNCHANGED <<fd, type, escaped>>
      BY <1>3, <2>3 DEF Release
    <3> QED BY <2>1, <3>1 DEF MaybeFiles
  <2> QED BY <2>2, <2>3
<1>4. ASSUME NEW c \in Clients, FreshenTest(c) PROVE Types'
  BY <1>4, SlicesAssumption DEF FreshenTest, Goto, files, Labels
<1>5. ASSUME NEW c \in Clients, DoFreshen(c) PROVE Types'
  <2>1. UNCHANGED <<current, ttl, alloced, type, fd, done, handle>>
    BY <1>5 DEF DoFreshen, files
  <2>4. pc' = [pc EXCEPT ![c] = "getfd"] /\ touched' = [touched EXCEPT ![handle[c]] = 0]
    BY <1>5 DEF DoFreshen, Goto
  <2>5. escaped' = [escaped EXCEPT ![handle[c]] = FALSE]
    BY <1>5 DEF DoFreshen
  <2>2. touched' \in [Files -> 0..NB - 1]
    <3>1. 0 \in 0..NB - 1
      BY SlicesAssumption
    <3> QED BY <2>4, <3>1
  <2>6. pc' \in [Clients -> Labels]
    <3>1. "getfd" \in Labels
      BY DEF Labels
    <3> QED BY <2>4, <3>1
  <2>3. escaped' \in [Files -> BOOLEAN]
    BY <2>5
  <2> QED BY <2>1, <2>2, <2>3, <2>6
<1>6. ASSUME NEW c \in Clients, NEW s \in Sources, NEW l \in Labels, Opens(c, s, l) PROVE Types'
  <2>1. /\ UNCHANGED <<current, ttl, alloced, type, done, handle, touched>>
        /\ pc' = [pc EXCEPT ![c] = l] /\ fd' = [fd EXCEPT ![handle[c]] = @ \cup {s}]
    BY <1>6 DEF Opens, Goto
  <2>2. fd' \in [Files -> SUBSET Sources] /\ pc' \in [Clients -> Labels]
    BY <2>1
  <2>3. escaped' \in [Files -> BOOLEAN]
    <3>1. escaped' = [escaped EXCEPT ![handle[c]] = @ \/ OpenedLate(handle[c])]
      BY <1>6 DEF Opens
    <3>2. \A f \in Files : (escaped[f] \/ OpenedLate(f)) \in BOOLEAN
      OBVIOUS
    <3> QED BY <3>1, <3>2, Zenon
  <2> QED BY <2>1, <2>2, <2>3
<1>7. ASSUME NEW c \in Clients, PutFd(c) \/ BackupEnds(c) PROVE Types'
  BY <1>7 DEF PutFd, BackupEnds, Goto, files, history, Labels
<1>8. ASSUME NEW n \in Ring, SetFileTtl(n) PROVE Types'
  <2>1. ttl' \in 1..NB - 1 /\ UNCHANGED <<current, alloced, type, fd, done, pc, handle, touched>>
    BY <1>8, SlicesAssumption DEF SetFileTtl, TtlAllowed, Ring, files, client
  <2>2. escaped' \in [Files -> BOOLEAN]
    <3>1. escaped' = [f \in Files |-> escaped[f] \/ TtlLowered(f, n)]
      BY <1>8 DEF SetFileTtl
    <3>2. \A f \in Files : (escaped[f] \/ TtlLowered(f, n)) \in BOOLEAN
      OBVIOUS
    <3> QED BY <3>1, <3>2, Zenon
  <2> QED BY <2>1, <2>2
<1>9. CASE Tick
  <2>1. current' \in Ring
    BY <1>9, RingTurns DEF Tick
  <2>2. touched' \in [Files -> 0..NB - 1]
    BY <1>9, SlicesAssumption DEF Tick
  <2>3. alloced' \subseteq Files /\ fd' \in [Files -> SUBSET Sources] /\ escaped' \in [Files -> BOOLEAN]
    BY <1>9 DEF Tick, InUseAtItsTick
  <2> QED BY <1>9, <2>1, <2>2, <2>3 DEF Tick, client
<1>10. CASE UNCHANGED vars
  BY <1>10 DEF vars, files, client, history
<1> QED BY <1>1, <1>2, <1>3, <1>4, <1>5, <1>6, <1>7, <1>8, <1>9, <1>10
        DEF Next, Call, Step, GetFd, Backup, Sources, Labels

-----------------------------------------------------------------------------
(* Who is in which list *)

(* A structure that is in memory is in a list, in the freed list once nobody
   uses it; whoever is in a call has a handle, of a file in use. *)
ListInv ==
  /\ WellFormed(ts)
  /\ \A f \in Files : f \in alloced <=> In(ts)[f] # None
  /\ \A f \in Files : type[f] = "none" <=> In(ts)[f] \in {Freed, None}
  /\ \A c \in Clients : handle[c] # NULL => type[handle[c]] # "none"
  /\ \A c \in Clients : pc[c] # "idle" => handle[c] # NULL
  /\ ~ bug

LEMMA ListInvInit == Init => ListInv
<1> SUFFICES ASSUME Init PROVE ListInv
  OBVIOUS
<1> DEFINE w == [f \in Files |-> None]
           p == [f \in Files |-> 0]
<1>1. Sound(EmptyLists, w, p)
  BY ListNames DEF Sound, Placed, Sliced, LinkTypes, MaybeFiles, Placements, Follows, EmptyLists
<1>2. WellFormed(ts) /\ In(ts) = w
  BY <1>1, SoundIsWellFormed DEF Init
<1>3. \A f \in Files : In(ts)[f] = None
  BY <1>2
<1> QED BY <1>2, <1>3 DEF Init, ListInv

LEMMA HandledIsListed ==
  ASSUME Types, ListInv, NEW c \in Clients, handle[c] # NULL
  PROVE  /\ handle[c] \in Files /\ handle[c] \in alloced /\ type[handle[c]] # "none"
         /\ In(ts)[handle[c]] # None /\ In(ts)[handle[c]] # Freed
  BY DEF Types, ListInv, MaybeFiles

(* The file an open takes is in the current slice afterwards, and was in none
   but the freed list before. *)
LEMMA OpenTakes ==
  ASSUME Types, ListInv, NEW c \in Clients, NEW f \in Files, NEW t, NEW d, Open(c, f, t, d)
  PROVE  /\ WellFormed(ts') /\ In(ts') = [In(ts) EXCEPT ![f] = current]
         /\ In(ts)[f] \in {Freed, None} /\ ~ bug'
<1>0. WellFormed(ts) /\ ~ bug /\ current \in Ring /\ Freed \in Lists /\ Freed # None
  BY ListNames DEF Types, ListInv
<1>1. CASE ts.head[Freed] = NULL
  <2>1. f \notin alloced /\ ts' = Start(ts, f) /\ UNCHANGED bug
    BY <1>1 DEF Open
  <2>2. In(ts)[f] = None
    BY <2>1 DEF ListInv
  <2>3. WellFormed(Start(ts, f)) /\ In(Start(ts, f)) = [In(ts) EXCEPT ![f] = current]
    BY <1>0, <2>2, StartFits
  <2> QED BY <1>0, <2>1, <2>2, <2>3
<1>2. CASE ts.head[Freed] # NULL
  <2> DEFINE M == Remove(ts, f)
  <2>1. f = ts.head[Freed] /\ ts' = Start(M, f) /\ bug' = (bug \/ RemoveBug(ts, f))
    BY <1>2 DEF Open
  <2>2. In(ts)[f] = Freed
    BY <1>0, <1>2, <2>1, ListsAre
  <2>3. WellFormed(M) /\ In(M) = [In(ts) EXCEPT ![f] = None] /\ ~ RemoveBug(ts, f)
    BY <1>0, <2>2, RemoveFits
  <2>4. In(ts) \in Placements
    BY <1>0, ListsAre
  <2> HIDE DEF M
  <2>5. In(M)[f] = None /\ [In(M) EXCEPT ![f] = current] = [In(ts) EXCEPT ![f] = current]
    BY <2>3, <2>4 DEF Placements
  <2>6. WellFormed(Start(M, f)) /\ In(Start(M, f)) = [In(M) EXCEPT ![f] = current]
    <3>1. WellFormed(M)
      BY <2>3
    <3> QED BY <1>0, <2>5, <3>1, StartFits
  <2> QED BY <1>0, <2>1, <2>2, <2>3, <2>5, <2>6
<1> QED BY <1>1, <1>2

LEMMA ReleaseFrees ==
  ASSUME Types, ListInv, NEW c \in Clients, Release(c), LastUser(c), type[handle[c]] # "vops"
  PROVE  /\ WellFormed(ts') /\ In(ts') = [In(ts) EXCEPT ![handle[c]] = Freed]
         /\ type' = [type EXCEPT ![handle[c]] = "none"] /\ ~ bug'
<1> DEFINE f == handle[c]
           M == Insert(Remove(ts, f), f, Freed)
<1>0. WellFormed(ts) /\ ~ bug /\ f \in Files /\ In(ts)[f] # None /\ Freed \in Lists
  BY HandledIsListed, ListNames DEF ListInv, Release
<1>1. /\ WellFormed(M) /\ In(M) = [In(ts) EXCEPT ![f] = Freed]
      /\ ~ RemoveBug(ts, f) /\ ~ InsertBug(Remove(ts, f), f, Freed)
  BY <1>0, MoveFits
<1>2. /\ ts' = M /\ type' = [type EXCEPT ![f] = "none"]
      /\ bug' = (bug \/ RemoveBug(ts, f) \/ InsertBug(Remove(ts, f), f, Freed))
  BY DEF Release
<1> QED BY <1>0, <1>1, <1>2

LEMMA FreshenMoves ==
  ASSUME Types, ListInv, NEW c \in Clients, DoFreshen(c)
  PROVE  /\ WellFormed(ts') /\ In(ts') = [In(ts) EXCEPT ![handle[c]] = current]
         /\ ~ bug'
<1> DEFINE f == handle[c]
           M == Insert(Remove(ts, f), f, current)
<1>0. WellFormed(ts) /\ ~ bug /\ f \in Files /\ In(ts)[f] # None /\ current \in Lists
  BY HandledIsListed, ListNames DEF Types, ListInv, DoFreshen
<1>1. /\ WellFormed(M) /\ In(M) = [In(ts) EXCEPT ![f] = current]
      /\ ~ RemoveBug(ts, f) /\ ~ InsertBug(Remove(ts, f), f, current)
  BY <1>0, MoveFits
<1>2. ts' = M /\ bug' = (bug \/ RemoveBug(ts, f) \/ InsertBug(Remove(ts, f), f, current))
  BY DEF DoFreshen
<1> QED BY <1>0, <1>1, <1>2

(* A turn of the file thread empties the oldest slice into the garbage, and
   once in a turn of the ring gives back the freed structures. *)
Turned(w) == IF FreesFreed THEN Dropped(w) ELSE w

LEMMA TickTurns ==
  ASSUME Types, ListInv, Tick
  PROVE  /\ WellFormed(ts') /\ In(ts') = Thrown(Turned(In(ts)), Last)
         /\ \A f \in Files : f \in alloced' <=> f \in alloced /\ ~ (FreesFreed /\ In(ts)[f] = Freed)
         /\ ~ bug'
<1> DEFINE M == AfterCleanup
<1>0. WellFormed(ts) /\ ~ bug /\ Freed \in Lists
  BY ListNames DEF ListInv
<1>1. WellFormed(M) /\ In(M) = Turned(In(ts))
  BY <1>0, DropFreedFits DEF AfterCleanup, Turned
<1>2. Last \in Ring
  BY RingTurns DEF Types, Last
<1> HIDE DEF M
<1>3. WellFormed(ToGarbage(M, Last)) /\ In(ToGarbage(M, Last)) = Thrown(In(M), Last) /\ ~ ToGarbageBug(M, Last)
  <2>1. WellFormed(M)
    BY <1>1
  <2> QED BY <1>2, <2>1, ToGarbageFits
<1>4. ts' = ToGarbage(M, Last) /\ bug' = (bug \/ ToGarbageBug(M, Last))
  BY DEF Tick, M
<1>5. Members(ts, Freed) = {f \in Files : In(ts)[f] = Freed}
  BY <1>0, ListsAre
<1>6. alloced' = IF FreesFreed THEN alloced \ Members(ts, Freed) ELSE alloced
  BY DEF Tick
<1> QED BY <1>0, <1>1, <1>3, <1>4, <1>5, <1>6

LEMMA ListInvFrame ==
  ASSUME ListInv, UNCHANGED <<ts, alloced, type, bug>>,
         \A c \in Clients : handle'[c] # NULL => type[handle'[c]] # "none",
         \A c \in Clients : pc'[c] # "idle" => handle'[c] # NULL
  PROVE  ListInv'
BY DEF ListInv

LEMMA ListInvStep == Types /\ Types' /\ ListInv /\ [Next]_vars => ListInv'
<1> SUFFICES ASSUME Types, Types', ListInv, [Next]_vars PROVE ListInv'
  OBVIOUS
<1>0. In(ts) \in Placements /\ NULL \notin Files /\ Freed # None
  BY ListsAre, ListNames DEF ListInv
<1>1. ASSUME NEW c \in Clients, NEW f \in Files, OpenAgain(c, f) PROVE ListInv'
  BY <1>1, ListInvFrame DEF OpenAgain, files, ListInv, Types
<1>2. ASSUME NEW c \in Clients, NEW f \in Files, NEW t \in {"file", "vops"}, NEW d \in BOOLEAN, Open(c, f, t, d)
      PROVE  ListInv'
  <2>1. /\ WellFormed(ts') /\ In(ts') = [In(ts) EXCEPT ![f] = current]
        /\ In(ts)[f] \in {Freed, None} /\ ~ bug'
    BY <1>2, OpenTakes
  <2>2. /\ alloced' = alloced \cup {f} /\ type' = [type EXCEPT ![f] = t]
        /\ handle' = [handle EXCEPT ![c] = f] /\ UNCHANGED pc
    BY <1>2 DEF Open
  <2>3. current # None /\ current # Freed
    BY ListNames DEF Types
  <2>4. \A g \in Files : In(ts')[g] = IF g = f THEN current ELSE In(ts)[g]
    BY <1>0, <2>1 DEF Placements
  <2>5. \A g \in Files : g \in alloced' <=> In(ts')[g] # None
    BY <2>2, <2>3, <2>4 DEF ListInv
  <2>6. \A g \in Files : type'[g] = "none" <=> In(ts')[g] \in {Freed, None}
    BY <2>2, <2>3, <2>4 DEF ListInv, Types
  <2>7. \A e \in Clients : handle'[e] # NULL => type'[handle'[e]] # "none"
    BY <1>0, <2>2 DEF ListInv, Types
  <2>8. \A e \in Clients : pc'[e] # "idle" => handle'[e] # NULL
    BY <1>0, <2>2 DEF ListInv, Types
  <2> QED BY <2>1, <2>5, <2>6, <2>7, <2>8 DEF ListInv
<1>3. ASSUME NEW c \in Clients, Release(c) PROVE ListInv'
  <2> DEFINE f == handle[c]
  <2>0. /\ pc[c] = "idle" /\ f \in Files /\ f \in alloced /\ handle' = [handle EXCEPT ![c] = NULL]
        /\ UNCHANGED <<alloced, pc>>
    BY <1>3, HandledIsListed DEF Release
  <2>1. \A e \in Clients : pc'[e] # "idle" => handle'[e] # NULL
    BY <2>0 DEF ListInv, Types
  <2>2. CASE LastUser(c) /\ type[f] # "vops"
    <3>1. /\ WellFormed(ts') /\ In(ts') = [In(ts) EXCEPT ![f] = Freed]
          /\ type' = [type EXCEPT ![f] = "none"] /\ ~ bug'
      BY <1>3, <2>2, ReleaseFrees
    <3>2. \A g \in Files : In(ts')[g] = IF g = f THEN Freed ELSE In(ts)[g]
      BY <1>0, <2>0, <3>1 DEF Placements
    <3>3. \A g \in Files : g \in alloced' <=> In(ts')[g] # None
      BY <1>0, <2>0, <3>2 DEF ListInv
    <3>4. \A g \in Files : type'[g] = "none" <=> In(ts')[g] \in {Freed, None}
      BY <2>0, <3>1, <3>2 DEF ListInv, Types
    <3>5. \A e \in Clients : handle'[e] # NULL => type'[handle'[e]] # "none"
      <4> SUFFICES ASSUME NEW e \in Clients, handle'[e] # NULL PROVE type'[handle'[e]] # "none"
        OBVIOUS
      <4>1. e # c /\ handle'[e] = handle[e] /\ handle[e] \in Files
        BY <2>0 DEF Types, MaybeFiles
      <4>2. handle[e] # f
        BY <2>2, <4>1 DEF LastUser, Users
      <4> QED BY <3>1, <4>1, <4>2 DEF ListInv, Types
    <3> QED BY <2>1, <3>1, <3>3, <3>4, <3>5 DEF ListInv
  <2>3. CASE ~ (LastUser(c) /\ type[f] # "vops")
    <3>1. UNCHANGED <<ts, type, bug>>
      BY <1>3, <2>3 DEF Release
    <3>2. \A e \in Clients : handle'[e] # NULL => type[handle'[e]] # "none"
      BY <2>0 DEF ListInv, Types
    <3> QED BY <2>0, <2>1, <3>1, <3>2, ListInvFrame
  <2> QED BY <2>2, <2>3
<1>4. ASSUME NEW c \in Clients, FreshenTest(c) \/ PutFd(c) \/ BackupEnds(c) PROVE ListInv'
  BY <1>4, ListInvFrame DEF FreshenTest, PutFd, BackupEnds, Goto, files, history, ListInv, Types
<1>5. ASSUME NEW c \in Clients, DoFreshen(c) PROVE ListInv'
  <2> DEFINE f == handle[c]
  <2>0. f \in Files /\ In(ts)[f] # None /\ In(ts)[f] # Freed
    BY <1>5, HandledIsListed DEF DoFreshen, ListInv
  <2>1. WellFormed(ts') /\ In(ts') = [In(ts) EXCEPT ![f] = current] /\ ~ bug'
    BY <1>5, FreshenMoves
  <2>2. current # None /\ current # Freed
    BY ListNames DEF Types
  <2>3. \A g \in Files : In(ts')[g] = IF g = f THEN current ELSE In(ts)[g]
    BY <1>0, <2>0, <2>1 DEF Placements
  <2>4. UNCHANGED <<alloced, type, handle>> /\ pc' = [pc EXCEPT ![c] = "getfd"] /\ handle[c] # NULL
    BY <1>0, <1>5, <2>0 DEF DoFreshen, Goto, files
  <2>5. \A g \in Files : g \in alloced' <=> In(ts')[g] # None
    BY <2>0, <2>2, <2>3, <2>4 DEF ListInv
  <2>6. \A g \in Files : type'[g] = "none" <=> In(ts')[g] \in {Freed, None}
    BY <2>0, <2>2, <2>3, <2>4 DEF ListInv
  <2> QED BY <2>1, <2>4, <2>5, <2>6 DEF ListInv, Types
<1>6. ASSUME NEW c \in Clients, NEW s \in Sources, NEW l \in Labels, Opens(c, s, l) PROVE ListInv'
  BY <1>6, ListInvFrame DEF Opens, Goto, ListInv, Types
<1>7. ASSUME NEW n \in Ring, SetFileTtl(n) PROVE ListInv'
  BY <1>7, ListInvFrame DEF SetFileTtl, files, client, ListInv
<1>8. CASE Tick
  <2>1. /\ WellFormed(ts') /\ In(ts') = Thrown(Turned(In(ts)), Last)
        /\ \A f \in Files : f \in alloced' <=> f \in alloced /\ ~ (FreesFreed /\ In(ts)[f] = Freed)
        /\ ~ bug'
    BY <1>8, TickTurns
  <2>2. Last \in Ring
    BY RingTurns DEF Types, Last
  <2>3. \A f \in Files : /\ FreesFreed /\ In(ts)[f] = Freed => In(ts')[f] = None
                         /\ ~ (FreesFreed /\ In(ts)[f] = Freed) /\ In(ts)[f] = Last => In(ts')[f] = Garbage
                         /\ ~ (FreesFreed /\ In(ts)[f] = Freed) /\ In(ts)[f] # Last => In(ts')[f] = In(ts)[f]
    BY <1>0, <2>1, <2>2, ListNames DEF Thrown, Turned, Dropped
  <2>4. UNCHANGED <<type, pc, handle>>
    BY <1>8 DEF Tick, client
  <2>5. \A f \in Files : f \in alloced' <=> In(ts')[f] # None
    BY <2>1, <2>2, <2>3, ListNames DEF ListInv
  <2>6. \A f \in Files : type'[f] = "none" <=> In(ts')[f] \in {Freed, None}
    BY <2>2, <2>3, <2>4, ListNames DEF ListInv
  <2> QED BY <2>1, <2>4, <2>5, <2>6 DEF ListInv
<1>9. CASE UNCHANGED vars
  BY <1>9, ListInvFrame DEF vars, files, client, ListInv
<1> QED BY <1>1, <1>2, <1>3, <1>4, <1>5, <1>6, <1>7, <1>8, <1>9
        DEF Next, Call, Step, GetFd, Backup, Sources, Labels

LEMMA ListInvHolds == Spec => [](Types /\ ListInv)
<1>1. Init => Types /\ ListInv
  BY TypesInit, ListInvInit
<1>2. Types /\ ListInv /\ [Next]_vars => (Types /\ ListInv)'
  BY TypesStep, ListInvStep
<1> QED BY <1>1, <1>2, PTL DEF Spec

(* Every variable keeps its type. *)
THEOREM TypeCorrect == Spec => []TypeOK
<1>1. Types /\ ListInv => TypeOK
  BY ListsAre DEF Types, ListInv, TypeOK, LinkTypes, MaybeFiles, Placements, Labels
<1> QED BY <1>1, ListInvHolds, PTL

(* The lists that mcachefs-file-ts.c links by hand are lists, whatever is
   opened, freshened, released and thrown away in any order, for any number of
   files, clients and slices: every structure in memory is in one of them,
   both ways of following it agree, and none of the Bug()s is reached. *)
THEOREM ListsAreSoundHolds == Spec => []ListsAreSound
<1>1. ASSUME Types, ListInv PROVE ListsAreSound
  <2>0. /\ In(ts) \in Placements /\ NULL \notin Files /\ None \notin Lists /\ Freed \in Lists
        /\ \A s \in Lists : Members(ts, s) = {f \in Files : In(ts)[f] = s}
    BY <1>1, ListsAre, ListNames DEF ListInv
  <2>1. PICK p : Sound(ts, In(ts), p)
    BY <1>1 DEF ListInv, WellFormed
  <2>2. ASSUME NEW f \in alloced PROVE Cardinality({s \in Lists : f \in Members(ts, s)}) = 1
    <3>1. f \in Files /\ In(ts)[f] \in Lists
      BY <1>1, <2>0 DEF Types, ListInv, Placements
    <3>2. {s \in Lists : f \in Members(ts, s)} = {In(ts)[f]}
      BY <2>0, <3>1
    <3> QED BY <3>2, FS_Singleton
  <2>3. \A f \in Files : f \notin alloced => \A s \in Lists : f \notin Members(ts, s)
    BY <1>1, <2>0 DEF ListInv
  <2>4. \A f \in alloced : f \in Members(ts, Freed) <=> type[f] = "none"
    BY <1>1, <2>0 DEF ListInv, Types
  <2>5. \A f, g \in alloced : ts.next[f] = g <=> ts.previous[g] = f
    BY <1>1, <2>1 DEF Types, Sound, Placed
  <2>6. \A s \in Lists : \A f \in Members(ts, s) : ts.slice[f] = s \/ (s = Garbage /\ ts.head[s] # f)
    BY <2>0, <2>1 DEF Sound, Sliced, Placed
  <2>7. \A c \in Clients : handle[c] # NULL => handle[c] \in alloced /\ type[handle[c]] # "none"
    BY <1>1, HandledIsListed
  <2> QED BY <1>1, <2>2, <2>3, <2>4, <2>5, <2>6, <2>7 DEF ListsAreSound, ListInv
<1> QED BY <1>1, ListInvHolds, PTL

-----------------------------------------------------------------------------
(* The ring, seen from slice a: the one of n ticks ago *)

Ago(a, n) == (a + NB - n) % NB

LEMMA AgoIs ==
  ASSUME NEW a \in Ring, NEW n \in 0..NB - 1
  PROVE  /\ n <= a => Ago(a, n) = a - n
         /\ n > a => Ago(a, n) = a + NB - n
  BY SlicesAssumption DEF Ring, Ago

LEMMA TheRing ==
  ASSUME NEW a \in Ring
  PROVE  /\ Ago(a, 0) = a
         /\ \A n \in 0..NB - 1 : Ago(a, n) \in Ring
         /\ \A m, n \in 0..NB - 1 : Ago(a, m) = Ago(a, n) => m = n
         /\ (a + NB + 1) % NB = Ago(a, NB - 1)
<1>0. a \in Nat /\ a <= NB - 1 /\ NB \in Nat /\ NB >= 2
  BY SlicesAssumption DEF Ring
<1>1. Ago(a, 0) = a
  BY <1>0, AgoIs
<1>2. ASSUME NEW n \in 0..NB - 1 PROVE Ago(a, n) \in Ring
  <2>1. /\ n <= a => Ago(a, n) = a - n
        /\ n > a => Ago(a, n) = a + NB - n
    BY AgoIs
  <2>2. n \in Nat /\ n <= NB - 1
    BY <1>0
  <2>3. CASE n <= a
    BY <1>0, <2>1, <2>2, <2>3 DEF Ring
  <2>4. CASE n > a
    BY <1>0, <2>1, <2>2, <2>4 DEF Ring
  <2> QED BY <1>0, <2>2, <2>3, <2>4
<1>3. ASSUME NEW m \in 0..NB - 1, NEW n \in 0..NB - 1, Ago(a, m) = Ago(a, n) PROVE m = n
  BY <1>0, <1>3, AgoIs
<1>4. (a + NB + 1) % NB = Ago(a, NB - 1)
  <2>1. CASE a = NB - 1
    <3>1. (a + NB + 1) % NB = 0
      BY <1>0, <2>1
    <3>2. Ago(a, NB - 1) = 0
      BY <1>0, <2>1, AgoIs
    <3> QED BY <3>1, <3>2
  <2>2. CASE a < NB - 1
    <3>1. (a + NB + 1) % NB = a + 1
      BY <1>0, <2>2
    <3>2. Ago(a, NB - 1) = a + 1
      BY <1>0, <2>2, AgoIs
    <3> QED BY <3>1, <3>2
  <2> QED BY <1>0, <2>1, <2>2
<1> QED BY <1>1, <1>2, <1>3, <1>4

(* A tick makes each slice one older, the oldest becomes the current one. *)
LEMMA ATick ==
  ASSUME NEW a \in Ring
  PROVE  /\ (a + 1) % NB = Ago(a, NB - 1)
         /\ \A n \in 1..NB - 1 : Ago((a + 1) % NB, n) = Ago(a, n - 1)
<1>0. a \in Nat /\ a <= NB - 1 /\ NB \in Nat /\ NB >= 2
  BY SlicesAssumption DEF Ring
<1> DEFINE b == (a + 1) % NB
<1>1. /\ a = NB - 1 => b = 0
      /\ a < NB - 1 => b = a + 1
  BY <1>0
<1>2. b \in Ring
  BY <1>0, <1>1 DEF Ring
<1> HIDE DEF b
<1>3. b = Ago(a, NB - 1)
  BY <1>0, <1>1, AgoIs
<1>4. ASSUME NEW n \in 1..NB - 1 PROVE Ago(b, n) = Ago(a, n - 1)
  <2>1. n \in 0..NB - 1 /\ n - 1 \in 0..NB - 1
    BY <1>0
  <2>2. /\ n <= b => Ago(b, n) = b - n
        /\ n > b => Ago(b, n) = b + NB - n
        /\ n - 1 <= a => Ago(a, n - 1) = a - (n - 1)
        /\ n - 1 > a => Ago(a, n - 1) = a + NB - (n - 1)
    BY <1>2, <2>1, AgoIs
  <2> QED BY <1>0, <1>1, <2>1, <2>2
<1> QED BY <1>3, <1>4 DEF b

LEMMA AwaitedIs ==
  ASSUME NEW L, WellFormed(L), NEW a \in Ring, NEW t \in 1..NB - 1, NEW f \in Files
  PROVE  Awaited(L, a, t, f) <=> \E n \in 0..t : In(L)[f] = Ago(a, n)
<1>1. \A n \in 0..t : Ago(a, n) \in Lists
  BY TheRing, ListNames, SlicesAssumption
<1>2. \A n \in 0..t : Members(L, Ago(a, n)) = {g \in Files : In(L)[g] = Ago(a, n)}
  BY <1>1, ListsAre
<1> QED BY <1>2 DEF Awaited, Ago

-----------------------------------------------------------------------------
(* Descriptors and the age of files.  What follows needs every backup to be *)
(* completed: one that fails leaves a descriptor on the copy of a file that  *)
(* is not DONE, which nothing closes (README, Departures).                   *)

BackupsSucceed == "backup_fails" \notin Ops

(* Only regular files have descriptors; one on a copy that is not complete is
   the transfer's. *)
FdInv ==
  /\ \A f \in Files : type[f] # "file" => fd[f] = {}
  /\ \A f \in Files : ~ done[f] /\ "backing" \in fd[f] => \E c \in Clients : handle[c] = f /\ pc[c] = "backup"

(* A file is no younger than its slice. *)
AgeInv == \A f \in Files, n \in 0..NB - 1 : In(ts)[f] = Ago(current, n) => touched[f] >= n

LEMMA FdInvStep ==
  ASSUME BackupsSucceed, Types, ListInv, FdInv, [Next]_vars
  PROVE  FdInv'
<1>0. NULL \notin Files /\ fd \in [Files -> SUBSET Sources] /\ type \in [Files -> {"none", "file", "vops"}]
  BY ListNames DEF Types
<1>1. ASSUME UNCHANGED <<type, fd, done>>,
             \A c \in Clients : pc[c] = "backup" => handle'[c] = handle[c] /\ pc'[c] = "backup"
      PROVE  FdInv'
  BY <1>1 DEF FdInv
<1>2. ASSUME NEW c \in Clients, NEW f \in Files, OpenAgain(c, f) PROVE FdInv'
  <2>1. pc[c] = "idle" /\ UNCHANGED <<type, fd, done, pc>> /\ handle' = [handle EXCEPT ![c] = f]
    BY <1>2 DEF OpenAgain, files
  <2>2. \A e \in Clients : pc[e] = "backup" => handle'[e] = handle[e] /\ pc'[e] = "backup"
    BY <2>1 DEF Types
  <2> QED BY <1>1, <2>1, <2>2
<1>3. ASSUME NEW c \in Clients, NEW f \in Files, NEW t \in {"file", "vops"}, NEW d \in BOOLEAN, Open(c, f, t, d)
      PROVE  FdInv'
  <2>1. /\ pc[c] = "idle" /\ UNCHANGED pc /\ handle' = [handle EXCEPT ![c] = f]
        /\ fd' = [fd EXCEPT ![f] = {}] /\ type' = [type EXCEPT ![f] = t]
    BY <1>3 DEF Open
  <2>2. \A g \in Files : g # f => done'[g] = done[g]
    BY <1>3 DEF Open, Types
  <2>3. \A e \in Clients : pc[e] = "backup" => handle'[e] = handle[e] /\ pc'[e] = "backup"
    BY <2>1 DEF Types
  <2>4. fd'[f] = {} /\ \A g \in Files : g # f => fd'[g] = fd[g] /\ type'[g] = type[g]
    BY <1>0, <2>1
  <2> QED BY <2>2, <2>3, <2>4 DEF FdInv
<1>4. ASSUME NEW c \in Clients, Release(c) PROVE FdInv'
  <2> DEFINE f == handle[c]
  <2>0. pc[c] = "idle" /\ f \in Files /\ handle' = [handle EXCEPT ![c] = NULL] /\ UNCHANGED <<done, pc>>
    BY <1>4, HandledIsListed DEF Release
  <2>1. \A e \in Clients : pc[e] = "backup" => handle'[e] = handle[e] /\ pc'[e] = "backup"
    BY <2>0 DEF Types
  <2>2. CASE LastUser(c) /\ type[f] # "vops"
    <3>1. fd' = [fd EXCEPT ![f] = @ \ Closable(f)] /\ type' = [type EXCEPT ![f] = "none"]
      BY <1>4, <2>2 DEF Release
    <3>2. \A e \in Clients : handle[e] = f => e = c
      BY <2>2 DEF LastUser, Users
    <3>3. Busy(f) = {}
      <4>1. pc[c] \notin InUse["real"] /\ pc[c] \notin InUse["backing"]
        BY <2>0 DEF InUse
      <4> QED BY <3>2, <4>1 DEF Busy, Users, Sources
    <3>4. fd[f] \subseteq Closable(f) \/ type[f] # "file"
      <4>1. ~ done[f] => "backing" \notin fd[f]
        BY <2>0, <3>2 DEF FdInv
      <4> QED BY <1>0, <2>0, <3>3, <4>1 DEF Closable, Sources
    <3>5. fd'[f] = {}
      BY <1>0, <2>0, <3>1, <3>4 DEF FdInv
    <3>6. \A g \in Files : g # f => fd'[g] = fd[g] /\ type'[g] = type[g]
      BY <1>0, <2>0, <3>1
    <3> QED BY <2>0, <2>1, <3>5, <3>6 DEF FdInv
  <2>3. CASE ~ (LastUser(c) /\ type[f] # "vops")
    <3>1. UNCHANGED <<type, fd>>
      BY <1>4, <2>3 DEF Release
    <3> QED BY <1>1, <2>0, <2>1, <3>1
  <2> QED BY <2>2, <2>3
<1>5. ASSUME NEW c \in Clients, FreshenTest(c) \/ PutFd(c) \/ DoFreshen(c) PROVE FdInv'
  <2>1. pc[c] # "backup" /\ UNCHANGED <<type, fd, done, handle>> /\ \A e \in Clients : e # c => pc'[e] = pc[e]
    BY <1>5 DEF FreshenTest, PutFd, DoFreshen, Goto, files, Types
  <2> QED BY <1>1, <2>1
<1>6. ASSUME NEW c \in Clients, BackupEnds(c) PROVE FdInv'
  <2>1. /\ done' = [done EXCEPT ![handle[c]] = TRUE] /\ UNCHANGED <<type, fd, handle>>
        /\ pc' = [pc EXCEPT ![c] = "idle"] /\ pc[c] = "backup"
    BY <1>6 DEF BackupEnds, Goto, BackupsSucceed
  <2>2. handle[c] \in Files /\ done'[handle[c]]
    BY <2>1, HandledIsListed DEF ListInv, Types
  <2>3. \A g \in Files : g # handle[c] => done'[g] = done[g]
    BY <2>1 DEF Types
  <2>4. \A e \in Clients : e # c => pc'[e] = pc[e]
    BY <2>1 DEF Types
  <2> QED BY <2>1, <2>2, <2>3, <2>4 DEF FdInv
<1>7. ASSUME NEW c \in Clients, NEW s \in Sources, NEW l \in Labels, Opens(c, s, l),
             s = "backing" /\ ~ done[handle[c]] => l = "backup"
      PROVE  FdInv'
  <2>1. /\ handle[c] \in Files /\ type[handle[c]] = "file" /\ pc[c] # "backup"
        /\ fd' = [fd EXCEPT ![handle[c]] = @ \cup {s}] /\ pc' = [pc EXCEPT ![c] = l]
        /\ UNCHANGED <<type, done, handle>>
    BY <1>7, HandledIsListed DEF Opens, Goto
  <2>2. /\ \A g \in Files : g # handle[c] => fd'[g] = fd[g]
        /\ fd'[handle[c]] = fd[handle[c]] \cup {s}
    BY <1>0, <2>1
  <2>3. pc'[c] = l /\ \A e \in Clients : e # c => pc'[e] = pc[e]
    BY <2>1 DEF Types
  <2>4. \A g \in Files : type'[g] # "file" => fd'[g] = {}
    BY <2>1, <2>2 DEF FdInv
  <2>5. ASSUME NEW g \in Files, ~ done[g], "backing" \in fd'[g]
        PROVE  \E e \in Clients : handle[e] = g /\ pc'[e] = "backup"
    <3>1. CASE "backing" \in fd[g]
      <4>1. PICK e \in Clients : handle[e] = g /\ pc[e] = "backup"
        BY <2>5, <3>1 DEF FdInv
      <4> QED BY <2>1, <2>3, <4>1
    <3>2. CASE "backing" \notin fd[g]
      BY <1>7, <2>2, <2>3, <2>5, <3>2
    <3> QED BY <3>1, <3>2
  <2> QED BY <2>1, <2>4, <2>5 DEF FdInv
<1>8. ASSUME NEW n \in Ring, SetFileTtl(n) PROVE FdInv'
  BY <1>1, <1>8 DEF SetFileTtl, files, client
<1>9. CASE Tick
  <2>1. UNCHANGED <<type, done, pc, handle>> /\ \A f \in Files : fd'[f] \subseteq fd[f]
    BY <1>9 DEF Tick, client
  <2> QED BY <2>1 DEF FdInv
<1>10. CASE UNCHANGED vars
  BY <1>1, <1>10 DEF vars, files, client
<1>11. ASSUME NEW c \in Clients, GetFd(c) \/ Backup(c) PROVE FdInv'
  <2>1. CASE GetFd(c)
    <3>1. CASE Opens(c, "real", "io_real")
      BY <1>7, <3>1 DEF Sources, Labels
    <3>2. CASE done[handle[c]] /\ Opens(c, "backing", "io_backing")
      BY <1>7, <3>2 DEF Sources, Labels
    <3> QED BY <2>1, <3>1, <3>2 DEF GetFd
  <2>2. CASE Backup(c)
    BY <1>7, <2>2 DEF Backup, Sources, Labels
  <2> QED BY <1>11, <2>1, <2>2
<1> QED BY <1>2, <1>3, <1>4, <1>5, <1>6, <1>8, <1>9, <1>10, <1>11 DEF Next, Call, Step

LEMMA FdInvHolds == ASSUME BackupsSucceed PROVE Spec => []FdInv
<1>1. Init => FdInv
  BY DEF Init, FdInv
<1>2. Types /\ ListInv /\ FdInv /\ [Next]_vars => FdInv'
  BY FdInvStep
<1> QED BY <1>1, <1>2, ListInvHolds, PTL DEF Spec

(* The last user of a file leaves no descriptor behind, provided no backup
   fails: mcachefs_file_cleanup_file does not close the copy of a file that is
   not DONE, and none is left open on one. *)
THEOREM DescriptorsDieWithFilesHolds == ASSUME BackupsSucceed PROVE Spec => []DescriptorsDieWithFiles
<1>1. FdInv => DescriptorsDieWithFiles
  BY DEF FdInv, DescriptorsDieWithFiles
<1> QED BY <1>1, FdInvHolds, PTL

-----------------------------------------------------------------------------
(* What a step does to the lists, for one file *)

Moved(f, s) == In(ts')[f] = s
KeepsList(f) == In(ts')[f] = In(ts)[f]

SameLists == UNCHANGED <<ts, current>> /\ (UNCHANGED touched \/ \E c \in Clients : FreshenTest(c))

LEMMA ListSteps ==
  ASSUME Types, ListInv, [Next]_vars
  PROVE  \/ SameLists
         \/ \E c \in Clients, f \in Files, t \in {"file", "vops"}, d \in BOOLEAN :
              Open(c, f, t, d) /\ Moved(f, current) /\ \A g \in Files \ {f} : KeepsList(g)
         \/ \E c \in Clients :
              /\ Release(c) /\ LastUser(c) /\ type[handle[c]] # "vops"
              /\ Moved(handle[c], Freed) /\ \A g \in Files \ {handle[c]} : KeepsList(g)
         \/ \E c \in Clients :
              DoFreshen(c) /\ Moved(handle[c], current) /\ \A g \in Files \ {handle[c]} : KeepsList(g)
         \/ Tick
<1>0. In(ts) \in Placements
  BY ListsAre DEF ListInv
<1>1. ASSUME NEW c \in Clients, NEW f \in Files, NEW t \in {"file", "vops"}, NEW d \in BOOLEAN, Open(c, f, t, d)
      PROVE  Moved(f, current) /\ \A g \in Files \ {f} : KeepsList(g)
  <2>1. In(ts') = [In(ts) EXCEPT ![f] = current]
    BY <1>1, OpenTakes
  <2> QED BY <1>0, <2>1 DEF Moved, KeepsList, Placements
<1>2. ASSUME NEW c \in Clients, Release(c)
      PROVE  \/ SameLists
             \/ /\ LastUser(c) /\ type[handle[c]] # "vops"
                /\ Moved(handle[c], Freed) /\ \A g \in Files \ {handle[c]} : KeepsList(g)
  <2>1. CASE LastUser(c) /\ type[handle[c]] # "vops"
    <3>1. In(ts') = [In(ts) EXCEPT ![handle[c]] = Freed] /\ handle[c] \in Files
      BY <1>2, <2>1, ReleaseFrees, HandledIsListed DEF Release
    <3> QED BY <1>0, <2>1, <3>1 DEF Moved, KeepsList, Placements
  <2>2. CASE ~ (LastUser(c) /\ type[handle[c]] # "vops")
    BY <1>2, <2>2 DEF SameLists, Release
  <2> QED BY <2>1, <2>2
<1>3. ASSUME NEW c \in Clients, DoFreshen(c)
      PROVE  Moved(handle[c], current) /\ \A g \in Files \ {handle[c]} : KeepsList(g)
  <2>1. In(ts') = [In(ts) EXCEPT ![handle[c]] = current] /\ handle[c] \in Files
    BY <1>3, FreshenMoves, HandledIsListed DEF DoFreshen, ListInv
  <2> QED BY <1>0, <2>1 DEF Moved, KeepsList, Placements
<1>4. ASSUME NEW c \in Clients, NEW f \in Files,
             OpenAgain(c, f) \/ FreshenTest(c) \/ GetFd(c) \/ PutFd(c) \/ Backup(c) \/ BackupEnds(c)
      PROVE  SameLists
  BY <1>4 DEF SameLists, OpenAgain, FreshenTest, GetFd, PutFd, Backup, BackupEnds, Opens, history
<1>5. ASSUME NEW c \in Clients, FreshenTest(c) \/ GetFd(c) \/ PutFd(c) \/ Backup(c) \/ BackupEnds(c)
      PROVE  SameLists
  BY <1>5 DEF SameLists, FreshenTest, GetFd, PutFd, Backup, BackupEnds, Opens, history
<1>6. ASSUME NEW n \in Ring, SetFileTtl(n) PROVE SameLists
  BY <1>6 DEF SameLists, SetFileTtl
<1>7. CASE UNCHANGED vars
  BY <1>7 DEF SameLists, vars, history
<1>8. CASE Next
  <2>1. CASE \E c \in Clients : Call(c)
    <3>1. PICK c \in Clients : Call(c)
      BY <2>1
    <3>2. CASE \E f \in Files : OpenAgain(c, f)
      BY <1>4, <3>2
    <3>3. CASE \E f \in Files, t \in {"file", "vops"}, d \in BOOLEAN : Open(c, f, t, d)
      BY <1>1, <3>3
    <3>4. CASE Release(c)
      BY <1>2, <3>4
    <3>5. CASE FreshenTest(c) \/ Backup(c)
      BY <1>5, <3>5
    <3>6. \/ \E f \in Files : OpenAgain(c, f)
          \/ \E f \in Files, t \in {"file", "vops"}, d \in BOOLEAN : Open(c, f, t, d)
          \/ Release(c) \/ FreshenTest(c) \/ Backup(c)
      BY <3>1 DEF Call
    <3> QED BY <3>2, <3>3, <3>4, <3>5, <3>6
  <2>2. CASE \E c \in Clients : Step(c)
    BY <1>3, <1>5, <2>2 DEF Step
  <2>3. CASE Tick
    BY <2>3
  <2>4. CASE \E n \in Ring : SetFileTtl(n)
    BY <1>6, <2>4
  <2> QED BY <1>8, <2>1, <2>2, <2>3, <2>4 DEF Next
<1> QED BY <1>7, <1>8

(* A file that is in a slice after a tick was in it before, and the slice is
   one tick older. *)
LEMMA TickAges ==
  ASSUME Types, ListInv, Tick, NEW f \in Files
  PROVE  /\ \A n \in 0..NB - 1 : In(ts')[f] = Ago(current', n) =>
              n > 0 /\ In(ts)[f] = Ago(current, n - 1)
         /\ \A n \in 0..NB - 2 : In(ts)[f] = Ago(current, n) => In(ts')[f] = Ago(current', n + 1)
<1> DEFINE a == current
           b == (a + 1) % NB
<1>0. /\ a \in Ring /\ b \in Ring /\ current' = b /\ NB \in Nat /\ NB >= 2
      /\ In(ts) \in Placements
  BY RingTurns, ListsAre, SlicesAssumption DEF Types, ListInv, Tick
<1>1. Last = Ago(a, NB - 1) /\ b = Last /\ Last \in Ring
  BY <1>0, TheRing, ATick, RingTurns DEF Last
<1>2. \A n \in 1..NB - 1 : Ago(b, n) = Ago(a, n - 1)
  BY <1>0, ATick
<1>3. In(ts') = Thrown(Turned(In(ts)), Last)
  BY TickTurns
<1>4. ASSUME NEW l \in Ring PROVE In(ts')[f] = l <=> In(ts)[f] = l /\ l # Last
  <2>1. l # Freed /\ l # Garbage /\ l # None /\ Freed # Last /\ Garbage # Last /\ None # Last /\ None # Garbage
    BY <1>1, ListNames
  <2> QED BY <1>0, <1>3, <2>1, ListNames DEF Thrown, Turned, Dropped
<1>5. \A n \in 0..NB - 1 : Ago(a, n) \in Ring /\ Ago(b, n) \in Ring
  BY <1>0, TheRing
<1> HIDE DEF a, b
<1>6. ASSUME NEW n \in 0..NB - 1, In(ts')[f] = Ago(b, n) PROVE n > 0 /\ In(ts)[f] = Ago(a, n - 1)
  <2>1. In(ts)[f] = Ago(b, n) /\ Ago(b, n) # Last
    BY <1>4, <1>5, <1>6
  <2>2. n # 0
    BY <1>0, <1>1, <2>1, TheRing
  <2> QED BY <1>0, <1>2, <2>1, <2>2
<1>7. ASSUME NEW n \in 0..NB - 2, In(ts)[f] = Ago(a, n) PROVE In(ts')[f] = Ago(b, n + 1)
  <2>0. n \in 0..NB - 1 /\ NB - 1 \in 0..NB - 1 /\ n # NB - 1 /\ n + 1 \in 1..NB - 1 /\ (n + 1) - 1 = n
    BY <1>0
  <2>1. Ago(a, n) # Last
    BY <1>0, <1>1, <2>0, TheRing
  <2>2. In(ts')[f] = Ago(a, n)
    BY <1>4, <1>5, <1>7, <2>0, <2>1
  <2>3. Ago(b, n + 1) = Ago(a, (n + 1) - 1)
    BY <1>2, <2>0
  <2> QED BY <2>0, <2>2, <2>3
<1> QED BY <1>0, <1>6, <1>7 DEF a

(* A step that touches a file puts it in the current slice. *)
LEMMA TouchedAges ==
  ASSUME Types, AgeInv, NEW f \in Files, NEW g \in Files, NEW n \in 0..NB - 1,
         In(ts')[f] = Ago(current, n), touched' = [touched EXCEPT ![g] = 0],
         f = g => In(ts')[f] = current, f # g => KeepsList(f)
  PROVE  touched'[f] >= n
<1>0. current \in Ring /\ 0 \in 0..NB - 1 /\ touched \in [Files -> 0..NB - 1]
  BY SlicesAssumption DEF Types
<1>1. CASE f = g
  <2>1. Ago(current, n) = Ago(current, 0)
    BY <1>0, <1>1, TheRing
  <2>2. n = 0
    BY <1>0, <2>1, TheRing
  <2> QED BY <1>0, <1>1, <2>2
<1>2. CASE f # g
  <2>1. In(ts)[f] = Ago(current, n)
    BY <1>2 DEF KeepsList
  <2>2. touched[f] >= n
    BY <2>1 DEF AgeInv
  <2> QED BY <1>0, <1>2, <2>2
<1> QED BY <1>1, <1>2

LEMMA AgeInvStep ==
  ASSUME Types, ListInv, AgeInv, [Next]_vars
  PROVE  AgeInv'
<1> SUFFICES ASSUME NEW f \in Files, NEW n \in 0..NB - 1, In(ts')[f] = Ago(current', n)
             PROVE  touched'[f] >= n
  BY DEF AgeInv
<1>0. /\ current \in Ring /\ Ago(current, n) \in Ring /\ NB \in Nat /\ NB >= 2
      /\ touched \in [Files -> 0..NB - 1]
  BY TheRing, SlicesAssumption DEF Types
<1>1. CASE SameLists
  <2>0. In(ts)[f] = Ago(current, n) /\ In(ts') = In(ts) /\ current' = current
    BY <1>1 DEF SameLists
  <2>1. CASE UNCHANGED touched
    BY <2>0, <2>1 DEF AgeInv
  <2>2. ASSUME NEW c \in Clients, FreshenTest(c), ~ UNCHANGED touched PROVE touched'[f] >= n
    <3>1. ts.slice[handle[c]] = current /\ touched' = [touched EXCEPT ![handle[c]] = 0] /\ handle[c] \in Files
      BY <2>2, HandledIsListed DEF FreshenTest
    <3>2. ASSUME f = handle[c] PROVE In(ts')[f] = current
      <4>1. PICK p : Sound(ts, In(ts), p)
        BY DEF ListInv, WellFormed
      <4>2. ts.slice[f] = In(ts)[f]
        BY <1>0, <2>0, <4>1, ListNames DEF Sound, Sliced
      <4> QED BY <2>0, <3>1, <3>2, <4>2
    <3>3. KeepsList(f)
      BY <2>0 DEF KeepsList
    <3>4. In(ts')[f] = Ago(current, n)
      BY <2>0
    <3> QED BY <3>1, <3>2, <3>3, <3>4, TouchedAges
  <2> QED BY <1>1, <2>1, <2>2 DEF SameLists
<1>2. ASSUME NEW c \in Clients, NEW g \in Files, NEW t \in {"file", "vops"}, NEW d \in BOOLEAN, Open(c, g, t, d),
             Moved(g, current), \A h \in Files \ {g} : KeepsList(h)
      PROVE  touched'[f] >= n
  <2>1. touched' = [touched EXCEPT ![g] = 0] /\ In(ts')[f] = Ago(current, n)
    BY <1>2 DEF Open
  <2>2. f = g => In(ts')[f] = current
    BY <1>2 DEF Moved
  <2> QED BY <1>2, <2>1, <2>2, TouchedAges
<1>3. ASSUME NEW c \in Clients, DoFreshen(c), Moved(handle[c], current),
             \A h \in Files \ {handle[c]} : KeepsList(h)
      PROVE  touched'[f] >= n
  <2>1. /\ touched' = [touched EXCEPT ![handle[c]] = 0] /\ In(ts')[f] = Ago(current, n)
        /\ handle[c] \in Files
    BY <1>3, HandledIsListed DEF DoFreshen, ListInv
  <2>2. f = handle[c] => In(ts')[f] = current
    BY <1>3 DEF Moved
  <2> QED BY <1>3, <2>1, <2>2, TouchedAges
<1>4. ASSUME NEW c \in Clients, Release(c), Moved(handle[c], Freed),
             \A h \in Files \ {handle[c]} : KeepsList(h)
      PROVE  touched'[f] >= n
  <2>1. UNCHANGED <<current, touched>> /\ Freed \notin Ring
    BY <1>4, ListNames DEF Release
  <2>2. KeepsList(f)
    BY <1>0, <1>4, <2>1 DEF Moved
  <2> QED BY <2>1, <2>2 DEF KeepsList, AgeInv
<1>5. CASE Tick
  <2>1. n > 0 /\ In(ts)[f] = Ago(current, n - 1)
    BY <1>5, TickAges
  <2>2. n - 1 \in 0..NB - 1 /\ n \in 0..NB - 1
    BY <1>0, <2>1
  <2>3. touched[f] >= n - 1 /\ touched[f] \in 0..NB - 1
    BY <1>0, <2>1, <2>2 DEF AgeInv
  <2>4. touched'[f] = IF touched[f] < NB - 1 THEN touched[f] + 1 ELSE NB - 1
    BY <1>5 DEF Tick
  <2> QED BY <1>0, <2>2, <2>3, <2>4
<1> QED BY <1>1, <1>2, <1>3, <1>4, <1>5, ListSteps

LEMMA AgeInvHolds == Spec => []AgeInv
<1>1. Init => AgeInv
  <2>1. ASSUME Init PROVE AgeInv
    <3>1. \A f \in Files : In(ts)[f] = None
      BY <2>1, ListInvInit, ListsAre, ListNames DEF Init, ListInv, Placements
    <3>2. current \in Ring
      BY <2>1, SlicesAssumption DEF Init, Ring
    <3> QED BY <3>1, <3>2, TheRing, ListNames DEF AgeInv
  <2> QED BY <2>1
<1>2. Types /\ ListInv /\ AgeInv /\ [Next]_vars => AgeInv'
  BY AgeInvStep
<1> QED BY <1>1, <1>2, ListInvHolds, PTL DEF Spec

LEMMA FreshFilesStep ==
  ASSUME BackupsSucceed, Types, ListInv, FdInv, AgeInv, [Next]_vars,
         NEW f \in Files, type'[f] = "file", ~ (fd[f] \subseteq fd'[f])
  PROVE  touched[f] >= ttl
<1>0. fd \in [Files -> SUBSET Sources] /\ type \in [Files -> {"none", "file", "vops"}]
  BY DEF Types
<1>1. ASSUME UNCHANGED fd PROVE FALSE
  BY <1>1
<1>2. ASSUME NEW c \in Clients, NEW g \in Files, NEW t, NEW d, Open(c, g, t, d) PROVE FALSE
  <2>1. fd' = [fd EXCEPT ![g] = {}] /\ In(ts)[g] \in {Freed, None}
    BY <1>2, OpenTakes DEF Open
  <2>2. fd[g] = {}
    BY <2>1 DEF ListInv, FdInv
  <2> QED BY <1>0, <2>1, <2>2
<1>3. ASSUME NEW c \in Clients, Release(c) PROVE FALSE
  <2>1. CASE LastUser(c) /\ type[handle[c]] # "vops"
    <3>1. /\ fd' = [fd EXCEPT ![handle[c]] = @ \ Closable(handle[c])]
          /\ type' = [type EXCEPT ![handle[c]] = "none"]
      BY <1>3, <2>1 DEF Release
    <3> QED BY <1>0, <3>1
  <2>2. CASE ~ (LastUser(c) /\ type[handle[c]] # "vops")
    BY <1>1, <1>3, <2>2 DEF Release
  <2> QED BY <2>1, <2>2
<1>4. ASSUME NEW c \in Clients, NEW s, NEW l, Opens(c, s, l) PROVE FALSE
  <2>1. fd' = [fd EXCEPT ![handle[c]] = @ \cup {s}]
    BY <1>4 DEF Opens
  <2> QED BY <1>0, <2>1
<1>5. CASE Tick
  <2> DEFINE old == Back(ttl)
  <2>0. current \in Ring /\ ttl \in 0..NB - 1
    BY SlicesAssumption DEF Types
  <2>1. old = Ago(current, ttl) /\ old \in Lists
    BY <2>0, TheRing, ListNames DEF Back, Ago
  <2>2. fd'[f] = IF f \in Collected THEN fd[f] \ Closable(f) ELSE fd[f]
    BY <1>5 DEF Tick
  <2>3. f \in Members(ts, old)
    BY <2>2 DEF Collected
  <2> HIDE DEF old
  <2>4. In(ts)[f] = old
    BY <2>1, <2>3, ListsAre DEF ListInv
  <2> QED BY <2>0, <2>1, <2>4 DEF AgeInv
<1>6. ASSUME NEW c \in Clients, Call(c) \/ Step(c) PROVE FALSE
  <2>1. CASE Call(c)
    <3>1. CASE \E g \in Files : OpenAgain(c, g)
      BY <1>1, <3>1 DEF OpenAgain, files
    <3>2. CASE \E g \in Files : (\E d \in BOOLEAN : Open(c, g, "file", d)) \/ Open(c, g, "vops", FALSE)
      BY <1>2, <3>2
    <3>3. CASE FreshenTest(c)
      BY <1>1, <3>3 DEF FreshenTest, files
    <3>4. CASE Backup(c)
      BY <1>4, <3>4 DEF Backup
    <3> QED BY <1>3, <2>1, <3>1, <3>2, <3>3, <3>4 DEF Call
  <2>2. CASE Step(c)
    <3>1. CASE DoFreshen(c) \/ PutFd(c) \/ BackupEnds(c)
      BY <1>1, <3>1 DEF DoFreshen, PutFd, BackupEnds, files
    <3>2. CASE GetFd(c)
      BY <1>4, <3>2 DEF GetFd
    <3> QED BY <2>2, <3>1, <3>2 DEF Step
  <2> QED BY <1>6, <2>1, <2>2
<1>7. CASE (\E n \in Ring : SetFileTtl(n)) \/ UNCHANGED vars
  BY <1>1, <1>7 DEF SetFileTtl, files, vars
<1> QED BY <1>5, <1>6, <1>7 DEF Next

(* The collector closes no descriptor of a file touched less than file_ttl
   ticks ago, however long the ring is and however file_ttl is moved inside
   it: the slice it visits holds no younger file. *)
THEOREM FreshFilesAreSparedHolds == ASSUME BackupsSucceed PROVE Spec => FreshFilesAreSpared
<1> DEFINE Spared == \A f \in Files : type'[f] = "file" /\ ~ (fd[f] \subseteq fd'[f]) => touched[f] >= ttl
<1>1. Types /\ ListInv /\ FdInv /\ AgeInv /\ [Next]_vars => Spared
  BY FreshFilesStep
<1>2. Spec => [][Spared]_vars
  <2>1. Types /\ ListInv /\ FdInv /\ AgeInv /\ [Next]_vars => [Spared]_vars
    BY <1>1
  <2> QED BY <2>1, ListInvHolds, FdInvHolds, AgeInvHolds, PTL DEF Spec
<1> QED BY <1>2 DEF FreshFilesAreSpared

-----------------------------------------------------------------------------
(* Every descriptor will be met by the collector *)

Waits(f) == \E n \in 0..ttl : In(ts)[f] = Ago(current, n)

LEMMA WaitsIs == ASSUME Types, ListInv, NEW f \in Files PROVE Waits(f) <=> Awaited(ts, current, ttl, f)
  BY AwaitedIs DEF Types, ListInv, Waits

WaitInv == \A f \in Files : fd[f] # {} /\ ~ escaped[f] => Waits(f)

LEMMA WaitsFrame ==
  ASSUME WaitInv, NEW f \in Files, UNCHANGED <<current, ttl>>, KeepsList(f),
         fd'[f] = fd[f], escaped'[f] = escaped[f], fd'[f] # {}, ~ escaped'[f]
  PROVE  Waits(f)'
  BY DEF WaitInv, Waits, KeepsList

(* A tick closes what is at its last tick, all of it unless it is in use. *)
LEMMA TickWaits ==
  ASSUME Types, ListInv, WaitInv, Tick, NEW f \in Files, fd'[f] # {}, ~ escaped'[f]
  PROVE  Waits(f)'
<1>0. ttl \in 1..NB - 1 /\ NB \in Nat /\ NB >= 2 /\ current \in Ring /\ ttl' = ttl
  BY SlicesAssumption DEF Types, Tick
<1>1. /\ fd'[f] = IF f \in Collected THEN fd[f] \ Closable(f) ELSE fd[f]
      /\ escaped'[f] <=> escaped[f] \/ InUseAtItsTick(f)
  BY DEF Tick
<1>2. fd[f] # {} /\ ~ escaped[f] /\ ~ InUseAtItsTick(f)
  BY <1>1
<1>3. PICK n \in 0..ttl : In(ts)[f] = Ago(current, n)
  BY <1>2 DEF WaitInv, Waits
<1>4. n # ttl
  <2>1. SUFFICES ASSUME n = ttl PROVE FALSE
    OBVIOUS
  <2> DEFINE old == Back(ttl)
  <2>2. old = Ago(current, ttl) /\ old \in Lists
    BY <1>0, TheRing, ListNames DEF Back, Ago
  <2>3. In(ts)[f] = old
    BY <1>3, <2>1, <2>2
  <2>4. f \in Members(ts, old)
    <3> HIDE DEF old
    <3> QED BY <2>2, <2>3, ListsAre DEF ListInv
  <2>5. f \in Collected /\ fd'[f] = fd[f] \ Closable(f)
    BY <1>1, <2>4 DEF Collected
  <2> QED BY <1>2, <2>4, <2>5 DEF InUseAtItsTick
<1>5. n \in 0..NB - 2 /\ n + 1 \in 0..ttl
  BY <1>0, <1>4
<1>6. In(ts')[f] = Ago(current', n + 1)
  BY <1>3, <1>5, TickAges
<1> QED BY <1>0, <1>5, <1>6 DEF Waits

LEMMA WaitInvStep ==
  ASSUME BackupsSucceed, Types, ListInv, FdInv, FdInv', WaitInv, [Next]_vars
  PROVE  WaitInv'
<1> SUFFICES ASSUME NEW f \in Files, fd'[f] # {}, ~ escaped'[f] PROVE Waits(f)'
  BY DEF WaitInv
<1>0. /\ fd \in [Files -> SUBSET Sources] /\ type \in [Files -> {"none", "file", "vops"}]
      /\ escaped \in [Files -> BOOLEAN] /\ current \in Ring /\ ttl \in 1..NB - 1
      /\ In(ts) \in Placements
  BY ListsAre DEF Types, ListInv
<1>1. ASSUME UNCHANGED <<ts, current, ttl, fd, escaped>> PROVE Waits(f)'
  BY <1>1, WaitsFrame DEF KeepsList
<1>2. ASSUME NEW c \in Clients, NEW g \in Files, NEW t, NEW d, Open(c, g, t, d) PROVE Waits(f)'
  <2>1. /\ fd' = [fd EXCEPT ![g] = {}] /\ escaped' = [escaped EXCEPT ![g] = FALSE]
        /\ In(ts') = [In(ts) EXCEPT ![g] = current] /\ UNCHANGED <<current, ttl>>
    BY <1>2, OpenTakes DEF Open
  <2>2. f # g
    BY <1>0, <2>1
  <2>3. fd'[f] = fd[f]
    BY <2>1, <2>2
  <2>4. escaped'[f] = escaped[f]
    BY <2>1, <2>2
  <2>5. KeepsList(f)
    BY <1>0, <2>1, <2>2 DEF KeepsList, Placements
  <2> QED BY <2>1, <2>3, <2>4, <2>5, WaitsFrame
<1>3. ASSUME NEW c \in Clients, Release(c) PROVE Waits(f)'
  <2> DEFINE g == handle[c]
  <2>1. CASE LastUser(c) /\ type[g] # "vops"
    <3>1. /\ fd' = [fd EXCEPT ![g] = @ \ Closable(g)] /\ escaped' = [escaped EXCEPT ![g] = FALSE]
          /\ type' = [type EXCEPT ![g] = "none"]
          /\ In(ts') = [In(ts) EXCEPT ![g] = Freed] /\ UNCHANGED <<current, ttl>>
      BY <1>3, <2>1, ReleaseFrees DEF Release
    <3>2. f # g
      BY <1>0, <3>1 DEF FdInv
    <3>3. fd'[f] = fd[f]
      BY <3>1, <3>2
    <3>4. escaped'[f] = escaped[f]
      BY <3>1, <3>2
    <3>5. KeepsList(f)
      BY <1>0, <3>1, <3>2 DEF KeepsList, Placements
    <3> QED BY <3>1, <3>3, <3>4, <3>5, WaitsFrame
  <2>2. CASE ~ (LastUser(c) /\ type[g] # "vops")
    BY <1>1, <1>3, <2>2 DEF Release
  <2> QED BY <2>1, <2>2
<1>4. ASSUME NEW c \in Clients, DoFreshen(c) PROVE Waits(f)'
  <2> DEFINE g == handle[c]
  <2>1. /\ escaped' = [escaped EXCEPT ![g] = FALSE] /\ UNCHANGED <<fd, current, ttl>>
        /\ In(ts') = [In(ts) EXCEPT ![g] = current]
    BY <1>4, FreshenMoves DEF DoFreshen, files
  <2>2. CASE f = g
    <3>1. In(ts')[f] = Ago(current, 0)
      BY <1>0, <2>1, <2>2, TheRing DEF Placements
    <3>2. 0 \in 0..ttl
      BY <1>0
    <3> QED BY <2>1, <3>1, <3>2 DEF Waits
  <2>3. CASE f # g
    <3>1. escaped'[f] = escaped[f]
      BY <2>1, <2>3
    <3>2. KeepsList(f)
      BY <1>0, <2>1, <2>3 DEF KeepsList, Placements
    <3> QED BY <2>1, <3>1, <3>2, WaitsFrame
  <2> QED BY <2>2, <2>3
<1>5. ASSUME NEW c \in Clients, NEW s, NEW l, Opens(c, s, l) PROVE Waits(f)'
  <2> DEFINE g == handle[c]
  <2>1. /\ fd' = [fd EXCEPT ![g] = @ \cup {s}] /\ escaped' = [escaped EXCEPT ![g] = @ \/ OpenedLate(g)]
        /\ UNCHANGED <<ts, current, ttl>>
    BY <1>5 DEF Opens
  <2>2. CASE f = g
    <3>1. ~ OpenedLate(f)
      BY <1>0, <2>1, <2>2
    <3>2. Waits(f)
      BY <3>1, WaitsIs DEF OpenedLate
    <3> QED BY <2>1, <3>2 DEF Waits
  <2>3. CASE f # g
    <3>1. escaped'[f] = escaped[f]
      BY <2>1, <2>3
    <3>2. fd'[f] = fd[f]
      BY <2>1, <2>3
    <3> QED BY <2>1, <3>1, <3>2, WaitsFrame DEF KeepsList
  <2> QED BY <2>2, <2>3
<1>6. ASSUME NEW n \in Ring, SetFileTtl(n) PROVE Waits(f)'
  <2>1. ttl' = n /\ UNCHANGED <<ts, current, fd>> /\ n \in 1..NB - 1
    BY <1>6, SlicesAssumption DEF SetFileTtl, TtlAllowed, files, Ring
  <2>2. ~ TtlLowered(f, n)
    BY <1>6 DEF SetFileTtl
  <2>3. Awaited(ts, current, n, f)
    BY <2>1, <2>2 DEF TtlLowered
  <2>4. \E m \in 0..n : In(ts)[f] = Ago(current, m)
    BY <1>0, <2>1, <2>3, AwaitedIs DEF ListInv
  <2> QED BY <2>1, <2>4 DEF Waits
<1>7. ASSUME NEW c \in Clients, Call(c) \/ Step(c) PROVE Waits(f)'
  <2>1. CASE Call(c)
    <3>1. CASE \E g \in Files : OpenAgain(c, g)
      BY <1>1, <3>1 DEF OpenAgain, files, history
    <3>2. CASE \E g \in Files : (\E d \in BOOLEAN : Open(c, g, "file", d)) \/ Open(c, g, "vops", FALSE)
      BY <1>2, <3>2
    <3>3. CASE FreshenTest(c)
      BY <1>1, <3>3 DEF FreshenTest, files
    <3>4. CASE Backup(c)
      BY <1>5, <3>4 DEF Backup
    <3> QED BY <1>3, <2>1, <3>1, <3>2, <3>3, <3>4 DEF Call
  <2>2. CASE Step(c)
    <3>1. CASE PutFd(c) \/ BackupEnds(c)
      BY <1>1, <3>1 DEF PutFd, BackupEnds, files, history
    <3>2. CASE GetFd(c)
      BY <1>5, <3>2 DEF GetFd
    <3> QED BY <1>4, <2>2, <3>1, <3>2 DEF Step
  <2> QED BY <1>7, <2>1, <2>2
<1>8. CASE UNCHANGED vars
  BY <1>1, <1>8 DEF files, history, vars
<1> QED BY <1>6, <1>7, <1>8, TickWaits DEF Next

(* A descriptor that was opened in time, was not in use at its tick, and was
   not overtaken by a lower file_ttl, belongs to a file that the file thread
   has yet to collect, whatever is freshened, freed and thrown away. *)
THEOREM DescriptorsAreAwaitedHolds == ASSUME BackupsSucceed PROVE Spec => []DescriptorsAreAwaited
<1>1. Init => WaitInv
  BY DEF Init, WaitInv
<1>2. Types /\ ListInv /\ FdInv /\ FdInv' /\ WaitInv /\ [Next]_vars => WaitInv'
  BY WaitInvStep
<1>3. Types /\ ListInv /\ WaitInv => DescriptorsAreAwaited
  BY WaitsIs DEF WaitInv, DescriptorsAreAwaited
<1> QED BY <1>1, <1>2, <1>3, ListInvHolds, FdInvHolds, PTL DEF Spec

================================================================================
