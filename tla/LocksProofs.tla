------------------------------- MODULE LocksProofs -------------------------------
(* No thread of mcachefs waits in a circle of locks: every list of steps in Locks
   takes its mutexes upwards, journal, metadata, file or transfer, the mutex of a
   file.  A list is judged without running it, with the mutexes held before and
   after each of its steps.

   No mutex of a file is locked after it was destroyed: whoever is going to lock
   one knows a reason why it is there, a use of its own or a condition it found
   true under a global mutex it still holds.  A list is judged with what its
   thread knows before and after each of its steps. *)
EXTENDS Locks, FiniteSetTheorems, TLAPS

------------------------------------------------------------------------------------
(* Lists.                                                                          *)

IsList(a) == a = [i \in 1..Len(a) |-> a[i]] /\ Len(a) \in Nat

LEMMA ListsInSeq ==
  ASSUME NEW a, IsList(a), NEW T, \A i \in 1..Len(a) : a[i] \in T
  PROVE  a \in Seq(T)
  BY DEF IsList

LEMMA SeqsAreLists == ASSUME NEW T, NEW a \in Seq(T) PROVE IsList(a)
  BY DEF IsList

(* Both lists of a pair, as sequences over one set. *)
LEMMA TwoLists ==
  ASSUME NEW a, NEW b, IsList(a), IsList(b)
  PROVE  \E T : a \in Seq(T) /\ b \in Seq(T)
<1> DEFINE T == {a[i] : i \in 1..Len(a)} \cup {b[i] : i \in 1..Len(b)}
<1>1. a \in Seq(T) /\ b \in Seq(T)
  BY ListsInSeq
<1> QED BY <1>1

LEMMA CatIs ==
  ASSUME NEW a, NEW b, IsList(a), IsList(b)
  PROVE  /\ IsList(a \o b) /\ Len(a \o b) = Len(a) + Len(b)
         /\ Len(a) \in Nat /\ Len(b) \in Nat
         /\ \A i \in 1..Len(a) : (a \o b)[i] = a[i]
         /\ \A i \in 1..Len(b) : (a \o b)[Len(a) + i] = b[i]
<1>1. PICK T : a \in Seq(T) /\ b \in Seq(T)
  BY TwoLists
<1>2. a \o b \in Seq(T)
  BY <1>1
<1>3. IsList(a \o b)
  BY <1>2, SeqsAreLists
<1> QED BY <1>1, <1>3

LEMMA SuffixIs ==
  ASSUME NEW a, IsList(a), NEW n \in 0..Len(a)
  PROVE  /\ IsList(SubSeq(a, n + 1, Len(a))) /\ Len(SubSeq(a, n + 1, Len(a))) = Len(a) - n
         /\ \A i \in 1..Len(a) - n : SubSeq(a, n + 1, Len(a))[i] = a[n + i]
<1> DEFINE T == {a[i] : i \in 1..Len(a)}
           b == SubSeq(a, n + 1, Len(a))
<1>1. a \in Seq(T) /\ Len(a) \in Nat
  BY ListsInSeq DEF IsList
<1>2. b \in Seq(T)
  <2>1. \A i \in n + 1..Len(a) : a[i] \in T
    BY <1>1
  <2> HIDE DEF T
  <2> QED BY <1>1, <2>1
<1>3. IsList(b)
  BY <1>2, SeqsAreLists
<1>4. Len(b) = Len(a) - n /\ \A i \in 1..Len(a) - n : b[i] = a[n + i]
  <2> HIDE DEF T
  <2> QED BY <1>1
<1> QED BY <1>3, <1>4

LEMMA TailIs ==
  ASSUME NEW a, IsList(a), a # << >>
  PROVE  /\ IsList(Tail(a)) /\ Len(Tail(a)) = Len(a) - 1 /\ Len(a) \in Nat /\ Len(a) > 0
         /\ \A i \in 1..Len(a) - 1 : Tail(a)[i] = a[i + 1]
         /\ Head(a) = a[1]
<1> DEFINE T == {a[i] : i \in 1..Len(a)}
<1>1. a \in Seq(T) /\ Len(a) \in Nat
  BY ListsInSeq DEF IsList
<1>2. Len(a) > 0
  <2> HIDE DEF T
  <2> QED BY <1>1
<1>3. Tail(a) \in Seq(T)
  <2> HIDE DEF T
  <2> QED BY <1>1
<1>4. IsList(Tail(a))
  BY <1>3, SeqsAreLists
<1>5. Len(Tail(a)) = Len(a) - 1 /\ Head(a) = a[1] /\ \A i \in 1..Len(a) - 1 : Tail(a)[i] = a[i + 1]
  <2> HIDE DEF T
  <2> QED BY <1>1
<1> QED BY <1>1, <1>2, <1>4, <1>5

(* Least elements stand for induction. *)
LEMMA LeastNatural ==
  ASSUME NEW T, T \subseteq Nat, T # {}
  PROVE  \E n \in T : \A m \in T : n <= m
<1> DEFINE Below(n) == 0..n
           R == StrictSubsetOrdering(Nat)
           Belows == {Below(n) : n \in T}
<1>1. Belows \subseteq FiniteSubsetsOf(Nat) /\ Belows # {}
  <2>1. \A n \in T : Below(n) \in SUBSET Nat /\ IsFiniteSet(Below(n))
    BY FS_Interval
  <2> QED BY <2>1 DEF FiniteSubsetsOf
<1>2. PICK B \in Belows : \A C \in Belows : ~ (<<C, B>> \in R)
  <2> HIDE DEF Belows, R
  <2>1. IsWellFoundedOn(R, FiniteSubsetsOf(Nat))
    BY FS_StrictSubsetOrderingWellFounded DEF R
  <2> QED BY <1>1, <2>1, WFMin
<1>3. PICK n \in T : B = Below(n)
  OBVIOUS
<1>4. ASSUME NEW m \in T, m < n PROVE FALSE
  <2>1. Below(m) \subseteq Below(n) /\ Below(m) # Below(n)
    <3>1. n \in Below(n) /\ n \notin Below(m)
      BY <1>4
    <3> QED BY <1>4, <3>1
  <2>2. <<Below(m), Below(n)>> \in R
    BY <2>1 DEF StrictSubsetOrdering
  <2> QED BY <1>2, <1>3, <2>2
<1> QED BY <1>4

------------------------------------------------------------------------------------
(* The order of the mutexes, and what a list does to those a thread holds.         *)

Rank == [m \in Mutexes |->
           IF m = "journal" THEN 1 ELSE IF m = "metadata" THEN 2
           ELSE IF m \in {"file", "transfer"} THEN 3 ELSE 4]

Above(m, h) == m \in Mutexes /\ \A g \in h : Rank[g] < Rank[m]

(* The mutex a step asks for: for "get" only when the file has a structure. *)
MayNeed(x) ==
  IF x[1] \in {"lock", "within", "use", "alone", "get"} THEN {x[2]}
  ELSE IF x[1] \in {"ask", "retract"} THEN {"transfer"}
  ELSE {}

HeldAfter(x, h) ==
  IF x[1] = "lock" THEN h \cup {x[2]} ELSE IF x[1] = "unlock" THEN h \ {x[2]} ELSE h

(* The lists a step may put in its place. *)
Branches(x) ==
  IF x[1] = "either" THEN {x[2], x[3]} ELSE IF x[1] = "if" THEN {x[4]} ELSE {}

(* Step x may be made holding h: upwards, and as the debug build asserts; B has
   the lists that may be run in between, with what is held then. *)
Fine(x, h, B) ==
  /\ \A m \in MayNeed(x) : Above(m, h)
  /\ x[1] = "unlock" => x[2] \in h
  /\ x[1] \in {"get", "destroy"} => {"metadata", "file"} \subseteq h
  /\ x[1] = "alone" => "truncate_vops" \in Calls
  /\ \A s \in Branches(x) : <<s, h>> \in B

(* H has what is held before each step of a, and after the last. *)
Track(a, B, H) ==
  /\ H \in [1..Len(a) + 1 -> SUBSET Mutexes]
  /\ \A i \in 1..Len(a) : Fine(a[i], H[i], B) /\ H[i + 1] = HeldAfter(a[i], H[i])

Leads(a, h, k, B) == IsList(a) /\ \E H : Track(a, B, H) /\ H[1] = h /\ H[Len(a) + 1] = k

Closed(B) == \A e \in B : Leads(e[1], e[2], e[2], B)

(* Every way to run list a, holding h at first, is upwards, and ends holding k. *)
Ordered(a, h, k) == \E B : Closed(B) /\ Leads(a, h, k, B)

LEMMA LeadsMore ==
  ASSUME NEW B, NEW C, B \subseteq C, NEW a, NEW h, NEW k, Leads(a, h, k, B)
  PROVE  Leads(a, h, k, C)
<1>1. ASSUME NEW x, NEW g, Fine(x, g, B) PROVE Fine(x, g, C)
  BY <1>1 DEF Fine
<1>2. PICK H : Track(a, B, H) /\ H[1] = h /\ H[Len(a) + 1] = k
  BY DEF Leads
<1>3. Track(a, C, H)
  BY <1>1, <1>2 DEF Track
<1> QED BY <1>2, <1>3 DEF Leads

LEMMA ClosedUnion ==
  ASSUME NEW B, NEW C, Closed(B), Closed(C)
  PROVE  Closed(B \cup C)
<1>1. ASSUME NEW e \in B PROVE Leads(e[1], e[2], e[2], B \cup C)
  BY LeadsMore DEF Closed
<1>2. ASSUME NEW e \in C PROVE Leads(e[1], e[2], e[2], B \cup C)
  BY LeadsMore DEF Closed
<1> QED BY <1>1, <1>2 DEF Closed

(* Two lists are judged with one set. *)
LEMMA Together ==
  ASSUME NEW a, NEW h, NEW k, Ordered(a, h, k), NEW b, NEW g, NEW l, Ordered(b, g, l)
  PROVE  \E B : Closed(B) /\ Leads(a, h, k, B) /\ Leads(b, g, l, B)
<1>1. PICK A : Closed(A) /\ Leads(a, h, k, A)
  BY DEF Ordered
<1>2. PICK B : Closed(B) /\ Leads(b, g, l, B)
  BY DEF Ordered
<1>3. Closed(A \cup B)
  BY <1>1, <1>2, ClosedUnion
<1>4. Leads(a, h, k, A \cup B)
  BY <1>1, LeadsMore
<1>5. Leads(b, g, l, A \cup B)
  BY <1>2, LeadsMore
<1> QED BY <1>3, <1>4, <1>5

------------------------------------------------------------------------------------
(* How the judgement of a list follows from those of its parts.                    *)

LEMMA OrderedEmpty == ASSUME NEW h \in SUBSET Mutexes PROVE Ordered(<< >>, h, h)
<1> DEFINE H == [i \in 1..1 |-> h]
<1>1. IsList(<< >>) /\ Len(<< >>) = 0
  BY DEF IsList
<1>2. Track(<< >>, {}, H)
  BY <1>1 DEF Track
<1>3. Leads(<< >>, h, h, {})
  BY <1>1, <1>2 DEF Leads
<1> QED BY <1>3 DEF Ordered, Closed

LEMMA OrderedCat ==
  ASSUME NEW a, NEW b, NEW h, NEW k, NEW l, Ordered(a, h, k), Ordered(b, k, l)
  PROVE  Ordered(a \o b, h, l)
<1>1. PICK B : Closed(B) /\ Leads(a, h, k, B) /\ Leads(b, k, l, B)
  BY Together
<1>2. PICK F : Track(a, B, F) /\ F[1] = h /\ F[Len(a) + 1] = k
  BY <1>1 DEF Leads
<1>3. PICK G : Track(b, B, G) /\ G[1] = k /\ G[Len(b) + 1] = l
  BY <1>1 DEF Leads
<1> DEFINE c == a \o b
           H == [i \in 1..Len(c) + 1 |-> IF i <= Len(a) THEN F[i] ELSE G[i - Len(a)]]
<1>4. /\ IsList(c) /\ Len(c) = Len(a) + Len(b) /\ Len(a) \in Nat /\ Len(b) \in Nat
      /\ \A i \in 1..Len(a) : c[i] = a[i]
      /\ \A i \in 1..Len(b) : c[Len(a) + i] = b[i]
  BY <1>1, CatIs DEF Leads
<1> HIDE DEF c
<1>5. /\ F \in [1..Len(a) + 1 -> SUBSET Mutexes] /\ G \in [1..Len(b) + 1 -> SUBSET Mutexes]
      /\ \A i \in 1..Len(a) : Fine(a[i], F[i], B) /\ F[i + 1] = HeldAfter(a[i], F[i])
      /\ \A i \in 1..Len(b) : Fine(b[i], G[i], B) /\ G[i + 1] = HeldAfter(b[i], G[i])
  BY <1>2, <1>3 DEF Track
<1>6. H \in [1..Len(c) + 1 -> SUBSET Mutexes]
  <2>1. ASSUME NEW i \in 1..Len(c) + 1 PROVE H[i] \in SUBSET Mutexes
    <3>1. CASE i <= Len(a)
      <4>1. i \in 1..Len(a) + 1
        BY <1>4, <3>1
      <4> QED BY <1>5, <3>1, <4>1
    <3>2. CASE ~ (i <= Len(a))
      <4>1. i - Len(a) \in 1..Len(b) + 1
        BY <1>4, <3>2
      <4> QED BY <1>5, <3>2, <4>1
    <3> QED BY <3>1, <3>2
  <2> QED BY <2>1
<1>7. /\ \A i \in 1..Len(a) + 1 : H[i] = F[i]
      /\ \A i \in 1..Len(b) + 1 : H[Len(a) + i] = G[i]
  <2>1. ASSUME NEW i \in 1..Len(a) + 1 PROVE H[i] = F[i]
    <3>1. i \in 1..Len(c) + 1
      BY <1>4
    <3>2. CASE i <= Len(a)
      BY <3>1, <3>2
    <3>3. CASE i = Len(a) + 1
      <4>1. ~ (i <= Len(a)) /\ i - Len(a) = 1
        BY <1>4, <3>3
      <4> QED BY <1>2, <1>3, <3>1, <3>3, <4>1
    <3> QED BY <1>4, <3>2, <3>3
  <2>2. ASSUME NEW i \in 1..Len(b) + 1 PROVE H[Len(a) + i] = G[i]
    <3>1. Len(a) + i \in 1..Len(c) + 1 /\ ~ (Len(a) + i <= Len(a)) /\ (Len(a) + i) - Len(a) = i
      BY <1>4
    <3> QED BY <3>1
  <2> QED BY <2>1, <2>2
<1> HIDE DEF H
<1>8. ASSUME NEW i \in 1..Len(c) PROVE Fine(c[i], H[i], B) /\ H[i + 1] = HeldAfter(c[i], H[i])
  <2>1. CASE i <= Len(a)
    <3>1. i \in 1..Len(a) /\ i \in 1..Len(a) + 1 /\ i + 1 \in 1..Len(a) + 1
      BY <1>4, <2>1
    <3>2. c[i] = a[i] /\ H[i] = F[i] /\ H[i + 1] = F[i + 1]
      BY <1>4, <1>7, <3>1
    <3> QED BY <1>5, <3>1, <3>2
  <2>2. CASE ~ (i <= Len(a))
    <3> DEFINE j == i - Len(a)
    <3>1. /\ j \in 1..Len(b) /\ j \in 1..Len(b) + 1 /\ j + 1 \in 1..Len(b) + 1
          /\ i = Len(a) + j /\ i + 1 = Len(a) + (j + 1)
      BY <1>4, <2>2
    <3> HIDE DEF j
    <3>2. c[i] = b[j] /\ H[i] = G[j] /\ H[i + 1] = G[j + 1]
      BY <1>4, <1>7, <3>1
    <3> QED BY <1>5, <3>1, <3>2
  <2> QED BY <2>1, <2>2
<1>9. H[1] = h /\ H[Len(c) + 1] = l
  <2>1. 1 \in 1..Len(a) + 1 /\ Len(b) + 1 \in 1..Len(b) + 1 /\ Len(c) + 1 = Len(a) + (Len(b) + 1)
    BY <1>4
  <2> QED BY <1>2, <1>3, <1>7, <2>1
<1>10. Leads(c, h, l, B)
  BY <1>4, <1>6, <1>8, <1>9 DEF Leads, Track
<1> QED BY <1>1, <1>10 DEF Ordered, c

LEMMA OrderedStep ==
  ASSUME NEW x, NEW h \in SUBSET Mutexes, NEW B, Closed(B), Fine(x, h, B), HeldAfter(x, h) \in SUBSET Mutexes
  PROVE  Ordered(<<x>>, h, HeldAfter(x, h))
<1> DEFINE a == <<x>>
           H == [i \in 1..2 |-> IF i = 1 THEN h ELSE HeldAfter(x, h)]
<1>1. IsList(a) /\ Len(a) = 1 /\ a[1] = x
  BY DEF IsList
<1>2. H[1] = h /\ H[2] = HeldAfter(x, h) /\ H \in [1..2 -> SUBSET Mutexes]
  OBVIOUS
<1> HIDE DEF a, H
<1>3. Track(a, B, H)
  BY <1>1, <1>2 DEF Track
<1>4. Leads(a, h, HeldAfter(x, h), B)
  BY <1>1, <1>2, <1>3 DEF Leads
<1> QED BY <1>4 DEF Ordered, a

(* A step that takes and gives back nothing else than what it needs meanwhile. *)
LEMMA OrderedPlain ==
  ASSUME NEW x, NEW h \in SUBSET Mutexes, x[1] \notin {"lock", "unlock", "either", "if"},
         \A m \in MayNeed(x) : Above(m, h),
         x[1] \in {"get", "destroy"} => {"metadata", "file"} \subseteq h,
         x[1] = "alone" => "truncate_vops" \in Calls
  PROVE  Ordered(<<x>>, h, h)
<1>1. Fine(x, h, {}) /\ HeldAfter(x, h) = h /\ Closed({})
  BY DEF Fine, Branches, HeldAfter, Closed
<1> QED BY <1>1, OrderedStep

LEMMA OrderedWithin ==
  ASSUME NEW h \in SUBSET Mutexes, NEW m, Above(m, h)
  PROVE  Ordered(Within(m), h, h)
<1> DEFINE x == <<"within", m>>
<1>1. x[1] = "within" /\ x[2] = m
  OBVIOUS
<1>2. Within(m) = <<x>>
  BY DEF Within
<1> HIDE DEF x
<1> QED BY <1>1, <1>2, OrderedPlain DEF MayNeed

LEMMA OrderedDo ==
  ASSUME NEW h \in SUBSET Mutexes, NEW op \in {"get", "use", "unuse", "destroy", "alone", "retract"}, NEW x,
         op \in {"get", "use", "alone"} => Above(x, h),
         op = "retract" => Above("transfer", h),
         op \in {"get", "destroy"} => {"metadata", "file"} \subseteq h,
         op = "alone" => "truncate_vops" \in Calls
  PROVE  Ordered(Do(op, x), h, h)
<1> DEFINE y == <<op, x>>
<1>1. y[1] = op /\ y[2] = x /\ Do(op, x) = <<y>>
  BY DEF Do
<1> HIDE DEF y
<1>2. \A m \in MayNeed(y) : Above(m, h)
  BY <1>1 DEF MayNeed
<1> QED BY <1>1, <1>2, OrderedPlain

LEMMA OrderedAsk ==
  ASSUME NEW h \in SUBSET Mutexes, Above("transfer", h), NEW x, NEW t
  PROVE  Ordered(Ask(x, t), h, h)
<1> DEFINE y == <<"ask", x, t>>
<1>1. y[1] = "ask" /\ Ask(x, t) = <<y>>
  BY DEF Ask
<1> HIDE DEF y
<1>2. \A m \in MayNeed(y) : Above(m, h)
  BY <1>1 DEF MayNeed
<1> QED BY <1>1, <1>2, OrderedPlain

LEMMA OrderedPublish ==
  ASSUME NEW h \in SUBSET Mutexes, NEW op \in {"take", "publish"}, NEW x, NEW t
  PROVE  Ordered(<< <<op, x, t>> >>, h, h)
<1> DEFINE y == <<op, x, t>>
<1>1. y[1] = op
  OBVIOUS
<1> HIDE DEF y
<1>2. Ordered(<<y>>, h, h)
  BY <1>1, OrderedPlain DEF MayNeed
<1> QED BY <1>2 DEF y

LEMMA OrderedHold ==
  ASSUME NEW h \in SUBSET Mutexes, NEW m, Above(m, h), NEW s, Ordered(s, h \cup {m}, h \cup {m})
  PROVE  Ordered(Hold(m, s), h, h)
<1> DEFINE x == Lock(m)
           y == Unlock(m)
           g == h \cup {m}
<1>0. x[1] = "lock" /\ x[2] = m /\ y[1] = "unlock" /\ y[2] = m
  BY DEF Lock, Unlock
<1>1. m \in Mutexes /\ m \notin h /\ g \in SUBSET Mutexes /\ g \ {m} = h
  <2>1. m \in Mutexes /\ Rank[m] \in Nat
    BY DEF Above, Rank
  <2>2. ~ (Rank[m] < Rank[m])
    BY <2>1
  <2>3. m \notin h
    BY <2>2 DEF Above
  <2> QED BY <2>1, <2>3
<1> HIDE DEF x, y, g
<1>2. Ordered(<<x>>, h, g)
  <2>1. Fine(x, h, {}) /\ HeldAfter(x, h) = g /\ Closed({})
    BY <1>0 DEF Fine, MayNeed, Branches, HeldAfter, Closed, g
  <2> QED BY <1>1, <2>1, OrderedStep
<1>3. Ordered(<<y>>, g, h)
  <2>1. Fine(y, g, {}) /\ HeldAfter(y, g) = h /\ Closed({})
    BY <1>0, <1>1 DEF Fine, MayNeed, Branches, HeldAfter, Closed, g
  <2> QED BY <1>1, <2>1, OrderedStep
<1>4. Ordered(s, g, g)
  BY DEF g
<1>5. Ordered(<<x>> \o s, h, g)
  BY <1>2, <1>4, OrderedCat
<1>6. Ordered(<<x>> \o s \o <<y>>, h, h)
  BY <1>3, <1>5, OrderedCat
<1> QED BY <1>6 DEF Hold, x, y

LEMMA OrderedBranch ==
  ASSUME NEW x, NEW h \in SUBSET Mutexes, x[1] \in {"either", "if"},
         NEW B, Closed(B), \A s \in Branches(x) : Leads(s, h, h, B)
  PROVE  Ordered(<<x>>, h, h)
<1> DEFINE C == B \cup {<<s, h>> : s \in Branches(x)}
<1>1. ASSUME NEW e \in C PROVE Leads(e[1], e[2], e[2], C)
  <2>1. CASE e \in B
    BY <2>1, LeadsMore DEF Closed
  <2>2. CASE e \notin B
    <3>1. PICK s \in Branches(x) : e = <<s, h>>
      BY <2>2
    <3>2. Leads(s, h, h, C)
      BY <3>1, LeadsMore
    <3> QED BY <3>1, <3>2
  <2> QED BY <2>1, <2>2
<1>2. Closed(C)
  BY <1>1 DEF Closed
<1>3. Fine(x, h, C) /\ HeldAfter(x, h) = h
  BY DEF Fine, MayNeed, HeldAfter
<1> QED BY <1>2, <1>3, OrderedStep

LEMMA OrderedEither ==
  ASSUME NEW h \in SUBSET Mutexes, NEW s, NEW r, Ordered(s, h, h), Ordered(r, h, h)
  PROVE  Ordered(Either(s, r), h, h)
<1> DEFINE x == <<"either", s, r>>
<1>1. x[1] = "either" /\ Either(s, r) = <<x>> /\ Branches(x) = {s, r}
  BY DEF Either, Branches
<1>2. PICK B : Closed(B) /\ Leads(s, h, h, B) /\ Leads(r, h, h, B)
  BY Together
<1> HIDE DEF x
<1> QED BY <1>1, <1>2, OrderedBranch

LEMMA OrderedMaybe ==
  ASSUME NEW h \in SUBSET Mutexes, NEW s, Ordered(s, h, h)
  PROVE  Ordered(Maybe(s), h, h)
  BY OrderedEither, OrderedEmpty DEF Maybe

LEMMA OrderedIf ==
  ASSUME NEW h \in SUBSET Mutexes, NEW c, NEW y, NEW s, Ordered(s, h, h)
  PROVE  Ordered(If(c, y, s), h, h)
<1> DEFINE x == <<"if", c, y, s>>
<1>1. x[1] = "if" /\ If(c, y, s) = <<x>> /\ Branches(x) = {s}
  BY DEF If, Branches
<1>2. PICK B : Closed(B) /\ Leads(s, h, h, B)
  BY DEF Ordered
<1> HIDE DEF x
<1> QED BY <1>1, <1>2, OrderedBranch

------------------------------------------------------------------------------------
(* What the judgement says of a list that is run.                                  *)

LEMMA OrderedGo ==
  ASSUME NEW a, NEW h, NEW k, Ordered(a, h, k), a # << >>
  PROVE  /\ \A m \in MayNeed(a[1]) : Above(m, h)
         /\ a[1][1] = "unlock" => a[1][2] \in h
         /\ a[1][1] \in {"get", "destroy"} => {"metadata", "file"} \subseteq h
         /\ a[1][1] = "alone" => "truncate_vops" \in Calls
         /\ \A s \in Branches(a[1]) : Ordered(s, h, h)
         /\ Ordered(Tail(a), HeldAfter(a[1], h), k)
<1> DEFINE b == Tail(a)
<1>1. PICK B : Closed(B) /\ Leads(a, h, k, B)
  BY DEF Ordered
<1>2. PICK H : Track(a, B, H) /\ H[1] = h /\ H[Len(a) + 1] = k
  BY <1>1 DEF Leads
<1>3. /\ IsList(b) /\ Len(b) = Len(a) - 1 /\ Len(a) \in Nat /\ Len(a) > 0
      /\ \A i \in 1..Len(a) - 1 : b[i] = a[i + 1]
  BY <1>1, TailIs DEF Leads
<1>4. Fine(a[1], h, B) /\ H[2] = HeldAfter(a[1], h)
  <2>1. 1 \in 1..Len(a) /\ 1 + 1 = 2
    BY <1>3
  <2> QED BY <1>2, <2>1 DEF Track
<1>5. ASSUME NEW s \in Branches(a[1]) PROVE Ordered(s, h, h)
  <2> DEFINE e == <<s, h>>
  <2>1. e \in B /\ e[1] = s /\ e[2] = h
    BY <1>4 DEF Fine
  <2> HIDE DEF e
  <2> QED BY <1>1, <2>1 DEF Closed, Ordered
<1>6. Ordered(b, HeldAfter(a[1], h), k)
  <2> DEFINE G == [i \in 1..Len(b) + 1 |-> H[i + 1]]
  <2> HIDE DEF b
  <2>1. /\ H \in [1..Len(a) + 1 -> SUBSET Mutexes]
        /\ \A i \in 1..Len(a) : Fine(a[i], H[i], B) /\ H[i + 1] = HeldAfter(a[i], H[i])
    BY <1>2 DEF Track
  <2>2. G \in [1..Len(b) + 1 -> SUBSET Mutexes]
    <3>1. \A i \in 1..Len(b) + 1 : i + 1 \in 1..Len(a) + 1
      BY <1>3
    <3> QED BY <2>1, <3>1
  <2>3. ASSUME NEW i \in 1..Len(b) PROVE Fine(b[i], G[i], B) /\ G[i + 1] = HeldAfter(b[i], G[i])
    <3>1. i + 1 \in 1..Len(a) /\ i \in 1..Len(a) - 1 /\ i \in 1..Len(b) + 1 /\ i + 1 \in 1..Len(b) + 1
      BY <1>3
    <3>2. b[i] = a[i + 1] /\ G[i] = H[i + 1] /\ G[i + 1] = H[(i + 1) + 1]
      BY <1>3, <3>1
    <3> HIDE DEF G
    <3> QED BY <2>1, <3>1, <3>2
  <2>4. G[1] = HeldAfter(a[1], h) /\ G[Len(b) + 1] = k
    <3>1. /\ 1 \in 1..Len(b) + 1 /\ 1 + 1 = 2 /\ Len(b) + 1 \in 1..Len(b) + 1
          /\ (Len(b) + 1) + 1 = Len(a) + 1
      BY <1>3
    <3> QED BY <1>2, <1>4, <3>1
  <2> HIDE DEF G
  <2>5. Leads(b, HeldAfter(a[1], h), k, B)
    BY <1>3, <2>2, <2>3, <2>4 DEF Leads, Track
  <2> QED BY <1>1, <2>5 DEF Ordered
<1> QED BY <1>4, <1>5, <1>6 DEF Fine

(* The steps of Unlocks(a) are the first ones. *)
LEMMA UnlocksIs ==
  ASSUME NEW a, IsList(a)
  PROVE  \E n \in 0..Len(a) : Unlocks(a) = 1..n /\ Cardinality(Unlocks(a)) = n
<1> DEFINE T == {i \in 1..Len(a) + 1 : i = Len(a) + 1 \/ a[i][1] # "unlock"}
<1>0. Len(a) \in Nat /\ DOMAIN a = 1..Len(a)
  BY DEF IsList
<1>1. T \subseteq Nat /\ T # {}
  BY <1>0
<1>2. PICK k \in T : \A m \in T : k <= m
  <2> HIDE DEF T
  <2> QED BY <1>1, LeastNatural
<1> DEFINE n == k - 1
<1>3. n \in 0..Len(a)
  BY <1>0
<1>4. \A i \in 1..n : a[i][1] = "unlock"
  <2> SUFFICES ASSUME NEW i \in 1..n, a[i][1] # "unlock" PROVE FALSE
    OBVIOUS
  <2>1. i \in T /\ i < k
    BY <1>0
  <2> QED BY <1>0, <1>2, <2>1
<1>5. Unlocks(a) = 1..n
  <2>1. ASSUME NEW i \in Unlocks(a) PROVE i \in 1..n
    <3>1. i \in 1..Len(a) /\ \A j \in 1..i : a[j][1] = "unlock"
      BY <1>0, <2>1 DEF Unlocks
    <3>2. k \in 1..Len(a) => a[k][1] # "unlock"
      BY <1>0
    <3> QED BY <1>0, <3>1, <3>2
  <2>2. ASSUME NEW i \in 1..n PROVE i \in Unlocks(a)
    <3>1. i \in 1..Len(a) /\ \A j \in 1..i : j \in 1..n
      BY <1>0, <1>3
    <3> QED BY <1>0, <1>4, <3>1 DEF Unlocks
  <2> QED BY <2>1, <2>2
<1>6. Cardinality(1..n) = n
  <2> HIDE DEF n
  <2> QED BY <1>0, <1>3, FS_Interval
<1> QED BY <1>3, <1>5, <1>6

(* They give back what is held, nothing else. *)
LEMMA OrderedUnlock ==
  ASSUME NEW a, NEW h, NEW k, Ordered(a, h, k), NEW n \in 0..Len(a), \A i \in 1..n : a[i][1] = "unlock"
  PROVE  /\ Ordered(SubSeq(a, n + 1, Len(a)), h \ {a[i][2] : i \in 1..n}, k)
         /\ {a[i][2] : i \in 1..n} \subseteq h
<1> DEFINE b == SubSeq(a, n + 1, Len(a))
           free(m) == {a[i][2] : i \in 1..m}
<1>1. PICK B : Closed(B) /\ Leads(a, h, k, B)
  BY DEF Ordered
<1>2. PICK H : Track(a, B, H) /\ H[1] = h /\ H[Len(a) + 1] = k
  BY <1>1 DEF Leads
<1>3. /\ IsList(b) /\ Len(b) = Len(a) - n /\ Len(a) \in Nat
      /\ \A i \in 1..Len(a) - n : b[i] = a[n + i]
  BY <1>1, SuffixIs DEF Leads, IsList
<1>4. /\ H \in [1..Len(a) + 1 -> SUBSET Mutexes]
      /\ \A i \in 1..Len(a) : Fine(a[i], H[i], B) /\ H[i + 1] = HeldAfter(a[i], H[i])
  BY <1>2 DEF Track
<1>5. ASSUME NEW i \in 1..n PROVE H[i + 1] = H[i] \ {a[i][2]} /\ a[i][2] \in H[i]
  <2>1. i \in 1..Len(a)
    BY <1>3
  <2> QED BY <1>4, <2>1 DEF Fine, HeldAfter
<1> HIDE DEF b
<1>6. \A m \in 0..n : H[m + 1] = h \ free(m) /\ free(m) \subseteq h
  <2> DEFINE T == {m \in 0..n : ~ (H[m + 1] = h \ free(m) /\ free(m) \subseteq h)}
  <2>1. SUFFICES ASSUME T # {} PROVE FALSE
    OBVIOUS
  <2>2. PICK m \in T : \A l \in T : m <= l
    <3>1. T \subseteq Nat
      BY <1>3
    <3> HIDE DEF T
    <3> QED BY <2>1, <3>1, LeastNatural
  <2>3. free(0) = {}
    OBVIOUS
  <2>4. m # 0
    BY <1>2, <2>2, <2>3
  <2> DEFINE l == m - 1
  <2>a. m \in 0..n /\ n \in Nat
    BY <1>3
  <2>b. l \in 0..n /\ m = l + 1 /\ m \in 1..n /\ l < m
    BY <2>a, <2>4
  <2>5. l \in 0..n /\ m = l + 1 /\ m \in 1..n /\ l \notin T
    <3> HIDE DEF T, l
    <3> QED BY <2>2, <2>a, <2>b
  <2>6. H[l + 1] = h \ free(l) /\ free(l) \subseteq h
    BY <2>5
  <2> HIDE DEF T, l
  <2>7. free(m) = free(l) \cup {a[m][2]}
    BY <1>3, <2>5
  <2> HIDE DEF free
  <2>8. H[m + 1] = H[l + 1] \ {a[m][2]} /\ a[m][2] \in H[l + 1]
    BY <1>5, <2>5
  <2>9. H[m + 1] = h \ free(m) /\ free(m) \subseteq h
    BY <2>6, <2>7, <2>8
  <2> QED BY <2>2, <2>9 DEF T
<1>7. H[n + 1] = h \ free(n) /\ free(n) \subseteq h
  <2>1. n \in 0..n
    BY <1>3
  <2> HIDE DEF free
  <2> QED BY <1>6, <2>1
<1> DEFINE G == [i \in 1..Len(b) + 1 |-> H[n + i]]
<1>8. G \in [1..Len(b) + 1 -> SUBSET Mutexes]
  <2>1. \A i \in 1..Len(b) + 1 : n + i \in 1..Len(a) + 1
    BY <1>3
  <2> QED BY <1>4, <2>1
<1>9. ASSUME NEW i \in 1..Len(b) PROVE Fine(b[i], G[i], B) /\ G[i + 1] = HeldAfter(b[i], G[i])
  <2>1. /\ n + i \in 1..Len(a) /\ i \in 1..Len(a) - n /\ i \in 1..Len(b) + 1 /\ i + 1 \in 1..Len(b) + 1
        /\ n + (i + 1) = (n + i) + 1
    BY <1>3
  <2>2. b[i] = a[n + i] /\ G[i] = H[n + i] /\ G[i + 1] = H[(n + i) + 1]
    BY <1>3, <2>1
  <2> HIDE DEF G
  <2> QED BY <1>4, <2>1, <2>2
<1>10. G[1] = H[n + 1] /\ G[Len(b) + 1] = k
  <2>1. 1 \in 1..Len(b) + 1 /\ Len(b) + 1 \in 1..Len(b) + 1 /\ n + (Len(b) + 1) = Len(a) + 1
    BY <1>3
  <2> QED BY <1>2, <2>1
<1> HIDE DEF G
<1>11. Leads(b, H[n + 1], k, B)
  BY <1>3, <1>8, <1>9, <1>10 DEF Leads, Track
<1> QED BY <1>1, <1>7, <1>11 DEF Ordered, b

------------------------------------------------------------------------------------
(* The calls and the threads.  A list is in order when it is run with h held.      *)

Globals == {"journal", "metadata", "file", "transfer"}

LEMMA Levels ==
  /\ \A h \in SUBSET Mutexes : h \subseteq {"journal"} => Above("metadata", h)
  /\ \A h \in SUBSET Mutexes, m \in {"file", "transfer"} : h \subseteq {"journal", "metadata"} => Above(m, h)
  /\ \A h \in SUBSET Mutexes, x \in Files : h \subseteq Globals => Above(x, h)
  /\ \A m \in Mutexes : Above(m, {})
  BY DEF Above, Rank, Globals, Mutexes, Files

InOrder(s, h) == Ordered(s, h, h)

LEMMA Rules ==
  ASSUME NEW h \in SUBSET Mutexes
  PROVE  /\ InOrder(<< >>, h)
         /\ \A s, r : InOrder(s, h) /\ InOrder(r, h) => InOrder(s \o r, h)
         /\ \A s, r : InOrder(s, h) /\ InOrder(r, h) => InOrder(Either(s, r), h)
         /\ \A s : InOrder(s, h) => InOrder(Maybe(s), h)
         /\ \A s, c, y : InOrder(s, h) => InOrder(If(c, y, s), h)
         /\ \A m : Above(m, h) => InOrder(Within(m), h)
         /\ \A m, s : Above(m, h) /\ InOrder(s, h \cup {m}) => InOrder(Hold(m, s), h)
<1>1. InOrder(<< >>, h)
  BY OrderedEmpty DEF InOrder
<1>2. ASSUME NEW s, NEW r, InOrder(s, h), InOrder(r, h) PROVE InOrder(s \o r, h) /\ InOrder(Either(s, r), h)
  <2>1. Ordered(s, h, h) /\ Ordered(r, h, h)
    BY <1>2 DEF InOrder
  <2>2. Ordered(s \o r, h, h)
    BY <2>1, OrderedCat
  <2>3. Ordered(Either(s, r), h, h)
    BY <2>1, OrderedEither
  <2> QED BY <2>2, <2>3 DEF InOrder
<1>3. ASSUME NEW s, InOrder(s, h) PROVE InOrder(Maybe(s), h)
  <2>1. Ordered(s, h, h)
    BY <1>3 DEF InOrder
  <2> QED BY <2>1, OrderedMaybe DEF InOrder
<1>4. ASSUME NEW s, NEW c, NEW y, InOrder(s, h) PROVE InOrder(If(c, y, s), h)
  <2>1. Ordered(s, h, h)
    BY <1>4 DEF InOrder
  <2> QED BY <2>1, OrderedIf DEF InOrder
<1>5. ASSUME NEW m, Above(m, h) PROVE InOrder(Within(m), h)
  BY <1>5, OrderedWithin DEF InOrder
<1>6. ASSUME NEW m, NEW s, Above(m, h), InOrder(s, h \cup {m}) PROVE InOrder(Hold(m, s), h)
  <2>1. Ordered(s, h \cup {m}, h \cup {m})
    BY <1>6 DEF InOrder
  <2> QED BY <1>6, <2>1, OrderedHold DEF InOrder
<1> QED BY <1>1, <1>2, <1>3, <1>4, <1>5, <1>6

(* One section, nothing held. *)
LEMMA Sections ==
  /\ \A m \in Mutexes : InOrder(Within(m), {})
  /\ InOrder(Find, {}) /\ InOrder(JournalAppend, {}) /\ InOrder(WasRenamed, {})
  /\ InOrder(GetFd, {}) /\ InOrder(PutFd, {}) /\ InOrder(Freshen, {}) /\ InOrder(UpdateMetadata, {})
  /\ InOrder(CleanupBacking, {})
<1>1. ASSUME NEW m \in Mutexes PROVE InOrder(Within(m), {})
  BY Levels, Rules
<1>2. {"metadata", "journal", "file", "f"} \subseteq Mutexes
  BY DEF Mutexes, Files
<1> QED BY <1>1, <1>2 DEF Find, JournalAppend, WasRenamed, GetFd, PutFd, Freshen, UpdateMetadata, CleanupBacking

(* A section of the metadata mutex, nothing else held. *)
LEMMA MetadataSection ==
  ASSUME NEW s, InOrder(s, {"metadata"})
  PROVE  InOrder(Hold("metadata", s), {})
<1>1. {} \in SUBSET Mutexes /\ "metadata" \in Mutexes /\ {} \cup {"metadata"} = {"metadata"}
  BY DEF Mutexes
<1>2. Above("metadata", {})
  BY <1>1, Levels
<1> QED BY <1>1, <1>2, Rules

LEMMA FileidGetInOrder ==
  ASSUME NEW x \in Files, NEW h \in SUBSET {"journal", "metadata"}, "metadata" \in h
  PROVE  InOrder(FileidGet(x), h)
<1> DEFINE g == h \cup {"file"}
<1>1. h \in SUBSET Mutexes /\ g \in SUBSET Mutexes /\ g \subseteq Globals /\ {"metadata", "file"} \subseteq g
  BY DEF Mutexes, Globals
<1> HIDE DEF g
<1>2. Above("file", h) /\ Above(x, g)
  BY <1>1, Levels
<1>3. InOrder(Do("get", x), g)
  BY <1>1, <1>2, OrderedDo DEF InOrder
<1> QED BY <1>1, <1>2, <1>3, Rules DEF FileidGet, g

LEMMA FileReleaseInOrder == ASSUME NEW x \in Files PROVE InOrder(FileRelease(x), {})
<1> DEFINE g == {"metadata", "file"}
           none == << >>
           freed == Within(x) \o Do("destroy", x)
           body == Do("unuse", x)
                     \o IF x = "f" THEN If("unused", x, freed)
                        ELSE IF x = "v" THEN none
                        ELSE If("unused", x, Do("destroy", x))
<1>1. /\ {} \in SUBSET Mutexes /\ {"metadata"} \in SUBSET Mutexes /\ g \in SUBSET Mutexes
      /\ {} \cup {"metadata"} = {"metadata"} /\ {"metadata"} \cup {"file"} = g /\ g \subseteq Globals
  BY DEF Mutexes, Globals
<1>2. {"metadata", "file"} \subseteq g
  OBVIOUS
<1> HIDE DEF g, none
<1>3. InOrder(Do("unuse", x), g) /\ InOrder(Do("destroy", x), g)
  BY <1>1, <1>2, OrderedDo DEF InOrder
<1>4. InOrder(Within(x), g) /\ InOrder(none, g)
  BY <1>1, Levels, Rules DEF none
<1>5. InOrder(freed, g)
  BY <1>1, <1>3, <1>4, Rules
<1> HIDE DEF freed
<1>6. InOrder(If("unused", x, freed), g) /\ InOrder(If("unused", x, Do("destroy", x)), g)
  BY <1>1, <1>3, <1>5, Rules
<1>7. InOrder(body, g)
  BY <1>1, <1>3, <1>4, <1>6, Rules
<1>8. FileRelease(x) = Hold("metadata", Hold("file", body))
  BY DEF FileRelease, freed, none
<1> HIDE DEF body
<1>9. InOrder(Hold("file", body), {"metadata"})
  BY <1>1, <1>7, Levels, Rules
<1>10. InOrder(Hold("metadata", Hold("file", body)), {})
  <2>1. Above("metadata", {})
    BY <1>1, Levels
  <2> QED BY <1>1, <1>9, <2>1, Rules
<1> QED BY <1>8, <1>10

LEMMA BackfileInOrder == InOrder(Backfile, {})
<1>1. {} \in SUBSET Mutexes /\ "f" \in Mutexes /\ "transfer" \in Mutexes
  BY DEF Mutexes, Files
<1>2. InOrder(Within("f"), {}) /\ InOrder(Do("use", "f"), {}) /\ InOrder(Ask("f", "backup"), {})
  BY <1>1, Levels, Sections, OrderedDo, OrderedAsk DEF InOrder
<1>3. InOrder(Do("use", "f") \o Ask("f", "backup"), {})
  BY <1>1, <1>2, Rules
<1> QED BY <1>1, <1>2, <1>3, Rules DEF Backfile

LEMMA WritebackInOrder == InOrder(Hold("journal", Writeback), {})
<1> DEFINE h == {"journal"}
           get == Hold("metadata", FileidGet("f"))
           ask == Ask("f", "writeback")
<1>1. /\ {} \in SUBSET Mutexes /\ h \in SUBSET Mutexes /\ {} \cup {"journal"} = h /\ "journal" \in Mutexes
      /\ h \subseteq {"journal"} /\ h \subseteq {"journal", "metadata"} /\ "f" \in Files
      /\ h \cup {"metadata"} \in SUBSET {"journal", "metadata"} /\ "metadata" \in h \cup {"metadata"}
  BY DEF Mutexes, Files
<1> HIDE DEF h
<1>2. Above("metadata", h) /\ Above("transfer", h)
  BY <1>1, Levels
<1>3. InOrder(Within("metadata"), h)
  BY <1>1, <1>2, Rules
<1>4. InOrder(FileidGet("f"), h \cup {"metadata"})
  BY <1>1, FileidGetInOrder
<1>5. InOrder(get, h)
  BY <1>1, <1>2, <1>4, Rules
<1>6. InOrder(ask, h)
  BY <1>1, <1>2, OrderedAsk DEF InOrder
<1>7. Writeback = Maybe(Either(Within("metadata"), get \o ask))
  BY DEF Writeback
<1> HIDE DEF get, ask
<1>8. InOrder(get \o ask, h)
  BY <1>1, <1>5, <1>6, Rules
<1>9. InOrder(Either(Within("metadata"), get \o ask), h)
  BY <1>1, <1>3, <1>8, Rules
<1>10. InOrder(Writeback, h)
  BY <1>1, <1>7, <1>9, Rules
<1> QED BY <1>1, <1>10, Levels, Rules

LEMMA PathCallsInOrder == \A n \in Calls : InOrder(PathCalls[n], {})
<1>0. {} \in SUBSET Mutexes /\ {"metadata"} \in SUBSET Mutexes /\ {"metadata"} \subseteq Globals
      /\ "metadata" \in Mutexes /\ "f" \in Files /\ "v" \in Files /\ {} \cup {"metadata"} = {"metadata"}
  BY DEF Mutexes, Files, Globals
<1>1. InOrder(Find, {}) /\ InOrder(Maybe(JournalAppend), {}) /\ InOrder(JournalAppend, {})
  BY <1>0, Sections, Rules
<1>2. InOrder(Getattr, {}) /\ InOrder(Chmod, {}) /\ InOrder(Unlink, {}) /\ InOrder(Truncate, {})
  BY <1>0, <1>1, Rules DEF Getattr, Chmod, Unlink, Truncate
<1>3. ASSUME NEW s, InOrder(s, {}) PROVE InOrder(MakeEntry(s), {})
  <2>1. InOrder(Find \o s, {})
    BY <1>0, <1>1, <1>3, Rules
  <2>2. InOrder(Maybe(Find \o s), {})
    BY <1>0, <2>1, Rules
  <2> QED BY <1>0, <1>1, <2>2, Rules DEF MakeEntry
<1>4. InOrder(Mknod, {})
  BY <1>1, <1>3 DEF Mknod
<1>5. InOrder(Link, {})
  <2>1. InOrder(Find \o Find, {})
    BY <1>0, <1>1, Rules
  <2>2. InOrder(Find \o Find \o JournalAppend, {})
    BY <1>0, <1>1, <2>1, Rules
  <2>3. InOrder(MakeEntry(Find \o Find \o JournalAppend), {})
    BY <1>3, <2>2
  <2>4. InOrder(Maybe(MakeEntry(Find \o Find \o JournalAppend)), {})
    BY <1>0, <2>3, Rules
  <2> QED BY <1>0, <1>1, <2>4, Rules DEF Link
<1>6. InOrder(Rename, {})
  <2>1. InOrder(UpdateFhPath, {"metadata"})
    BY <1>0, Levels, Rules DEF UpdateFhPath
  <2>2. InOrder(Maybe(UpdateFhPath), {"metadata"})
    BY <1>0, <2>1, Rules
  <2>3. InOrder(Hold("metadata", Maybe(UpdateFhPath)), {})
    BY <2>2, MetadataSection
  <2> QED BY <1>0, <1>1, <2>3, Rules DEF Rename
<1>7. ASSUME "truncate_vops" \in Calls PROVE InOrder(TruncateVops, {})
  <2>1. InOrder(Do("alone", "v"), {"metadata"})
    BY <1>0, <1>7, Levels, OrderedDo DEF InOrder
  <2>2. InOrder(If("live", "v", Do("alone", "v")), {"metadata"})
    BY <1>0, <2>1, Rules
  <2> QED BY <2>2, MetadataSection DEF TruncateVops
<1>8. ASSUME NEW n \in Calls PROVE InOrder(PathCalls[n], {})
  <2>1. n \in {"getattr", "chmod", "mknod", "link", "unlink", "rename", "truncate", "truncate_vops"}
    BY CallsAssumption DEF PathCalls
  <2>2. /\ PathCalls["getattr"] = Getattr /\ PathCalls["chmod"] = Chmod /\ PathCalls["mknod"] = Mknod
        /\ PathCalls["link"] = Link /\ PathCalls["unlink"] = Unlink /\ PathCalls["rename"] = Rename
        /\ PathCalls["truncate"] = Truncate /\ PathCalls["truncate_vops"] = TruncateVops
    BY DEF PathCalls
  <2> QED BY <1>2, <1>4, <1>5, <1>6, <1>7, <2>1, <2>2
<1> QED BY <1>8

LEMMA VopsBuildInOrder == InOrder(VopsBuild, {})
<1>0. {} \in SUBSET Mutexes /\ {"transfer"} \in SUBSET Mutexes /\ {"transfer"} \subseteq Globals
      /\ {"journal", "metadata", "file", "transfer"} \subseteq Mutexes /\ "f" \in Files /\ {} \cup {"transfer"} = {"transfer"}
  BY DEF Mutexes, Files, Globals
<1>1. InOrder(Within("f"), {"transfer"})
  BY <1>0, Levels, Rules
<1>2. InOrder(If("current", "backup", Within("f")), {"transfer"}) /\ InOrder(If("current", "writeback", Within("f")), {"transfer"})
  BY <1>0, <1>1, Rules
<1>3. InOrder(If("current", "backup", Within("f")) \o If("current", "writeback", Within("f")), {"transfer"})
  BY <1>0, <1>2, Rules
<1>4. InOrder(TransferDump, {})
  <2>1. Above("transfer", {})
    BY <1>0, Levels
  <2> QED BY <1>0, <1>3, <2>1, Rules DEF TransferDump
<1>5. InOrder(Either(TransferDump, Within("journal")), {}) /\ InOrder(Either(Within("metadata"), Within("file")), {})
  BY <1>0, <1>4, Sections, Rules
<1>6. InOrder(Either(Either(TransferDump, Within("journal")), Either(Within("metadata"), Within("file"))), {})
  BY <1>0, <1>5, Rules
<1> QED BY <1>0, <1>6, Rules DEF VopsBuild

LEMMA OpenInOrder == ASSUME NEW x \in {"f", "v"} PROVE InOrder(Open(x), {})
<1>0. {} \in SUBSET Mutexes /\ {} \cup {"metadata"} = {"metadata"} /\ x \in Files /\ "metadata" \in Mutexes
  BY DEF Mutexes, Files
<1>1. InOrder(FileidGet(x), {"metadata"})
  BY <1>0, FileidGetInOrder
<1>2. InOrder(Hold("metadata", FileidGet(x)), {})
  BY <1>0, <1>1, Levels, Rules
<1>3. InOrder(Maybe(Backfile), {})
  BY <1>0, BackfileInOrder, Rules
<1>4. InOrder(IF x = "f" THEN Maybe(Backfile) ELSE VopsBuild, {})
  BY <1>3, VopsBuildInOrder
<1> QED BY <1>0, <1>2, <1>4, Rules DEF Open

LEMMA IoInOrder == ASSUME NEW x \in {"f", "v"} PROVE InOrder(Read(x), {}) /\ InOrder(Write(x), {})
<1> DEFINE none == << >>
           got == Maybe(GetFd \o PutFd \o Within("f") \o Maybe(JournalAppend) \o UpdateMetadata)
           found == Within("f") \o GetFd \o Either(Maybe(WasRenamed), PutFd \o Maybe(UpdateMetadata))
<1>0. {} \in SUBSET Mutexes /\ "f" \in Mutexes /\ "v" \in Mutexes
  BY DEF Mutexes, Files
<1>1. InOrder(none, {}) /\ InOrder(Within("f"), {}) /\ InOrder(Within("v"), {})
  BY <1>0, Sections, Rules
<1>2. InOrder(got, {})
  <2>1. InOrder(GetFd \o PutFd, {})
    BY <1>0, Sections, Rules
  <2>2. InOrder(GetFd \o PutFd \o Within("f"), {})
    BY <1>0, <1>1, <2>1, Rules
  <2>3. InOrder(Maybe(JournalAppend), {})
    BY <1>0, Sections, Rules
  <2>4. InOrder(GetFd \o PutFd \o Within("f") \o Maybe(JournalAppend), {})
    BY <1>0, <2>2, <2>3, Rules
  <2>5. InOrder(GetFd \o PutFd \o Within("f") \o Maybe(JournalAppend) \o UpdateMetadata, {})
    BY <1>0, <2>4, Sections, Rules
  <2> QED BY <1>0, <2>5, Rules
<1>3. InOrder(found, {})
  <2>1. InOrder(Within("f") \o GetFd, {})
    BY <1>0, <1>1, Sections, Rules
  <2>2. InOrder(Maybe(WasRenamed), {}) /\ InOrder(Maybe(UpdateMetadata), {})
    BY <1>0, Sections, Rules
  <2>3. InOrder(PutFd \o Maybe(UpdateMetadata), {})
    BY <1>0, <2>2, Sections, Rules
  <2>4. InOrder(Either(Maybe(WasRenamed), PutFd \o Maybe(UpdateMetadata)), {})
    BY <1>0, <2>2, <2>3, Rules
  <2> QED BY <1>0, <2>1, <2>4, Rules
<1>4. /\ Read(x) = Freshen \o IF x = "v" THEN none ELSE found
      /\ Write(x) = Freshen \o IF x = "v" THEN Within("v") ELSE got
  BY DEF Read, Write
<1> HIDE DEF none, got, found
<1>5. InOrder(IF x = "v" THEN none ELSE found, {}) /\ InOrder(IF x = "v" THEN Within("v") ELSE got, {})
  BY <1>1, <1>2, <1>3
<1> QED BY <1>0, <1>4, <1>5, Sections, Rules

LEMMA ScheduleFillInOrder == ASSUME NEW x \in Files PROVE InOrder(ScheduleFill(x), {"metadata"})
<1>0. {"metadata"} \in SUBSET Mutexes /\ {"metadata"} \subseteq {"journal", "metadata"} /\ "metadata" \in {"metadata"}
      /\ {"metadata"} \in SUBSET {"journal", "metadata"}
  BY DEF Mutexes
<1>1. InOrder(FileidGet(x), {"metadata"})
  BY <1>0, FileidGetInOrder
<1>2. InOrder(Ask(x, "fill"), {"metadata"})
  BY <1>0, Levels, OrderedAsk DEF InOrder
<1> QED BY <1>0, <1>1, <1>2, Rules DEF ScheduleFill

LEMMA ReleaseInOrder == ASSUME NEW x \in {"f", "v"} PROVE InOrder(Release(x), {})
<1>0. /\ {} \in SUBSET Mutexes /\ {"metadata"} \in SUBSET Mutexes /\ {} \cup {"metadata"} = {"metadata"}
      /\ {"journal", "metadata", "file", "f"} \subseteq Mutexes /\ x \in Files /\ "d" \in Files
      /\ {"metadata"} \subseteq {"journal", "metadata"}
  BY DEF Mutexes, Files
<1>1. InOrder(MetadataFlush, {})
  <2>1. InOrder(Within("file"), {"metadata"})
    BY <1>0, Levels, Rules
  <2>2. InOrder(Hold("metadata", Within("file")), {})
    BY <1>0, <2>1, Levels, Rules
  <2>3. InOrder(Hold("metadata", Within("file")) \o Within("metadata"), {})
    BY <1>0, <2>2, Sections, Rules
  <2>4. InOrder(Maybe(Hold("metadata", Within("file")) \o Within("metadata")), {})
    BY <1>0, <2>3, Rules
  <2>5. InOrder(Within("file") \o Within("journal"), {})
    BY <1>0, Sections, Rules
  <2> QED BY <1>0, <2>4, <2>5, Rules DEF MetadataFlush
<1>2. InOrder(MetadataFill, {})
  <2>1. InOrder(ScheduleFill("d"), {"metadata"})
    BY <1>0, ScheduleFillInOrder
  <2>2. InOrder(Maybe(ScheduleFill("d")), {"metadata"})
    BY <1>0, <2>1, Rules
  <2> QED BY <2>2, MetadataSection DEF MetadataFill
<1>3. InOrder(JournalApply, {})
  BY WritebackInOrder DEF JournalApply
<1>4. InOrder(Either(JournalApply, MetadataFlush), {}) /\ InOrder(Either(CleanupBacking, MetadataFill), {})
  BY <1>0, <1>1, <1>2, <1>3, Sections, Rules
<1>5. InOrder(Action, {})
  BY <1>0, <1>4, Rules DEF Action
<1>6. InOrder(IF x = "v" THEN Action ELSE Within("f"), {})
  BY <1>0, <1>5, Sections
<1>7. InOrder(Maybe(IF x = "v" THEN Action ELSE Within("f")), {})
  BY <1>0, <1>6, Rules
<1> QED BY <1>0, <1>7, FileReleaseInOrder, Rules DEF Release

LEMMA TickInOrder == InOrder(Tick, {})
<1>0. {} \in SUBSET Mutexes /\ {"file"} \in SUBSET Mutexes /\ {"file"} \subseteq Globals /\ {} \cup {"file"} = {"file"}
      /\ "f" \in Files /\ {"file", "metadata"} \subseteq Mutexes
  BY DEF Mutexes, Files, Globals
<1>1. InOrder(Maybe(Within("f")), {"file"})
  BY <1>0, Levels, Rules
<1>2. InOrder(If("live", "f", Maybe(Within("f"))), {"file"})
  BY <1>0, <1>1, Rules
<1>3. InOrder(Hold("file", If("live", "f", Maybe(Within("f")))), {})
  BY <1>0, <1>2, Levels, Rules
<1> QED BY <1>0, <1>3, Sections, Rules DEF Tick

LEMMA DoTransferInOrder == ASSUME NEW x \in Files, NEW t \in Transfers PROVE InOrder(DoTransfer(x, t), {})
<1> DEFINE none == << >>
           fills == IF x = "d" THEN Maybe(ScheduleFill("e")) ELSE none
           told == IF t = "writeback" THEN Within("journal") ELSE none
           works == Within("f") \o Maybe(TransferFile \o Within("f")) \o told
<1>0. /\ {} \in SUBSET Mutexes /\ {"metadata"} \in SUBSET Mutexes /\ {} \cup {"metadata"} = {"metadata"}
      /\ {"journal", "metadata", "f"} \subseteq Mutexes /\ "e" \in Files
  BY DEF Mutexes, Files
<1>1. InOrder(Within("metadata") \o Maybe(Hold("metadata", fills)), {})
  <2>1. InOrder(Maybe(ScheduleFill("e")), {"metadata"}) /\ InOrder(none, {"metadata"})
    BY <1>0, ScheduleFillInOrder, Rules
  <2> HIDE DEF none
  <2>2. InOrder(fills, {"metadata"})
    BY <2>1
  <2> HIDE DEF fills
  <2>3. InOrder(Hold("metadata", fills), {})
    BY <1>0, <2>2, Levels, Rules
  <2>4. InOrder(Maybe(Hold("metadata", fills)), {})
    BY <1>0, <2>3, Rules
  <2> QED BY <1>0, <2>4, Sections, Rules
<1>2. InOrder(TransferFile, {})
  <2>1. InOrder(GetFd \o Within("f"), {}) /\ InOrder(Maybe(WasRenamed), {})
    BY <1>0, Sections, Rules
  <2>2. InOrder(GetFd \o Within("f") \o PutFd, {})
    BY <1>0, <2>1, Sections, Rules
  <2>3. InOrder(Either(Maybe(WasRenamed), GetFd \o Within("f") \o PutFd), {})
    BY <1>0, <2>1, <2>2, Rules
  <2> QED BY <1>0, <2>3, Sections, Rules DEF TransferFile
<1>3. InOrder(works, {})
  <2>1. InOrder(none, {}) /\ InOrder(Within("journal"), {}) /\ InOrder(Within("f"), {})
    BY <1>0, Sections, Rules
  <2> HIDE DEF none
  <2>2. InOrder(told, {})
    BY <2>1
  <2> HIDE DEF told
  <2>3. InOrder(TransferFile \o Within("f"), {})
    BY <1>0, <1>2, <2>1, Rules
  <2>4. InOrder(Maybe(TransferFile \o Within("f")), {})
    BY <1>0, <2>3, Rules
  <2>5. InOrder(Within("f") \o Maybe(TransferFile \o Within("f")), {})
    BY <1>0, <2>1, <2>4, Rules
  <2> QED BY <1>0, <2>2, <2>5, Rules
<1>4. DoTransfer(x, t) = IF t = "fill" THEN Within("metadata") \o Maybe(Hold("metadata", fills))
                         ELSE Maybe(Find \o Maybe(works))
  BY DEF DoTransfer
<1> HIDE DEF works, fills
<1>5. InOrder(Maybe(Find \o Maybe(works)), {})
  <2>1. InOrder(Maybe(works), {})
    BY <1>0, <1>3, Rules
  <2>2. InOrder(Find \o Maybe(works), {})
    BY <1>0, <2>1, Sections, Rules
  <2> QED BY <1>0, <2>2, Rules
<1> QED BY <1>1, <1>4, <1>5

LEMMA TransferThreadInOrder ==
  ASSUME NEW x \in Files, NEW t \in Transfers
  PROVE  InOrder(TransferThread(x, t), {})
<1> DEFINE taken == << <<"take", x, t>> >>
           published == << <<"publish", x, t>> >>
<1>0. {} \in SUBSET Mutexes /\ {"transfer"} \in SUBSET Mutexes /\ {"transfer"} \subseteq Globals
      /\ {} \cup {"transfer"} = {"transfer"} /\ "transfer" \in Mutexes
  BY DEF Mutexes, Globals
<1>1. InOrder(taken, {"transfer"}) /\ InOrder(published, {"transfer"})
  BY <1>0, OrderedPublish DEF InOrder
<1>2. InOrder(Within(x), {"transfer"})
  BY <1>0, Levels, Rules
<1>3. TransferThread(x, t) =
        Hold("transfer", taken \o Within(x) \o published) \o DoTransfer(x, t) \o Do("retract", t) \o FileRelease(x)
  BY DEF TransferThread
<1> HIDE DEF taken, published
<1>4. InOrder(taken \o Within(x), {"transfer"})
  BY <1>0, <1>1, <1>2, Rules
<1>5. InOrder(taken \o Within(x) \o published, {"transfer"})
  BY <1>0, <1>1, <1>4, Rules
<1>6. InOrder(Hold("transfer", taken \o Within(x) \o published), {})
  BY <1>0, <1>5, Levels, Rules
<1>7. InOrder(Hold("transfer", taken \o Within(x) \o published) \o DoTransfer(x, t), {})
  BY <1>0, <1>6, DoTransferInOrder, Rules
<1>8. InOrder(Do("retract", t), {})
  BY <1>0, Levels, OrderedDo DEF InOrder
<1>9. InOrder(Hold("transfer", taken \o Within(x) \o published) \o DoTransfer(x, t) \o Do("retract", t), {})
  BY <1>0, <1>7, <1>8, Rules
<1>10. InOrder(FileRelease(x), {})
  BY FileReleaseInOrder
<1> DEFINE before == Hold("transfer", taken \o Within(x) \o published) \o DoTransfer(x, t) \o Do("retract", t)
<1>11. InOrder(before, {}) /\ TransferThread(x, t) = before \o FileRelease(x)
  BY <1>3, <1>9
<1> HIDE DEF before
<1>12. InOrder(before \o FileRelease(x), {})
  BY <1>0, <1>10, <1>11, Rules
<1> QED BY <1>11, <1>12

------------------------------------------------------------------------------------
(* Every thread, wherever it is, has an orderly list before it.                    *)

HeldBy(t) == {m \in Mutexes : holder[m] = t}

LockInv ==
  /\ holder \in [Mutexes -> Threads \cup {NONE}]
  /\ DOMAIN todo = Threads /\ todo = [t \in Threads |-> todo[t]]
  /\ \A t \in Threads : Ordered(todo[t], HeldBy(t), {})

LEMMA LockInvInit == Init => LockInv
<1> SUFFICES ASSUME Init PROVE LockInv
  OBVIOUS
<1>1. \A t \in Threads : HeldBy(t) = {} /\ todo[t] = << >>
  BY ClientsAssumption DEF Init, HeldBy
<1>2. Ordered(<< >>, {}, {})
  BY OrderedEmpty
<1> QED BY <1>1, <1>2 DEF Init, LockInv

(* A step of thread t takes nothing from the others. *)
OthersStay(t) == \A u \in Threads \ {t} : HeldBy(u)' = HeldBy(u) /\ todo'[u] = todo[u]

(* A thread that has given back nothing yet of what it has taken goes on. *)
LEMMA GoesOn ==
  ASSUME LockInv, NEW t \in Threads, Busy(t), NEW s, NEW k \in SUBSET Mutexes,
         Ordered(s, HeldAfter(Next1(t), HeldBy(t)), k), k = HeldAfter(Next1(t), HeldBy(t)),
         NEW h \in [Mutexes -> Threads \cup {NONE}],
         \A m \in Mutexes : h[m] = t <=> m \in k,
         \A u \in Threads \ {t}, m \in Mutexes : h[m] = u <=> m \in HeldBy(u),
         GoesHolding(t, s, h)
  PROVE  LockInv' /\ OthersStay(t)
<1> DEFINE a == todo[t]
           rest == s \o Tail(a)
<1>1. Ordered(a, HeldBy(t), {}) /\ a # << >> /\ IsList(a) /\ Next1(t) = a[1]
  <2>1. Ordered(a, HeldBy(t), {}) /\ a # << >>
    BY DEF LockInv, Busy
  <2>2. IsList(a)
    BY <2>1 DEF Ordered, Leads
  <2> QED BY <2>1, <2>2, TailIs DEF Next1
<1>2. Ordered(Tail(a), k, {})
  BY <1>1, OrderedGo
<1>3. Ordered(rest, k, {})
  <2>1. Ordered(s, k, k)
    OBVIOUS
  <2> HIDE DEF a
  <2> QED BY <1>2, <2>1, OrderedCat
<1>4. todo' = [todo EXCEPT ![t] = SubSeq(rest, Cardinality(Unlocks(rest)) + 1, Len(rest))]
  BY DEF GoesHolding
<1>5. holder' = [m \in Mutexes |-> IF m \in {rest[i][2] : i \in 1..Cardinality(Unlocks(rest))} THEN NONE ELSE h[m]]
  BY DEF GoesHolding
<1> HIDE DEF rest
<1>6. IsList(rest)
  BY <1>3 DEF Ordered, Leads
<1>7. PICK n \in 0..Len(rest) : Unlocks(rest) = 1..n /\ Cardinality(Unlocks(rest)) = n
  BY <1>6, UnlocksIs
<1>8. \A i \in 1..n : rest[i][1] = "unlock"
  <2> SUFFICES ASSUME NEW i \in 1..n PROVE rest[i][1] = "unlock"
    OBVIOUS
  <2>1. i \in Unlocks(rest) /\ i \in 1..i
    BY <1>7
  <2> QED BY <2>1 DEF Unlocks
<1> DEFINE free == {rest[i][2] : i \in 1..n}
           b == SubSeq(rest, n + 1, Len(rest))
<1>9. Ordered(b, k \ free, {}) /\ free \subseteq k
  BY <1>3, <1>7, <1>8, OrderedUnlock
<1>10. todo' = [todo EXCEPT ![t] = b] /\ holder' = [m \in Mutexes |-> IF m \in free THEN NONE ELSE h[m]]
  BY <1>4, <1>5, <1>7
<1> HIDE DEF free, b
<1>11. holder' \in [Mutexes -> Threads \cup {NONE}]
  BY <1>10
<1>12. HeldBy(t)' = k \ free
  BY <1>10, ClientsAssumption DEF HeldBy
<1>13. ASSUME NEW u \in Threads \ {t} PROVE HeldBy(u)' = HeldBy(u)
  <2>1. \A m \in free : h[m] = t
    BY <1>9
  <2> QED BY <1>9, <1>10, <2>1, ClientsAssumption DEF HeldBy
<1>14. todo'[t] = b /\ \A u \in Threads \ {t} : todo'[u] = todo[u]
  BY <1>10 DEF LockInv
<1>15. DOMAIN todo' = Threads /\ todo' = [u \in Threads |-> todo'[u]]
  BY <1>10 DEF LockInv
<1>16. ASSUME NEW u \in Threads PROVE Ordered(todo'[u], HeldBy(u)', {})
  <2>1. CASE u = t
    BY <1>9, <1>12, <1>14, <2>1
  <2>2. CASE u # t
    <3>1. HeldBy(u)' = HeldBy(u) /\ todo'[u] = todo[u]
      BY <1>13, <1>14, <2>2
    <3> QED BY <3>1 DEF LockInv
  <2> QED BY <2>1, <2>2
<1> QED BY <1>11, <1>13, <1>14, <1>15, <1>16 DEF LockInv, OthersStay

(* The same, of a step that takes no mutex for longer. *)
LEMMA GoesSimply ==
  ASSUME LockInv, NEW t \in Threads, Busy(t), Op(t) \notin {"lock", "unlock"},
         NEW s, s = << >> \/ s \in Branches(Next1(t)), Goes(t, s)
  PROVE  LockInv' /\ OthersStay(t)
<1> DEFINE k == HeldBy(t)
<1>1. Ordered(todo[t], k, {}) /\ todo[t] # << >>
  BY DEF LockInv, Busy
<1>2. Next1(t) = todo[t][1]
  <2>1. IsList(todo[t])
    BY <1>1 DEF Ordered, Leads
  <2> QED BY <1>1, <2>1, TailIs DEF Next1
<1>3. HeldAfter(Next1(t), k) = k
  BY DEF HeldAfter, Op
<1>4. Ordered(s, k, k)
  <2>1. CASE s = << >>
    <3>1. k \in SUBSET Mutexes
      BY DEF HeldBy
    <3> HIDE DEF k
    <3> QED BY <2>1, <3>1, OrderedEmpty
  <2>2. CASE s \in Branches(Next1(t))
    BY <1>1, <1>2, <2>2, OrderedGo
  <2> QED BY <2>1, <2>2
<1>5. k \in SUBSET Mutexes /\ holder \in [Mutexes -> Threads \cup {NONE}]
      /\ \A u \in Threads, m \in Mutexes : holder[m] = u <=> m \in HeldBy(u)
  BY DEF HeldBy, LockInv
<1>6. GoesHolding(t, s, holder)
  BY DEF Goes
<1> HIDE DEF k
<1>7. \A m \in Mutexes : holder[m] = t <=> m \in k
  BY <1>5 DEF k
<1> QED BY <1>3, <1>4, <1>5, <1>6, <1>7, GoesOn DEF k

LEMMA StartsInOrder ==
  ASSUME LockInv, NEW t \in Threads, NEW s, InOrder(s, {}), Starts(t, s), UNCHANGED holder
  PROVE  LockInv'
<1>0. todo[t] = << >> /\ todo' = [todo EXCEPT ![t] = s]
  BY DEF Starts
<1>1. HeldBy(t) = {}
  <2>1. Ordered(<< >>, HeldBy(t), {})
    BY <1>0 DEF LockInv
  <2>2. PICK B : Leads(<< >>, HeldBy(t), {}, B)
    BY <2>1 DEF Ordered
  <2>3. Len(<< >>) = 0
    OBVIOUS
  <2> QED BY <2>2, <2>3 DEF Leads
<1>2. todo'[t] = s /\ \A u \in Threads \ {t} : todo'[u] = todo[u]
  BY <1>0 DEF LockInv
<1>3. \A u \in Threads : HeldBy(u)' = HeldBy(u)
  BY DEF HeldBy
<1>4. DOMAIN todo' = Threads /\ todo' = [u \in Threads |-> todo'[u]]
  BY <1>0 DEF LockInv
<1>5. ASSUME NEW u \in Threads PROVE Ordered(todo'[u], HeldBy(u)', {})
  BY <1>1, <1>2, <1>3 DEF LockInv, InOrder
<1> QED BY <1>4, <1>5 DEF LockInv

LEMMA StepInOrder ==
  ASSUME LockInv, NEW t \in Threads, Step(t)
  PROVE  LockInv' /\ OthersStay(t)
<1>1. CASE Acquire(t)
  <2> DEFINE x == Next1(t)
             k == HeldAfter(x, HeldBy(t))
             h == [holder EXCEPT ![x[2]] = t]
  <2>1. /\ Busy(t) /\ x[1] = "lock" /\ \A m \in Needs(t) : holder[m] = NONE
        /\ GoesHolding(t, << >>, h)
    BY <1>1 DEF Acquire, Ready, Op, Arg
  <2>2. Needs(t) = {x[2]}
    BY <2>1 DEF Needs, Op, Arg
  <2>3. x[2] \in Mutexes
    <3>1. Ordered(todo[t], HeldBy(t), {}) /\ todo[t] # << >>
      BY <2>1 DEF LockInv, Busy
    <3>2. x = todo[t][1]
      <4>1. IsList(todo[t])
        BY <3>1 DEF Ordered, Leads
      <4> QED BY <3>1, <4>1, TailIs DEF Next1
    <3>3. \A m \in MayNeed(x) : Above(m, HeldBy(t))
      BY <3>1, <3>2, OrderedGo
    <3> QED BY <2>1, <3>3 DEF MayNeed, Above
  <2>4. k = HeldBy(t) \cup {x[2]} /\ HeldBy(t) \in SUBSET Mutexes
    BY <2>1 DEF HeldAfter, HeldBy
  <2>5. holder[x[2]] = NONE
    BY <2>1, <2>2
  <2> HIDE DEF x
  <2>6. h \in [Mutexes -> Threads \cup {NONE}] /\ k \in SUBSET Mutexes
    BY <2>3, <2>4 DEF LockInv
  <2>7. \A m \in Mutexes : h[m] = t <=> m \in k
    BY <2>3, <2>4 DEF HeldBy, LockInv
  <2>8. \A u \in Threads \ {t}, m \in Mutexes : h[m] = u <=> m \in HeldBy(u)
    BY <2>3, <2>5, ClientsAssumption DEF HeldBy, LockInv
  <2>9. Ordered(<< >>, k, k)
    <3> HIDE DEF k
    <3> QED BY <2>6, OrderedEmpty
  <2> HIDE DEF h, k
  <2>10. k = HeldAfter(Next1(t), HeldBy(t))
    BY DEF k, x
  <2> QED BY <2>1, <2>6, <2>7, <2>8, <2>9, <2>10, GoesOn
<1>2. CASE Branch(t)
  <2> DEFINE x == Next1(t)
  <2>1. Busy(t) /\ Op(t) = x[1] /\ x[1] \in {"either", "if"}
    BY <1>2 DEF Branch, Ready, Op
  <2>2. \E s : (s = << >> \/ s \in Branches(x)) /\ Goes(t, s)
    <3>1. CASE Ready(t, "either")
      <4>1. Branches(x) = {x[2], x[3]}
        BY <3>1 DEF Branches, Ready, Op
      <4>2. Goes(t, x[2]) \/ Goes(t, x[3])
        BY <1>2, <3>1 DEF Branch, Ready, Op
      <4> QED BY <4>1, <4>2
    <3>2. CASE Ready(t, "if")
      <4>1. Branches(x) = {x[4]}
        BY <3>2 DEF Branches, Ready, Op
      <4>2. Goes(t, x[4]) \/ Goes(t, << >>)
        BY <1>2, <3>2 DEF Branch, Ready, Op
      <4> QED BY <4>1, <4>2
    <3> QED BY <1>2, <3>1, <3>2 DEF Branch
  <2> QED BY <2>1, <2>2, GoesSimply
<1>3. CASE Section(t) \/ Get(t) \/ Unuse(t) \/ Destroy(t) \/ Alone(t) \/ QueueFile(t) \/ Publish(t)
  <2>1. Busy(t) /\ Op(t) \notin {"lock", "unlock"} /\ Goes(t, << >>)
    BY <1>3 DEF Section, Get, Unuse, Destroy, Alone, QueueFile, Publish, Ready
  <2> QED BY <2>1, GoesSimply
<1> QED BY <1>1, <1>2, <1>3 DEF Step

OpenedType == opened \in [Clients -> {"none", "f", "v"}]

LEMMA OpenedStep == OpenedType /\ [Next]_vars => OpenedType'
<1> SUFFICES ASSUME OpenedType, [Next]_vars PROVE OpenedType'
  OBVIOUS
<1>1. ASSUME NEW c \in Clients, Call(c) \/ CallIo(c) \/ CallRelease(c) PROVE OpenedType'
  BY <1>1 DEF Call, CallIo, CallRelease, OpenedType
<1>2. CASE UNCHANGED opened
  BY <1>2 DEF OpenedType
<1>3. CASE (\E t \in Threads : Step(t)) \/ (\E t \in Transfers : Wake(t)) \/ StartTick \/ Finished \/ UNCHANGED vars
  BY <1>2, <1>3 DEF Step, Wake, StartTick, Finished, vars
<1> QED BY <1>1, <1>3 DEF Next

LEMMA LockInvStep ==
  ASSUME LockInv, OpenedType, [Next]_vars
  PROVE  LockInv'
<1>0. Clients \subseteq Threads /\ Transfers \subseteq Threads /\ "ticker" \in Threads
  BY DEF Threads, Background
<1>1. ASSUME NEW c \in Clients, Call(c) PROVE LockInv'
  <2>1. UNCHANGED holder /\ \/ \E n \in Calls : Starts(c, PathCalls[n])
                            \/ \E x \in {"f", "v"} : Starts(c, Open(x))
    BY <1>1 DEF Call
  <2> QED BY <1>0, <2>1, PathCallsInOrder, OpenInOrder, StartsInOrder
<1>2. ASSUME NEW x \in {"f", "v"}, NEW c \in Clients,
             Starts(c, Read(x)) \/ Starts(c, Write(x)) \/ Starts(c, Release(x)), UNCHANGED holder
      PROVE  LockInv'
  BY <1>0, <1>2, IoInOrder, ReleaseInOrder, StartsInOrder
<1>3. CASE \E t \in Threads : Step(t)
  BY <1>3, StepInOrder
<1>4. CASE \E t \in Transfers : Wake(t)
  BY <1>0, <1>4, TransferThreadInOrder, StartsInOrder DEF Wake
<1>5. CASE StartTick
  BY <1>0, <1>5, TickInOrder, StartsInOrder DEF StartTick
<1>6. CASE UNCHANGED vars \/ Finished
  BY <1>6 DEF vars, Finished, LockInv, HeldBy
<1>7. ASSUME NEW c \in Clients, CallIo(c) \/ CallRelease(c) PROVE LockInv'
  <2> DEFINE x == opened[c]
  <2>1. x \in {"f", "v"}
    BY <1>7 DEF CallIo, CallRelease, OpenedType
  <2>2. UNCHANGED holder /\ (Starts(c, Read(x)) \/ Starts(c, Write(x)) \/ Starts(c, Release(x)))
    BY <1>7 DEF CallIo, CallRelease
  <2> HIDE DEF x
  <2> QED BY <1>2, <2>1, <2>2
<1> QED BY <1>1, <1>3, <1>4, <1>5, <1>6, <1>7 DEF Next

LEMMA LockInvHolds == Spec => [](LockInv /\ OpenedType)
<1>1. Init => LockInv /\ OpenedType
  BY LockInvInit DEF Init, OpenedType
<1>2. LockInv /\ OpenedType /\ [Next]_vars => (LockInv /\ OpenedType)'
  BY LockInvStep, OpenedStep
<1> QED BY <1>1, <1>2, PTL DEF Spec

(* What LockInv says of the next step of a thread. *)
LEMMA NextInOrder ==
  ASSUME LockInv, NEW t \in Threads, Busy(t)
  PROVE  /\ \A m \in Needs(t) : m \in Mutexes /\ \A g \in HeldBy(t) : Rank[g] < Rank[m]
         /\ Op(t) \in {"get", "destroy"} => {"metadata", "file"} \subseteq HeldBy(t)
         /\ Op(t) = "alone" => "truncate_vops" \in Calls
<1>1. Ordered(todo[t], HeldBy(t), {}) /\ todo[t] # << >>
  BY DEF LockInv, Busy
<1>2. Next1(t) = todo[t][1]
  <2>1. IsList(todo[t])
    BY <1>1 DEF Ordered, Leads
  <2> QED BY <1>1, <2>1, TailIs DEF Next1
<1>3. Needs(t) \subseteq MayNeed(Next1(t))
  BY DEF Needs, MayNeed, Op, Arg
<1>4. \A m \in MayNeed(Next1(t)) : Above(m, HeldBy(t))
  BY <1>1, <1>2, OrderedGo
<1>5. /\ Op(t) \in {"get", "destroy"} => {"metadata", "file"} \subseteq HeldBy(t)
      /\ Op(t) = "alone" => "truncate_vops" \in Calls
  BY <1>1, <1>2, OrderedGo DEF Op
<1> QED BY <1>3, <1>4, <1>5 DEF Above

(* The assertions of the debug build hold: no thread asks for the metadata lock
   with the file lock held, and open files are created and removed with both. *)
THEOREM AsAssertedHolds == Spec => []AsAsserted
<1>1. ASSUME LockInv PROVE AsAsserted
  <2> SUFFICES ASSUME NEW t \in Threads, Busy(t)
               PROVE  /\ Needs(t) = {"metadata"} => holder["file"] # t
                      /\ Op(t) \in {"get", "destroy"} => holder["metadata"] = t /\ holder["file"] = t
    BY DEF AsAsserted
  <2>1. ASSUME Needs(t) = {"metadata"}, holder["file"] = t PROVE FALSE
    <3>1. "file" \in HeldBy(t) /\ Rank["metadata"] = 2 /\ Rank["file"] = 3
      BY <2>1 DEF HeldBy, Mutexes, Rank
    <3>2. Rank["file"] < Rank["metadata"]
      BY <1>1, <2>1, <3>1, NextInOrder
    <3> QED BY <3>1, <3>2
  <2>2. Op(t) \in {"get", "destroy"} => holder["metadata"] = t /\ holder["file"] = t
    BY <1>1, NextInOrder DEF HeldBy
  <2> QED BY <2>1, <2>2
<1> QED BY <1>1, LockInvHolds, PTL

(* The truncate of a virtual file waits for its other users with the metadata lock
   held, which they need: the one circle that exists (README, departure 23). *)
InTruncate(t) == Busy(t) /\ Op(t) = "alone"
NoVopsTruncate == "truncate_vops" \notin Calls

Circle(S) == S \subseteq Threads /\ S # {} /\ \A t \in S : \E u \in S : WaitsFor(t, u)

(* Of mutexes alone there is no circle: the thread whose predecessor needs the
   highest one would need a higher one. *)
LEMMA CirclesNeedTruncates ==
  ASSUME LockInv, NEW S, Circle(S)
  PROVE  \E t \in S : InTruncate(t)
<1> SUFFICES ASSUME \A t \in S : ~ InTruncate(t) PROVE FALSE
  OBVIOUS
<1>0. S \subseteq Threads /\ S # {} /\ \A t \in S : \E u \in S : WaitsFor(t, u)
  BY DEF Circle
<1>1. ASSUME NEW t \in S PROVE \E m \in Needs(t) : holder[m] \in S
  <2>1. PICK u \in S : WaitsFor(t, u)
    BY <1>0
  <2>2. \E m \in Needs(t) : holder[m] = u
    BY <2>1 DEF WaitsFor, InTruncate
  <2> QED BY <2>2
<1>2. ASSUME NEW t \in S, NEW m \in Needs(t)
      PROVE  m \in Mutexes /\ \A g \in HeldBy(t) : Rank[g] < Rank[m]
  <2>1. Busy(t)
    BY <1>2 DEF Needs
  <2> QED BY <1>0, <1>2, <2>1, NextInOrder
<1> DEFINE W == {m \in Mutexes : holder[m] \in S /\ \E t \in S : m \in Needs(t)}
           Ranks == {4 - Rank[m] : m \in W}
<1>3. \A m \in Mutexes : Rank[m] \in 1..4
  BY DEF Rank
<1>4. Ranks \subseteq Nat /\ Ranks # {}
  <2>1. \E m \in W : TRUE
    BY <1>0, <1>1, <1>2
  <2> QED BY <1>3, <2>1
<1>5. PICK r \in Ranks : \A q \in Ranks : r <= q
  <2> HIDE DEF Ranks
  <2> QED BY <1>4, LeastNatural
<1>6. PICK m \in W : r = 4 - Rank[m]
  OBVIOUS
<1>7. PICK n \in Needs(holder[m]) : holder[n] \in S
  BY <1>1
<1>8. m \in HeldBy(holder[m]) /\ n \in W
  BY <1>2, <1>7 DEF HeldBy
<1>9. Rank[m] < Rank[n]
  BY <1>2, <1>7, <1>8
<1>10. 4 - Rank[m] <= 4 - Rank[n]
  BY <1>5, <1>6, <1>8
<1> QED BY <1>3, <1>8, <1>9, <1>10

(* Whatever is called by however many threads, threads that wait for each other in
   a circle have one among them that truncates a virtual file. *)
OnlyTruncatesDeadlock == \A S \in SUBSET Threads : Circle(S) => \E t \in S : InTruncate(t)

THEOREM OnlyTruncatesDeadlockHolds == Spec => []OnlyTruncatesDeadlock
<1>1. LockInv => OnlyTruncatesDeadlock
  BY CirclesNeedTruncates DEF OnlyTruncatesDeadlock
<1> QED BY <1>1, LockInvHolds, PTL

(* No threads wait for each other in a circle when no virtual file is truncated. *)
THEOREM NoCircularWaitHolds == ASSUME NoVopsTruncate PROVE Spec => []NoCircularWait
<1>1. ASSUME LockInv PROVE NoCircularWait
  <2>1. \A t \in Threads : ~ InTruncate(t)
    BY <1>1, NextInOrder DEF NoVopsTruncate, InTruncate
  <2>2. \A S \in SUBSET Threads : ~ Circle(S)
    <3> SUFFICES ASSUME NEW S \in SUBSET Threads, Circle(S) PROVE FALSE
      OBVIOUS
    <3> QED BY <1>1, <2>1, CirclesNeedTruncates
  <2> QED BY <2>2 DEF NoCircularWait, Circle
<1> QED BY <1>1, LockInvHolds, PTL

------------------------------------------------------------------------------------
(* Why a thread may lock the mutex of a file: the facts it knows before each step.
   They are triples.  <<"use", x, n>>: one of the uses of file x is its own, to keep
   or to give to the queue.  <<"held", m, m>>, <<"live", x, m>>, <<"unused", x, m>>,
   <<"current", u, m>>: it holds mutex m, and found the condition true since.
   <<"queued", x, u>>, <<"taken", x, u>>, <<"shown", x, u>>: it is the thread of
   the transfers u, for which the entry of x is in the queue, was taken, may be
   published.                                                                      *)

Kept(x) == <<"use", x, "kept">>
Spare(x) == <<"use", x, "spare">>
Held(m) == <<"held", m, m>>
Tests == {"live", "unused", "current"}
Passing == {"held"} \cup Tests
Transferable == {<<"f", "backup">>, <<"f", "writeback">>, <<"d", "fill">>, <<"e", "fill">>}

(* What is known while a mutex is held may be forgotten. *)
Weaker(p, o) == p \subseteq o /\ \A e \in o \ p : e[1] \in Passing

Learned(c, y, o) == {<<c, y, m>> : m \in {m \in Globals : Held(m) \in o}}

(* The mutex of file x is there. *)
Reachable(x, o) ==
  \/ Kept(x) \in o
  \/ <<"live", x, "metadata">> \in o \/ <<"live", x, "file">> \in o
  \/ x = "f" /\ (<<"current", "backup", "transfer">> \in o \/ <<"current", "writeback", "transfer">> \in o)

Covers(x, o) ==
  /\ x[1] \in {"lock", "within", "use", "alone"} /\ x[2] \in Files => Reachable(x[2], o)
  /\ x[1] = "use" => Kept(x[2]) \in o
  /\ x[1] \in {"get", "use"} => x[2] \in Files
  /\ x[1] = "if" => x[2] \in Tests
  /\ x[1] \in {"take", "publish"} => Tail(x) = <<x[2], x[3]>>

(* Step x turns facts o into facts q. *)
Turns(x, o, q) ==
  CASE x[1] = "lock" -> q = o \cup {Held(x[2])}
    [] x[1] = "unlock" -> q = {e \in o : e[1] \in Passing => e[3] # x[2]}
    [] x[1] \in {"get", "use"} ->
         \E u \in {Kept(x[2]), Spare(x[2])} \ o : q = {e \in o : e[1] # "unused"} \cup {u}
    [] x[1] = "unuse" ->
         /\ Kept(x[2]) \in o /\ Held("metadata") \in o /\ \A e \in o : e[1] # "shown"
         /\ q = (o \ {Kept(x[2])}) \cup {<<"live", x[2], "metadata">>}
    [] x[1] = "destroy" ->
         /\ <<"unused", x[2], "file">> \in o
         /\ q = {e \in o : e[1] = "live" => e[2] # x[2]}
    [] x[1] = "ask" ->
         /\ Spare(x[2]) \in o /\ <<x[2], x[3]>> \in Transferable
         /\ q = o \ {Spare(x[2])}
    [] x[1] = "take" ->
         /\ <<"queued", x[2], x[3]>> \in o
         /\ q = {e \in o : e[1] # "queued"} \cup {<<"taken", x[2], x[3]>>, Kept(x[2])}
    [] x[1] = "publish" ->
         /\ {<<"taken", x[2], x[3]>>, Kept(x[2])} \subseteq o
         /\ q = o \cup {<<"shown", x[2], x[3]>>}
    [] x[1] = "retract" ->
         /\ \E y : <<"taken", y, x[2]>> \in o
         /\ q = {e \in o : e[1] \notin {"taken", "shown"}}
    [] OTHER -> x[1] \in {"within", "alone"} /\ q = o

(* What follows a step, before list b, is in J: pairs of a list and what is known. *)
Follows(x, o, b, J) ==
  IF x[1] = "either"
  THEN /\ IsList(x[2]) /\ IsList(x[3])
       /\ <<x[2] \o b, o>> \in J /\ <<x[3] \o b, o>> \in J
  ELSE IF x[1] = "if"
  THEN /\ IsList(x[4])
       /\ <<x[4] \o b, o \cup Learned(x[2], x[3], o)>> \in J /\ <<b, o>> \in J
  ELSE \E q : Turns(x, o, q) /\ <<b, q>> \in J

Sound(J, p) ==
  \A e \in J :
    /\ IsList(e[1])
    /\ e[1] = << >> => Weaker(p, e[2])
    /\ e[1] # << >> => \E o : /\ Weaker(o, e[2]) /\ Covers(Head(e[1]), o)
                              /\ Follows(Head(e[1]), o, Tail(e[1]), J)

(* Every way to run list a, knowing o at first, is covered, and ends knowing p. *)
Covered(a, o, p) == \E J : Sound(J, p) /\ <<a, o>> \in J

------------------------------------------------------------------------------------
(* Lists that are judged are composed.                                             *)

LEMMA SameLists ==
  ASSUME NEW a, NEW b, IsList(a), IsList(b), Len(a) = Len(b), \A i \in 1..Len(a) : a[i] = b[i]
  PROVE  a = b
  BY DEF IsList

LEMMA CatEmpty ==
  ASSUME NEW a, IsList(a)
  PROVE  /\ << >> \o a = a /\ a \o << >> = a /\ IsList(<< >>)
         /\ a # << >> => Len(a) > 0
<1>1. IsList(<< >>) /\ Len(<< >>) = 0
  BY DEF IsList
<1>2. << >> \o a = a
  <2>1. \A i \in 1..Len(a) : (<< >> \o a)[0 + i] = a[i]
    BY <1>1, CatIs
  <2>2. \A i \in 1..Len(a) : (<< >> \o a)[i] = a[i]
    BY <2>1 DEF IsList
  <2>3. IsList(<< >> \o a) /\ Len(<< >> \o a) = Len(a)
    BY <1>1, CatIs
  <2> QED BY <2>2, <2>3, SameLists
<1>3. a \o << >> = a
  BY <1>1, CatIs, SameLists
<1>4. a # << >> => Len(a) > 0
  BY TailIs
<1> QED BY <1>1, <1>2, <1>3, <1>4

LEMMA CatAssoc ==
  ASSUME NEW a, NEW b, NEW c, IsList(a), IsList(b), IsList(c)
  PROVE  (a \o b) \o c = a \o (b \o c)
<1> DEFINE T == {a[i] : i \in 1..Len(a)} \cup {b[i] : i \in 1..Len(b)} \cup {c[i] : i \in 1..Len(c)}
<1>1. a \in Seq(T) /\ b \in Seq(T) /\ c \in Seq(T)
  BY ListsInSeq
<1> HIDE DEF T
<1> QED BY <1>1

LEMMA CatHead ==
  ASSUME NEW a, NEW b, IsList(a), IsList(b), a # << >>
  PROVE  a \o b # << >> /\ Head(a \o b) = Head(a) /\ Tail(a \o b) = Tail(a) \o b
<1>1. PICK T : a \in Seq(T) /\ b \in Seq(T)
  BY TwoLists
<1> QED BY <1>1

LEMMA WeakerTwice ==
  ASSUME NEW p, NEW q, NEW r, Weaker(p, q), Weaker(q, r)
  PROVE  Weaker(p, r)
  BY DEF Weaker

LEMMA WeakerSame == ASSUME NEW p PROVE Weaker(p, p)
  BY DEF Weaker

LEMMA FollowsMore ==
  ASSUME NEW x, NEW o, NEW b, NEW J, NEW K, J \subseteq K, Follows(x, o, b, J)
  PROVE  Follows(x, o, b, K)
  BY DEF Follows

LEMMA CoveredCat ==
  ASSUME NEW a, NEW b, NEW o, NEW p, NEW q, Covered(a, o, p), Covered(b, p, q)
  PROVE  Covered(a \o b, o, q)
<1>1. PICK A : Sound(A, p) /\ <<a, o>> \in A
  BY DEF Covered
<1>2. PICK B : Sound(B, q) /\ <<b, p>> \in B
  BY DEF Covered
<1> DEFINE C == {<<e[1] \o b, e[2]>> : e \in A}
           K == C \cup B
<1>3. IsList(b)
  BY <1>2 DEF Sound
<1>4. ASSUME NEW e \in B, NEW r, Weaker(e[2], r)
      PROVE  /\ IsList(e[1])
             /\ e[1] = << >> => Weaker(q, r)
             /\ e[1] # << >> => \E u : /\ Weaker(u, r) /\ Covers(Head(e[1]), u)
                                       /\ Follows(Head(e[1]), u, Tail(e[1]), K)
  <2>1. /\ IsList(e[1])
        /\ e[1] = << >> => Weaker(q, e[2])
        /\ e[1] # << >> => \E u : /\ Weaker(u, e[2]) /\ Covers(Head(e[1]), u)
                                  /\ Follows(Head(e[1]), u, Tail(e[1]), B)
    BY <1>2 DEF Sound
  <2>2. e[1] = << >> => Weaker(q, r)
    BY <1>4, <2>1, WeakerTwice
  <2>3. ASSUME e[1] # << >>
        PROVE  \E u : /\ Weaker(u, r) /\ Covers(Head(e[1]), u) /\ Follows(Head(e[1]), u, Tail(e[1]), K)
    <3>1. PICK u : /\ Weaker(u, e[2]) /\ Covers(Head(e[1]), u) /\ Follows(Head(e[1]), u, Tail(e[1]), B)
      BY <2>1, <2>3
    <3>2. Weaker(u, r)
      BY <1>4, <3>1, WeakerTwice
    <3>3. Follows(Head(e[1]), u, Tail(e[1]), K)
      <4>1. B \subseteq K
        OBVIOUS
      <4> HIDE DEF K
      <4> QED BY <3>1, <4>1, FollowsMore
    <3> HIDE DEF K
    <3> QED BY <3>1, <3>2, <3>3
  <2> HIDE DEF K
  <2> QED BY <2>1, <2>2, <2>3
<1>5. ASSUME NEW e \in A, e[1] # << >>
      PROVE  LET c == e[1] \o b
             IN  /\ c # << >>
                 /\ \E u : Weaker(u, e[2]) /\ Covers(Head(c), u) /\ Follows(Head(c), u, Tail(c), K)
  <2> DEFINE c == e[1] \o b
             x == Head(e[1])
             d == Tail(e[1])
  <2>1. /\ IsList(e[1])
        /\ \E u : Weaker(u, e[2]) /\ Covers(x, u) /\ Follows(x, u, d, A)
    BY <1>1, <1>5 DEF Sound
  <2>2. c # << >> /\ Head(c) = x /\ Tail(c) = d \o b /\ IsList(d)
    BY <1>3, <1>5, <2>1, CatHead, TailIs
  <2> HIDE DEF c, x, d
  <2>3. PICK u : Weaker(u, e[2]) /\ Covers(x, u) /\ Follows(x, u, d, A)
    BY <2>1
  <2>4. ASSUME NEW s, IsList(s) PROVE s \o (d \o b) = (s \o d) \o b
    BY <1>3, <2>2, <2>4, CatAssoc
  <2>5. ASSUME NEW s, NEW r, <<s, r>> \in A PROVE <<s \o b, r>> \in K
    <3> DEFINE f == <<s, r>>
    <3>1. f \in A /\ <<s \o b, r>> = <<f[1] \o b, f[2]>>
      BY <2>5
    <3> HIDE DEF f
    <3>2. <<f[1] \o b, f[2]>> \in C
      BY <3>1
    <3> QED BY <3>1, <3>2
  <2> HIDE DEF K
  <2>6. Follows(x, u, d \o b, K)
    <3>1. CASE x[1] = "either"
      <4>1. IsList(x[2]) /\ IsList(x[3]) /\ <<x[2] \o d, u>> \in A /\ <<x[3] \o d, u>> \in A
        BY <2>3, <3>1 DEF Follows
      <4>2. <<(x[2] \o d) \o b, u>> \in K /\ <<(x[3] \o d) \o b, u>> \in K
        BY <2>5, <4>1
      <4>3. <<x[2] \o (d \o b), u>> \in K /\ <<x[3] \o (d \o b), u>> \in K
        BY <2>4, <4>1, <4>2
      <4> QED BY <3>1, <4>1, <4>3 DEF Follows
    <3>2. CASE x[1] = "if"
      <4>1. /\ x[1] # "either" /\ IsList(x[4]) /\ <<d, u>> \in A
            /\ <<x[4] \o d, u \cup Learned(x[2], x[3], u)>> \in A
        BY <2>3, <3>2 DEF Follows
      <4>2. <<(x[4] \o d) \o b, u \cup Learned(x[2], x[3], u)>> \in K /\ <<d \o b, u>> \in K
        BY <2>5, <4>1
      <4>3. <<x[4] \o (d \o b), u \cup Learned(x[2], x[3], u)>> \in K
        BY <2>4, <4>1, <4>2
      <4> QED BY <3>2, <4>1, <4>2, <4>3 DEF Follows
    <3>3. CASE x[1] \notin {"either", "if"}
      <4>1. PICK r : Turns(x, u, r) /\ <<d, r>> \in A
        BY <2>3, <3>3 DEF Follows
      <4> QED BY <2>5, <3>3, <4>1 DEF Follows
    <3> QED BY <3>1, <3>2, <3>3
  <2> QED BY <2>2, <2>3, <2>6 DEF c
<1>6. ASSUME NEW k \in K
      PROVE  /\ IsList(k[1])
             /\ k[1] = << >> => Weaker(q, k[2])
             /\ k[1] # << >> => \E u : /\ Weaker(u, k[2]) /\ Covers(Head(k[1]), u)
                                       /\ Follows(Head(k[1]), u, Tail(k[1]), K)
  <2>1. CASE k \in B
    <3>1. Weaker(k[2], k[2])
      BY WeakerSame
    <3> HIDE DEF K
    <3> QED BY <1>4, <2>1, <3>1
  <2>3. CASE k \in C
    <3>1. PICK e \in A : k = <<e[1] \o b, e[2]>>
      BY <2>3
    <3>2. k[1] = e[1] \o b /\ k[2] = e[2] /\ IsList(e[1])
      BY <1>1, <3>1 DEF Sound
    <3>3. IsList(k[1])
      BY <1>3, <3>2, CatIs
    <3> HIDE DEF K
    <3>4. CASE e[1] # << >>
      BY <1>5, <3>2, <3>3, <3>4
    <3>5. CASE e[1] = << >>
      <4> DEFINE g == <<b, p>>
      <4>1. g \in B /\ g[1] = b /\ g[2] = p
        BY <1>2
      <4>2. k[1] = b /\ Weaker(p, k[2])
        <5>1. Weaker(p, e[2])
          BY <1>1, <3>5 DEF Sound
        <5> QED BY <1>3, <3>2, <3>5, <5>1, CatEmpty
      <4> HIDE DEF g
      <4> QED BY <1>4, <4>1, <4>2
    <3> QED BY <3>4, <3>5
  <2> QED BY <2>1, <2>3
<1>7. <<a \o b, o>> \in K
  <2> DEFINE f == <<a, o>>
  <2>1. f \in A /\ <<a \o b, o>> = <<f[1] \o b, f[2]>>
    BY <1>1
  <2> HIDE DEF f
  <2>2. <<f[1] \o b, f[2]>> \in C
    BY <2>1
  <2> QED BY <2>1, <2>2
<1> HIDE DEF K
<1>8. Sound(K, q)
  BY <1>6 DEF Sound
<1> QED BY <1>7, <1>8 DEF Covered

LEMMA CoveredList == ASSUME NEW a, NEW o, NEW p, Covered(a, o, p) PROVE IsList(a)
<1>1. PICK J : Sound(J, p) /\ <<a, o>> \in J
  BY DEF Covered
<1> DEFINE e == <<a, o>>
<1>2. e \in J /\ e[1] = a
  BY <1>1
<1> HIDE DEF e
<1> QED BY <1>1, <1>2 DEF Sound

LEMMA CoveredWeak ==
  ASSUME NEW a, NEW o, NEW p, NEW q, Covered(a, o, p), Weaker(q, p)
  PROVE  Covered(a, o, q)
<1>1. PICK J : Sound(J, p) /\ <<a, o>> \in J
  BY DEF Covered
<1>2. Sound(J, q)
  BY <1>1, WeakerTwice DEF Sound
<1> QED BY <1>1, <1>2 DEF Covered

LEMMA CoveredEmpty == ASSUME NEW o, NEW p, Weaker(p, o) PROVE Covered(<< >>, o, p)
<1> DEFINE e == <<<< >>, o>>
<1>1. e[1] = << >> /\ e[2] = o
  OBVIOUS
<1> HIDE DEF e
<1>2. Sound({e}, p)
  BY <1>1, CatEmpty, SameLists DEF Sound, IsList
<1> QED BY <1>2 DEF Covered, e

(* One step, and what may follow it. *)
LEMMA CoveredOne ==
  ASSUME NEW x, NEW o, NEW p, NEW J, Sound(J, p), Covers(x, o), Follows(x, o, << >>, J)
  PROVE  Covered(<<x>>, o, p)
<1> DEFINE a == <<x>>
           e == <<a, o>>
           K == J \cup {e}
<1>1. IsList(a) /\ a # << >> /\ Head(a) = x /\ Tail(a) = << >>
  BY DEF IsList
<1>2. e[1] = a /\ e[2] = o
  OBVIOUS
<1> HIDE DEF a, e
<1>3. J \subseteq K
  OBVIOUS
<1>4. Follows(x, o, << >>, K)
  <2> HIDE DEF K
  <2> QED BY <1>3, FollowsMore
<1>5. ASSUME NEW k \in K
      PROVE  /\ IsList(k[1])
             /\ k[1] = << >> => Weaker(p, k[2])
             /\ k[1] # << >> => \E u : /\ Weaker(u, k[2]) /\ Covers(Head(k[1]), u)
                                       /\ Follows(Head(k[1]), u, Tail(k[1]), K)
  <2>1. CASE k = e
    <3>1. Weaker(o, o)
      BY WeakerSame
    <3> HIDE DEF K
    <3> QED BY <1>1, <1>2, <1>4, <2>1, <3>1
  <2>2. CASE k \in J
    <3>1. /\ IsList(k[1])
          /\ k[1] = << >> => Weaker(p, k[2])
          /\ k[1] # << >> => \E u : /\ Weaker(u, k[2]) /\ Covers(Head(k[1]), u)
                                    /\ Follows(Head(k[1]), u, Tail(k[1]), J)
      BY <2>2 DEF Sound
    <3> HIDE DEF K
    <3> QED BY <1>3, <3>1, FollowsMore
  <2> QED BY <2>1, <2>2
<1>6. Sound(K, p)
  <2> HIDE DEF K
  <2> QED BY <1>5 DEF Sound
<1> QED BY <1>6 DEF Covered, a, e

LEMMA CoveredStep ==
  ASSUME NEW x, NEW o, NEW q, x[1] \notin {"either", "if"}, Covers(x, o), Turns(x, o, q)
  PROVE  Covered(<<x>>, o, q)
<1>1. Covered(<< >>, q, q)
  BY WeakerSame, CoveredEmpty
<1>2. PICK J : Sound(J, q) /\ <<<< >>, q>> \in J
  BY <1>1 DEF Covered
<1>3. Follows(x, o, << >>, J)
  BY <1>2 DEF Follows
<1> QED BY <1>2, <1>3, CoveredOne

LEMMA SoundUnion ==
  ASSUME NEW A, NEW B, NEW p, Sound(A, p), Sound(B, p)
  PROVE  Sound(A \cup B, p)
<1> DEFINE K == A \cup B
<1>1. A \subseteq K /\ B \subseteq K
  OBVIOUS
<1>2. ASSUME NEW J, J \subseteq K, Sound(J, p), NEW k \in J
      PROVE  /\ IsList(k[1])
             /\ k[1] = << >> => Weaker(p, k[2])
             /\ k[1] # << >> => \E u : /\ Weaker(u, k[2]) /\ Covers(Head(k[1]), u)
                                       /\ Follows(Head(k[1]), u, Tail(k[1]), K)
  <2> HIDE DEF K
  <2> QED BY <1>2, FollowsMore DEF Sound
<1>3. \A k \in K : k \in A \/ k \in B
  OBVIOUS
<1> HIDE DEF K
<1>4. Sound(K, p)
  BY <1>1, <1>2, <1>3 DEF Sound
<1> QED BY <1>4 DEF K

LEMMA CoveredEither ==
  ASSUME NEW s, NEW r, NEW o, NEW p, Covered(s, o, p), Covered(r, o, p)
  PROVE  Covered(Either(s, r), o, p)
<1> DEFINE x == <<"either", s, r>>
<1>1. x[1] = "either" /\ x[2] = s /\ x[3] = r /\ Either(s, r) = <<x>>
  BY DEF Either
<1> HIDE DEF x
<1>2. PICK A : Sound(A, p) /\ <<s, o>> \in A
  BY DEF Covered
<1>3. PICK B : Sound(B, p) /\ <<r, o>> \in B
  BY DEF Covered
<1>4. IsList(s) /\ IsList(r) /\ s \o << >> = s /\ r \o << >> = r
  BY CoveredList, CatEmpty
<1>5. Follows(x, o, << >>, A \cup B)
  BY <1>1, <1>2, <1>3, <1>4 DEF Follows
<1>6. Covers(x, o)
  BY <1>1 DEF Covers
<1>7. Sound(A \cup B, p)
  BY <1>2, <1>3, SoundUnion
<1> QED BY <1>1, <1>5, <1>6, <1>7, CoveredOne

LEMMA CoveredIf ==
  ASSUME NEW c \in Tests, NEW y, NEW s, NEW o, NEW p, Covered(s, o \cup Learned(c, y, o), p), Weaker(p, o)
  PROVE  Covered(If(c, y, s), o, p)
<1> DEFINE x == <<"if", c, y, s>>
           l == o \cup Learned(c, y, o)
<1>1. x[1] = "if" /\ x[2] = c /\ x[3] = y /\ x[4] = s /\ If(c, y, s) = <<x>>
  BY DEF If
<1>0. Covered(s, l, p)
  OBVIOUS
<1> HIDE DEF x
<1>2. PICK A : Sound(A, p) /\ <<s, l>> \in A
  BY <1>0 DEF Covered
<1>8. Covered(<< >>, o, p)
  BY CoveredEmpty
<1>3. PICK B : Sound(B, p) /\ <<<< >>, o>> \in B
  BY <1>8 DEF Covered
<1>4. IsList(s) /\ s \o << >> = s
  BY CoveredList, CatEmpty
<1>5. Follows(x, o, << >>, A \cup B)
  BY <1>1, <1>2, <1>3, <1>4 DEF Follows
<1>6. Covers(x, o)
  BY <1>1 DEF Covers
<1>7. Sound(A \cup B, p)
  BY <1>2, <1>3, SoundUnion
<1> QED BY <1>1, <1>5, <1>6, <1>7, CoveredOne

(* Nothing is known that holds only as long as mutex m. *)
Clear(o, m) == \A e \in o : e[1] \in Passing => e[3] # m

LEMMA CoveredHold ==
  ASSUME NEW m \in Globals, NEW s, NEW o, NEW p, Clear(p, m),
         Covered(s, o \cup {Held(m)}, p \cup {Held(m)})
  PROVE  Covered(Hold(m, s), o, p)
<1> DEFINE x == Lock(m)
           y == Unlock(m)
           h == Held(m)
<1>1. x[1] = "lock" /\ x[2] = m /\ y[1] = "unlock" /\ y[2] = m /\ m \notin Files
  BY DEF Lock, Unlock, Globals, Files
<1>2. Hold(m, s) = <<x>> \o s \o <<y>>
  BY DEF Hold
<1>3. h[1] \in Passing /\ h[3] = m
  BY DEF Held, Passing, Tests
<1>0. Covered(s, o \cup {h}, p \cup {h})
  OBVIOUS
<1> HIDE DEF x, y
<1>4. Turns(x, o, o \cup {h})
  BY <1>1 DEF Turns
<1> HIDE DEF h
<1>5. Turns(y, p \cup {h}, p)
  <2>1. p = {e \in p \cup {h} : e[1] \in Passing => e[3] # m}
    BY <1>3 DEF Clear
  <2> QED BY <1>1, <2>1 DEF Turns
<1>6. Covered(<<x>>, o, o \cup {h}) /\ Covered(<<y>>, p \cup {h}, p)
  BY <1>1, <1>4, <1>5, CoveredStep DEF Covers
<1>7. Covered(<<x>> \o s, o, p \cup {h})
  BY <1>0, <1>6, CoveredCat
<1>8. Covered(<<x>> \o s \o <<y>>, o, p)
  BY <1>6, <1>7, CoveredCat
<1> QED BY <1>2, <1>8

Keeps(s, o) == Covered(s, o, o)

LEMMA KeepRules ==
  ASSUME NEW o
  PROVE  /\ Keeps(<< >>, o)
         /\ \A s, r : Keeps(s, o) /\ Keeps(r, o) => Keeps(s \o r, o) /\ Keeps(Either(s, r), o)
         /\ \A s : Keeps(s, o) => Keeps(Maybe(s), o)
         /\ \A s, y : \A c \in Tests : Keeps(s, o \cup Learned(c, y, o)) => Keeps(If(c, y, s), o)
         /\ \A m : (m \in Files => Reachable(m, o)) => Keeps(Within(m), o)
         /\ \A m \in Globals : \A s : Clear(o, m) /\ Keeps(s, o \cup {Held(m)}) => Keeps(Hold(m, s), o)
<1>1. Keeps(<< >>, o)
  BY CoveredEmpty, WeakerSame DEF Keeps
<1>2. ASSUME NEW s, NEW r, Keeps(s, o), Keeps(r, o) PROVE Keeps(s \o r, o) /\ Keeps(Either(s, r), o)
  <2>1. Covered(s, o, o) /\ Covered(r, o, o)
    BY <1>2 DEF Keeps
  <2>2. Covered(s \o r, o, o)
    BY <2>1, CoveredCat
  <2>3. Covered(Either(s, r), o, o)
    BY <2>1, CoveredEither
  <2> QED BY <2>2, <2>3 DEF Keeps
<1>3. ASSUME NEW s, Keeps(s, o) PROVE Keeps(Maybe(s), o)
  BY <1>1, <1>2, <1>3 DEF Maybe
<1>4. ASSUME NEW s, NEW y, NEW c \in Tests, Keeps(s, o \cup Learned(c, y, o)) PROVE Keeps(If(c, y, s), o)
  <2> DEFINE l == o \cup Learned(c, y, o)
  <2>1. Covered(s, l, l)
    BY <1>4 DEF Keeps
  <2>2. Weaker(o, l)
    BY DEF Learned, Weaker, Passing
  <2>3. Covered(s, l, o)
    <3> HIDE DEF l
    <3> QED BY <2>1, <2>2, CoveredWeak
  <2> QED BY <2>3, WeakerSame, CoveredIf DEF Keeps
<1>5. ASSUME NEW m, m \in Files => Reachable(m, o) PROVE Keeps(Within(m), o)
  <2> DEFINE x == <<"within", m>>
  <2>1. x[1] = "within" /\ x[2] = m /\ Within(m) = <<x>>
    BY DEF Within
  <2> HIDE DEF x
  <2>2. Covers(x, o) /\ Turns(x, o, o)
    BY <1>5, <2>1 DEF Covers, Turns
  <2> QED BY <2>1, <2>2, CoveredStep DEF Keeps
<1>6. ASSUME NEW m \in Globals, NEW s, Clear(o, m), Keeps(s, o \cup {Held(m)}) PROVE Keeps(Hold(m, s), o)
  BY <1>6, CoveredHold DEF Keeps
<1> QED BY <1>1, <1>2, <1>3, <1>4, <1>5, <1>6

(* Nothing is known but what stays known. *)
Calm(o) == \A e \in o : e[1] \notin Passing

------------------------------------------------------------------------------------
(* The lists of the calls and of the threads are covered.                          *)

LEMMA Kinds ==
  ASSUME NEW x
  PROVE  /\ Kept(x)[1] = "use" /\ Kept(x)[2] = x /\ Spare(x)[1] = "use" /\ Spare(x)[2] = x /\ Kept(x) # Spare(x)
         /\ Held(x)[1] = "held" /\ Held(x)[3] = x /\ Held(x) # Kept(x) /\ Held(x) # Spare(x)
         /\ "held" \in Passing /\ "live" \in Passing /\ "unused" \in Passing /\ "current" \in Passing
         /\ "use" \notin Passing /\ "queued" \notin Passing /\ "taken" \notin Passing /\ "shown" \notin Passing
<1>1. /\ Kept(x)[1] = "use" /\ Kept(x)[2] = x /\ Spare(x)[1] = "use" /\ Spare(x)[2] = x
      /\ Held(x)[1] = "held" /\ Held(x)[3] = x /\ Kept(x)[3] = "kept" /\ Spare(x)[3] = "spare"
  BY DEF Kept, Spare, Held
<1>2. Kept(x) # Spare(x) /\ Held(x) # Kept(x) /\ Held(x) # Spare(x)
  BY <1>1
<1> QED BY <1>1, <1>2 DEF Passing, Tests

(* fileid_get gives a use. *)
LEMMA FileidGetCovered ==
  ASSUME NEW x \in Files, NEW o, Clear(o, "file"), \A e \in o : e[1] # "unused",
         NEW u \in {Kept(x), Spare(x)} \ o
  PROVE  Covered(FileidGet(x), o, o \cup {u})
<1> DEFINE y == <<"get", x>>
           h == Held("file")
<1>1. y[1] = "get" /\ y[2] = x /\ Do("get", x) = <<y>>
  BY DEF Do
<1>2. u[1] = "use" /\ h[1] = "held" /\ u # h /\ "use" \notin Passing
  BY Kinds
<1> HIDE DEF y, h
<1>3. Turns(y, o \cup {h}, (o \cup {u}) \cup {h})
  <2>1. u \in {Kept(y[2]), Spare(y[2])} \ (o \cup {h})
    BY <1>1, <1>2
  <2>2. (o \cup {u}) \cup {h} = {e \in o \cup {h} : e[1] # "unused"} \cup {u}
    BY <1>2
  <2> QED BY <1>1, <2>1, <2>2 DEF Turns
<1>4. Covered(<<y>>, o \cup {h}, (o \cup {u}) \cup {h})
  BY <1>1, <1>3, CoveredStep DEF Covers
<1>5. Clear(o \cup {u}, "file") /\ "file" \in Globals
  BY <1>2 DEF Clear, Globals
<1> QED BY <1>1, <1>4, <1>5, CoveredHold DEF FileidGet, h

LEMMA GetCovered ==
  ASSUME NEW x \in Files, NEW o, Clear(o, "file"), Clear(o, "metadata"), \A e \in o : e[1] # "unused",
         NEW u \in {Kept(x), Spare(x)} \ o
  PROVE  Covered(Hold("metadata", FileidGet(x)), o, o \cup {u})
<1> DEFINE h == Held("metadata")
           l == o \cup {h}
<1>1. /\ u[1] = "use" /\ h[1] = "held" /\ h[3] = "metadata" /\ u # h /\ "use" \notin Passing
      /\ "metadata" \in Globals
  BY Kinds DEF Globals
<1> HIDE DEF h
<1>2. Clear(l, "file") /\ (\A e \in l : e[1] # "unused") /\ u \in {Kept(x), Spare(x)} \ l
  BY <1>1 DEF Clear
<1> HIDE DEF l
<1>3. Covered(FileidGet(x), l, l \cup {u})
  BY <1>2, FileidGetCovered
<1>4. l \cup {u} = (o \cup {u}) \cup {h}
  BY DEF l
<1>5. Clear(o \cup {u}, "metadata")
  BY <1>1 DEF Clear
<1> QED BY <1>1, <1>3, <1>4, <1>5, CoveredHold DEF l, h

LEMMA AskCovered ==
  ASSUME NEW x, NEW t, <<x, t>> \in Transferable, NEW o, Spare(x) \notin o
  PROVE  Covered(Ask(x, t), o \cup {Spare(x)}, o)
<1> DEFINE y == <<"ask", x, t>>
<1>1. y[1] = "ask" /\ y[2] = x /\ y[3] = t /\ Ask(x, t) = <<y>>
  BY DEF Ask
<1> HIDE DEF y
<1>2. o = (o \cup {Spare(x)}) \ {Spare(x)}
  OBVIOUS
<1>3. Turns(y, o \cup {Spare(x)}, o)
  <2>1. Spare(x) \in o \cup {Spare(x)}
    OBVIOUS
  <2> QED BY <1>1, <1>2, <2>1 DEF Turns
<1> QED BY <1>1, <1>3, CoveredStep DEF Covers

(* Sections of the global mutexes, and of f by those who use it. *)
LEMMA SectionsKeep ==
  ASSUME NEW o
  PROVE  /\ \A m \in Globals : Keeps(Within(m), o)
         /\ \A x : Kept(x) \in o => Keeps(Within(x), o)
         /\ Keeps(Find, o) /\ Keeps(JournalAppend, o) /\ Keeps(WasRenamed, o) /\ Keeps(Freshen, o)
         /\ Keeps(UpdateMetadata, o) /\ Keeps(CleanupBacking, o)
         /\ Keeps(Maybe(JournalAppend), o) /\ Keeps(Maybe(WasRenamed), o) /\ Keeps(Maybe(UpdateMetadata), o)
<1>1. ASSUME NEW m \in Globals PROVE Keeps(Within(m), o)
  <2>1. m \notin Files
    BY DEF Globals, Files
  <2> QED BY <2>1, KeepRules
<1>2. ASSUME NEW x, Kept(x) \in o PROVE Keeps(Within(x), o)
  BY <1>2, KeepRules DEF Reachable
<1>3. Keeps(Within("metadata"), o) /\ Keeps(Within("journal"), o) /\ Keeps(Within("file"), o)
  BY <1>1 DEF Globals
<1>4. Keeps(Maybe(Within("metadata")), o) /\ Keeps(Maybe(Within("journal")), o)
  BY <1>3, KeepRules
<1> QED BY <1>1, <1>2, <1>3, <1>4 DEF Find, JournalAppend, WasRenamed, Freshen, UpdateMetadata, CleanupBacking

LEMMA HoldKeeps ==
  ASSUME NEW o, Calm(o), NEW m \in Globals, NEW s, Keeps(s, o \cup {Held(m)})
  PROVE  Keeps(Hold(m, s), o)
<1>1. Clear(o, m)
  BY DEF Calm, Clear
<1> QED BY <1>1, KeepRules

(* What is tested under a mutex is known there. *)
LEMMA TestKeeps ==
  ASSUME NEW o, NEW m \in Globals, Held(m) \in o, NEW c \in Tests, NEW y, NEW x,
         \A l : <<c, y, m>> \in l => Reachable(x, l)
  PROVE  Keeps(If(c, y, Within(x)), o) /\ Keeps(If(c, y, Maybe(Within(x))), o)
<1> DEFINE l == o \cup Learned(c, y, o)
<1>1. <<c, y, m>> \in l
  BY DEF Learned
<1> HIDE DEF l
<1>2. Reachable(x, l)
  BY <1>1
<1>3. Keeps(Within(x), l)
  BY <1>2, KeepRules
<1>4. Keeps(Maybe(Within(x)), l)
  BY <1>3, KeepRules
<1> QED BY <1>3, <1>4, KeepRules DEF l

LEMMA PathCallsCovered == \A n \in Calls : Keeps(PathCalls[n], {})
<1> DEFINE h == {} \cup {Held("metadata")}
<1>0. Calm({}) /\ "metadata" \in Globals /\ Held("metadata") \in h /\ "live" \in Tests
  BY DEF Calm, Globals, Tests
<1>1. Keeps(Find, {}) /\ Keeps(JournalAppend, {}) /\ Keeps(Maybe(JournalAppend), {})
  BY SectionsKeep
<1>2. Keeps(Getattr, {}) /\ Keeps(Chmod, {}) /\ Keeps(Unlink, {}) /\ Keeps(Truncate, {})
  BY <1>1, KeepRules DEF Getattr, Chmod, Unlink, Truncate
<1>3. ASSUME NEW s, Keeps(s, {}) PROVE Keeps(MakeEntry(s), {})
  <2>1. Keeps(Find \o s, {})
    BY <1>1, <1>3, KeepRules
  <2>2. Keeps(Maybe(Find \o s), {})
    BY <2>1, KeepRules
  <2> QED BY <1>1, <2>2, KeepRules DEF MakeEntry
<1>4. Keeps(Mknod, {})
  BY <1>1, <1>3 DEF Mknod
<1>5. Keeps(Link, {})
  <2>1. Keeps(Find \o Find, {})
    BY <1>1, KeepRules
  <2>2. Keeps(Find \o Find \o JournalAppend, {})
    BY <1>1, <2>1, KeepRules
  <2>3. Keeps(MakeEntry(Find \o Find \o JournalAppend), {})
    BY <1>3, <2>2
  <2>4. Keeps(Maybe(MakeEntry(Find \o Find \o JournalAppend)), {})
    BY <2>3, KeepRules
  <2> QED BY <1>1, <2>4, KeepRules DEF Link
<1>6. Keeps(Rename, {})
  <2>0. \A l : <<"live", "f", "metadata">> \in l => Reachable("f", l)
    BY DEF Reachable
  <2>1. Keeps(UpdateFhPath, h)
    <3> HIDE DEF h
    <3> QED BY <1>0, <2>0, TestKeeps DEF UpdateFhPath
  <2>2. Keeps(Maybe(UpdateFhPath), h)
    <3> HIDE DEF h
    <3> QED BY <2>1, KeepRules
  <2>3. Keeps(Hold("metadata", Maybe(UpdateFhPath)), {})
    BY <1>0, <2>2, HoldKeeps
  <2> QED BY <1>1, <2>3, KeepRules DEF Rename
<1>7. Keeps(TruncateVops, {})
  <2> DEFINE y == <<"alone", "v">>
             l == h \cup Learned("live", "v", h)
  <2>1. y[1] = "alone" /\ y[2] = "v" /\ Do("alone", "v") = <<y>>
    BY DEF Do
  <2>2. <<"live", "v", "metadata">> \in l
    <3> HIDE DEF h
    <3> QED BY <1>0 DEF Learned
  <2> HIDE DEF y, l
  <2>3. Covers(y, l) /\ Turns(y, l, l)
    BY <2>1, <2>2 DEF Covers, Turns, Reachable
  <2>4. Keeps(Do("alone", "v"), l)
    BY <2>1, <2>3, CoveredStep DEF Keeps
  <2>5. Keeps(If("live", "v", Do("alone", "v")), h)
    <3> HIDE DEF h
    <3> QED BY <1>0, <2>4, KeepRules DEF l
  <2> QED BY <1>0, <2>5, HoldKeeps DEF TruncateVops
<1> HIDE DEF h
<1>8. ASSUME NEW n \in Calls PROVE Keeps(PathCalls[n], {})
  <2>1. n \in {"getattr", "chmod", "mknod", "link", "unlink", "rename", "truncate", "truncate_vops"}
    BY CallsAssumption DEF PathCalls
  <2>2. /\ PathCalls["getattr"] = Getattr /\ PathCalls["chmod"] = Chmod /\ PathCalls["mknod"] = Mknod
        /\ PathCalls["link"] = Link /\ PathCalls["unlink"] = Unlink /\ PathCalls["rename"] = Rename
        /\ PathCalls["truncate"] = Truncate /\ PathCalls["truncate_vops"] = TruncateVops
    BY DEF PathCalls
  <2> QED BY <1>2, <1>4, <1>5, <1>6, <1>7, <2>1, <2>2
<1> QED BY <1>8

LEMMA VopsBuildCovered == ASSUME NEW o, Calm(o) PROVE Keeps(VopsBuild, o)
<1> DEFINE h == o \cup {Held("transfer")}
           dump == If("current", "backup", Within("f")) \o If("current", "writeback", Within("f"))
<1>0. "transfer" \in Globals /\ Held("transfer") \in h /\ "current" \in Tests
  BY DEF Globals, Tests
<1>1. Keeps(dump, h)
  <2>1. \A l : <<"current", "backup", "transfer">> \in l => Reachable("f", l)
    BY DEF Reachable
  <2>2. \A l : <<"current", "writeback", "transfer">> \in l => Reachable("f", l)
    BY DEF Reachable
  <2> HIDE DEF h
  <2>3. Keeps(If("current", "backup", Within("f")), h)
    BY <1>0, <2>1, TestKeeps
  <2>4. Keeps(If("current", "writeback", Within("f")), h)
    BY <1>0, <2>2, TestKeeps
  <2> QED BY <2>3, <2>4, KeepRules
<1>2. TransferDump = Hold("transfer", dump)
  BY DEF TransferDump
<1> HIDE DEF dump
<1>3. Keeps(TransferDump, o)
  BY <1>0, <1>1, <1>2, HoldKeeps
<1>4. Keeps(Within("journal"), o) /\ Keeps(Within("metadata"), o) /\ Keeps(Within("file"), o)
  BY SectionsKeep DEF Globals
<1>5. Keeps(Either(TransferDump, Within("journal")), o) /\ Keeps(Either(Within("metadata"), Within("file")), o)
  BY <1>3, <1>4, KeepRules
<1>6. Keeps(Either(Either(TransferDump, Within("journal")), Either(Within("metadata"), Within("file"))), o)
  BY <1>5, KeepRules
<1> QED BY <1>6, KeepRules DEF VopsBuild

LEMMA BackfileCovered == Keeps(Backfile, {Kept("f")})
<1> DEFINE o == {Kept("f")}
           p == o \cup {Spare("f")}
           y == <<"use", "f">>
<1>1. y[1] = "use" /\ y[2] = "f" /\ Do("use", "f") = <<y>> /\ Kept("f") \in o
      /\ Kept("f")[1] = "use" /\ Spare("f") \notin o /\ "f" \in Files
  BY Kinds DEF Do, Files
<1>2. \A e \in o : e[1] # "unused"
  BY <1>1
<1> HIDE DEF y, o
<1>3. Turns(y, o, p)
  <2>1. Spare("f") \in {Kept(y[2]), Spare(y[2])} \ o
    BY <1>1
  <2>2. p = {e \in o : e[1] # "unused"} \cup {Spare("f")}
    BY <1>2
  <2> QED BY <1>1, <2>1, <2>2 DEF Turns
<1>4. Covers(y, o)
  BY <1>1 DEF Covers, Reachable
<1>5. Covered(Do("use", "f"), o, p)
  BY <1>1, <1>3, <1>4, CoveredStep
<1>6. Covered(Ask("f", "backup"), p, o)
  BY <1>1, AskCovered DEF Transferable
<1>7. Keeps(Do("use", "f") \o Ask("f", "backup"), o)
  BY <1>5, <1>6, CoveredCat DEF Keeps
<1>8. Keeps(Within("f"), o)
  BY <1>1, SectionsKeep
<1> QED BY <1>7, <1>8, KeepRules DEF Backfile, o

LEMMA OpenCovered == ASSUME NEW x \in {"f", "v"} PROVE Covered(Open(x), {}, {Kept(x)})
<1> DEFINE o == {Kept(x)}
           rest == IF x = "f" THEN Maybe(Backfile) ELSE VopsBuild
<1>1. Covered(Hold("metadata", FileidGet(x)), {}, {} \cup {Kept(x)})
  <2>1. Clear({}, "file") /\ Clear({}, "metadata") /\ \A e \in {} : e[1] # "unused"
    BY DEF Clear
  <2>2. x \in Files /\ Kept(x) \in {Kept(x), Spare(x)} \ {}
    BY DEF Files
  <2> QED BY <2>1, <2>2, GetCovered
<1>2. {} \cup {Kept(x)} = o /\ Calm(o)
  BY Kinds DEF Calm
<1>3. Keeps(rest, o)
  <2>1. CASE x = "f"
    BY <2>1, BackfileCovered, KeepRules
  <2>2. CASE x = "v"
    <3> HIDE DEF o
    <3> QED BY <1>2, <2>2, VopsBuildCovered
  <2> QED BY <2>1, <2>2
<1>4. Open(x) = Hold("metadata", FileidGet(x)) \o rest
  BY DEF Open
<1> HIDE DEF rest, o
<1> QED BY <1>1, <1>2, <1>3, <1>4, CoveredCat DEF Keeps, o

LEMMA IoCovered ==
  ASSUME NEW x \in {"f", "v"} PROVE Keeps(Read(x), {Kept(x)}) /\ Keeps(Write(x), {Kept(x)})
<1> DEFINE o == {Kept(x)}
           none == << >>
           got == Maybe(GetFd \o PutFd \o Within("f") \o Maybe(JournalAppend) \o UpdateMetadata)
           found == Within("f") \o GetFd \o Either(Maybe(WasRenamed), PutFd \o Maybe(UpdateMetadata))
<1>1. Keeps(none, o) /\ Keeps(Within(x), o)
  BY SectionsKeep, KeepRules
<1>2. ASSUME x = "f" PROVE Keeps(got, o) /\ Keeps(found, o)
  <2>0. Keeps(Within("f"), o) /\ Keeps(GetFd, o) /\ Keeps(PutFd, o)
    BY <1>1, <1>2 DEF GetFd, PutFd
  <2> HIDE DEF o
  <2>1. Keeps(GetFd \o PutFd, o)
    BY <2>0, KeepRules
  <2>2. Keeps(GetFd \o PutFd \o Within("f"), o)
    BY <2>0, <2>1, KeepRules
  <2>3. Keeps(Maybe(JournalAppend), o) /\ Keeps(UpdateMetadata, o)
        /\ Keeps(Maybe(WasRenamed), o) /\ Keeps(Maybe(UpdateMetadata), o)
    BY SectionsKeep
  <2>4. Keeps(GetFd \o PutFd \o Within("f") \o Maybe(JournalAppend), o)
    BY <2>2, <2>3, KeepRules
  <2>5. Keeps(GetFd \o PutFd \o Within("f") \o Maybe(JournalAppend) \o UpdateMetadata, o)
    BY <2>3, <2>4, KeepRules
  <2>6. Keeps(PutFd \o Maybe(UpdateMetadata), o)
    BY <2>0, <2>3, KeepRules
  <2>7. Keeps(Either(Maybe(WasRenamed), PutFd \o Maybe(UpdateMetadata)), o)
    BY <2>3, <2>6, KeepRules
  <2>8. Keeps(Within("f") \o GetFd, o)
    BY <2>0, KeepRules
  <2> QED BY <2>5, <2>7, <2>8, KeepRules
<1>4. /\ Read(x) = Freshen \o IF x = "v" THEN none ELSE found
      /\ Write(x) = Freshen \o IF x = "v" THEN Within("v") ELSE got
  BY DEF Read, Write
<1> HIDE DEF none, got, found
<1>5. Keeps(IF x = "v" THEN none ELSE found, o) /\ Keeps(IF x = "v" THEN Within("v") ELSE got, o)
  BY <1>1, <1>2
<1>6. Keeps(Freshen, o)
  BY SectionsKeep
<1> HIDE DEF o
<1> DEFINE reads == IF x = "v" THEN none ELSE found
           writes == IF x = "v" THEN Within("v") ELSE got
<1>8. Keeps(reads, o) /\ Keeps(writes, o) /\ Read(x) = Freshen \o reads /\ Write(x) = Freshen \o writes
  BY <1>4, <1>5
<1> HIDE DEF reads, writes
<1>9. Keeps(Freshen \o reads, o) /\ Keeps(Freshen \o writes, o)
  BY <1>6, <1>8, KeepRules
<1>7. Keeps(Read(x), o) /\ Keeps(Write(x), o)
  BY <1>8, <1>9
<1> QED BY <1>7 DEF o

(* file_release destroys the file after its last use. *)
LEMMA FileReleaseCovered == ASSUME NEW x \in Files PROVE Covered(FileRelease(x), {Kept(x)}, {})
<1> DEFINE m == Held("metadata")
           f == Held("file")
           g == <<"live", x, "metadata">>
           o == {Kept(x), m, f}
           p == {m, f}
           q == {m, f, g}
           l == q \cup Learned("unused", x, q)
           r == {e \in l : e[1] = "live" => e[2] # x}
           none == << >>
           freed == Within(x) \o Do("destroy", x)
           body == Do("unuse", x)
                     \o IF x = "f" THEN If("unused", x, freed)
                        ELSE IF x = "v" THEN none
                        ELSE If("unused", x, Do("destroy", x))
<1>1. /\ Kept(x)[1] = "use" /\ Kept(x) \notin {m, f, g}
      /\ m[1] = "held" /\ m[3] = "metadata" /\ f[1] = "held" /\ f[3] = "file"
      /\ g[1] = "live" /\ g[2] = x /\ m # f
      /\ "held" \in Passing /\ "live" \in Passing /\ "unused" \in Passing /\ "unused" \in Tests
  <2>1. /\ Kept(x)[1] = "use" /\ m[1] = "held" /\ m[3] = "metadata" /\ f[1] = "held" /\ f[3] = "file"
        /\ g[1] = "live" /\ g[2] = x
    BY DEF Kept, Held
  <2> HIDE DEF m, f, g
  <2> QED BY <2>1 DEF Passing, Tests
<1>2. Covered(Do("unuse", x), o, q)
  <2> DEFINE y == <<"unuse", x>>
  <2>1. y[1] = "unuse" /\ y[2] = x /\ Do("unuse", x) = <<y>>
    BY DEF Do
  <2> HIDE DEF y
  <2>2. q = (o \ {Kept(x)}) \cup {g}
    BY <1>1
  <2>3. Kept(x) \in o /\ m \in o /\ \A e \in o : e[1] # "shown"
    BY <1>1
  <2> HIDE DEF o, q
  <2>4. Turns(y, o, q)
    BY <2>1, <2>2, <2>3 DEF Turns
  <2> QED BY <2>1, <2>4, CoveredStep DEF Covers
<1>3. Weaker(p, q)
  BY <1>1 DEF Weaker
<1>4. Covered(Do("destroy", x), l, p)
  <2> DEFINE y == <<"destroy", x>>
  <2>1. y[1] = "destroy" /\ y[2] = x /\ Do("destroy", x) = <<y>>
    BY DEF Do
  <2> HIDE DEF y
  <2>2. <<"unused", x, "file">> \in l
    <3>1. "file" \in Globals /\ Held("file") \in q
      BY DEF Globals
    <3> HIDE DEF q
    <3> QED BY <3>1 DEF Learned
  <2>3. Turns(y, l, r)
    <3> HIDE DEF l
    <3> QED BY <2>1, <2>2 DEF Turns
  <2>4. Covered(Do("destroy", x), l, r)
    BY <2>1, <2>3, CoveredStep DEF Covers
  <2>5. \A e \in l : e \in p \/ e[1] \in Passing
    <3>1. \A e \in Learned("unused", x, q) : e[1] = "unused"
      BY DEF Learned
    <3> HIDE DEF m, f, g
    <3> QED BY <1>1, <3>1
  <2>6. p \subseteq r
    <3> HIDE DEF m, f, g
    <3> QED BY <1>1
  <2>7. Weaker(p, r)
    <3> HIDE DEF l, p
    <3> QED BY <2>5, <2>6 DEF Weaker
  <2> QED BY <2>4, <2>7, CoveredWeak
<1>5. Keeps(Within(x), l)
  <2>1. Reachable(x, l)
    BY DEF Reachable
  <2> HIDE DEF l
  <2> QED BY <2>1, KeepRules
<1> HIDE DEF o, p, r, l
<1>6. Covered(freed, l, p)
  BY <1>4, <1>5, CoveredCat DEF Keeps
<1> HIDE DEF freed
<1>7. Covered(If("unused", x, freed), q, p) /\ Covered(If("unused", x, Do("destroy", x)), q, p)
  <2> HIDE DEF q
  <2> QED BY <1>1, <1>3, <1>4, <1>6, CoveredIf DEF l
<1>8. Covered(none, q, p)
  <2> HIDE DEF q
  <2> QED BY <1>3, CoveredEmpty
<1>9. Covered(body, o, p)
  <2> DEFINE rest == IF x = "f" THEN If("unused", x, freed)
                     ELSE IF x = "v" THEN none ELSE If("unused", x, Do("destroy", x))
  <2> HIDE DEF q, none
  <2>1. Covered(rest, q, p)
    BY <1>7, <1>8
  <2>2. body = Do("unuse", x) \o rest
    OBVIOUS
  <2> HIDE DEF rest, body
  <2> QED BY <1>2, <2>1, <2>2, CoveredCat
<1>10. FileRelease(x) = Hold("metadata", Hold("file", body))
  BY DEF FileRelease, freed, none
<1> HIDE DEF body
<1>11. Covered(Hold("file", body), {Kept(x)} \cup {m}, {} \cup {m})
  <2>1. o = ({Kept(x)} \cup {m}) \cup {Held("file")} /\ p = ({} \cup {m}) \cup {Held("file")} /\ "file" \in Globals
    BY DEF o, p, Globals
  <2>2. Clear({} \cup {m}, "file")
    BY <1>1 DEF Clear
  <2> HIDE DEF m
  <2> QED BY <1>9, <2>1, <2>2, CoveredHold
<1>12. Covered(Hold("metadata", Hold("file", body)), {Kept(x)}, {})
  <2>1. "metadata" \in Globals /\ Clear({}, "metadata")
    BY DEF Globals, Clear
  <2> QED BY <1>11, <2>1, CoveredHold
<1> QED BY <1>10, <1>12

LEMMA WritebackCovered == ASSUME NEW o, Calm(o), Spare("f") \notin o PROVE Keeps(Hold("journal", Writeback), o)
<1> DEFINE h == o \cup {Held("journal")}
           get == Hold("metadata", FileidGet("f"))
           ask == Ask("f", "writeback")
<1>1. Held("journal")[1] = "held" /\ Held("journal")[3] = "journal" /\ Spare("f") # Held("journal")
      /\ "journal" \in Globals /\ Spare("f")[1] = "use"
  BY Kinds DEF Held, Globals, Spare
<1>2. Clear(h, "file") /\ Clear(h, "metadata") /\ Spare("f") \notin h
  BY <1>1 DEF Clear, Calm
<1>3. \A e \in h : e[1] # "unused"
  BY <1>1 DEF Calm, Passing, Tests
<1> HIDE DEF h
<1>4. Covered(get, h, h \cup {Spare("f")})
  BY <1>2, <1>3, GetCovered DEF Files
<1>5. Covered(ask, h \cup {Spare("f")}, h)
  BY <1>2, AskCovered DEF Transferable
<1>6. Writeback = Maybe(Either(Within("metadata"), get \o ask))
  BY DEF Writeback
<1> HIDE DEF get, ask
<1>7. Keeps(get \o ask, h)
  BY <1>4, <1>5, CoveredCat DEF Keeps
<1>8. Keeps(Within("metadata"), h)
  BY SectionsKeep DEF Globals
<1>9. Keeps(Either(Within("metadata"), get \o ask), h)
  BY <1>7, <1>8, KeepRules
<1>10. Keeps(Writeback, h)
  BY <1>6, <1>9, KeepRules
<1> QED BY <1>1, <1>10, HoldKeeps DEF h

LEMMA ScheduleFillCovered ==
  ASSUME NEW x \in {"d", "e"}, NEW o, Calm(o), Spare(x) \notin o
  PROVE  Keeps(ScheduleFill(x), o \cup {Held("metadata")})
<1> DEFINE h == o \cup {Held("metadata")}
<1>1. Held("metadata")[1] = "held" /\ Held("metadata")[3] = "metadata" /\ Spare(x) # Held("metadata")
  <2>1. Held("metadata")[1] = "held" /\ Held("metadata")[3] = "metadata" /\ Spare(x)[1] = "use"
    BY DEF Held, Spare
  <2> QED BY <2>1
<1>2. Clear(h, "file") /\ Spare(x) \notin h
  BY <1>1 DEF Clear, Calm
<1>3. \A e \in h : e[1] # "unused"
  BY <1>1 DEF Calm, Passing, Tests
<1> HIDE DEF h
<1>4. Covered(FileidGet(x), h, h \cup {Spare(x)})
  BY <1>2, <1>3, FileidGetCovered DEF Files
<1>5. Covered(Ask(x, "fill"), h \cup {Spare(x)}, h)
  BY <1>2, AskCovered DEF Transferable
<1>6. Keeps(FileidGet(x) \o Ask(x, "fill"), h)
  BY <1>4, <1>5, CoveredCat DEF Keeps
<1> QED BY <1>6 DEF ScheduleFill, h

LEMMA ActionCovered == ASSUME NEW o, Calm(o), Spare("f") \notin o, Spare("d") \notin o PROVE Keeps(Action, o)
<1> DEFINE h == o \cup {Held("metadata")}
<1>0. {"metadata", "file", "journal"} \subseteq Globals
  BY DEF Globals
<1>1. Keeps(Within("file"), o) /\ Keeps(Within("journal"), o) /\ Keeps(Within("metadata"), o)
      /\ Keeps(CleanupBacking, o) /\ Keeps(Within("file"), h)
  BY <1>0, SectionsKeep
<1>2. Keeps(MetadataFlush, o)
  <2>1. Keeps(Hold("metadata", Within("file")), o)
    BY <1>0, <1>1, HoldKeeps
  <2>2. Keeps(Hold("metadata", Within("file")) \o Within("metadata"), o)
    BY <1>1, <2>1, KeepRules
  <2>3. Keeps(Maybe(Hold("metadata", Within("file")) \o Within("metadata")), o)
    BY <2>2, KeepRules
  <2>4. Keeps(Within("file") \o Within("journal"), o)
    BY <1>1, KeepRules
  <2> QED BY <2>3, <2>4, KeepRules DEF MetadataFlush
<1>3. Keeps(MetadataFill, o)
  <2>1. Keeps(ScheduleFill("d"), h)
    BY ScheduleFillCovered
  <2>2. Keeps(Maybe(ScheduleFill("d")), h)
    <3> HIDE DEF h
    <3> QED BY <2>1, KeepRules
  <2> QED BY <1>0, <2>2, HoldKeeps DEF MetadataFill
<1>4. Keeps(JournalApply, o)
  BY WritebackCovered DEF JournalApply
<1> HIDE DEF h
<1>5. Keeps(Either(JournalApply, MetadataFlush), o) /\ Keeps(Either(CleanupBacking, MetadataFill), o)
  BY <1>1, <1>2, <1>3, <1>4, KeepRules
<1> QED BY <1>5, KeepRules DEF Action

LEMMA ReleaseCovered == ASSUME NEW x \in {"f", "v"} PROVE Covered(Release(x), {Kept(x)}, {})
<1> DEFINE o == {Kept(x)}
           before == Maybe(IF x = "v" THEN Action ELSE Within("f"))
<1>1. Calm(o) /\ Spare("f") \notin o /\ Spare("d") \notin o /\ Kept(x) \in o
  BY Kinds DEF Calm, Kept, Spare
<1> HIDE DEF o
<1>2. Keeps(Action, o) /\ Keeps(Within(x), o)
  BY <1>1, ActionCovered, SectionsKeep
<1>3. Keeps(IF x = "v" THEN Action ELSE Within("f"), o)
  BY <1>2
<1>4. Keeps(before, o)
  BY <1>3, KeepRules
<1>5. Release(x) = before \o FileRelease(x) /\ x \in Files
  BY DEF Release, Files
<1> HIDE DEF before
<1>6. Covered(FileRelease(x), o, {})
  BY <1>5, FileReleaseCovered DEF o
<1> QED BY <1>4, <1>5, <1>6, CoveredCat DEF Keeps, o

LEMMA TickCovered == Keeps(Tick, {})
<1> DEFINE h == {} \cup {Held("file")}
<1>0. Calm({}) /\ "file" \in Globals /\ Held("file") \in h /\ "live" \in Tests
  BY DEF Calm, Globals, Tests
<1>1. \A l : <<"live", "f", "file">> \in l => Reachable("f", l)
  BY DEF Reachable
<1>2. Keeps(If("live", "f", Maybe(Within("f"))), h)
  <2> HIDE DEF h
  <2> QED BY <1>0, <1>1, TestKeeps
<1>3. Keeps(Hold("file", If("live", "f", Maybe(Within("f")))), {})
  BY <1>0, <1>2, HoldKeeps
<1>4. Keeps(Within("metadata"), {})
  BY SectionsKeep DEF Globals
<1> QED BY <1>3, <1>4, KeepRules DEF Tick

LEMMA DoTransferCovered ==
  ASSUME NEW x, NEW t, <<x, t>> \in Transferable, NEW o, Calm(o), Kept(x) \in o, Spare("e") \notin o
  PROVE  Keeps(DoTransfer(x, t), o)
<1> DEFINE none == << >>
           fills == IF x = "d" THEN Maybe(ScheduleFill("e")) ELSE none
           told == IF t = "writeback" THEN Within("journal") ELSE none
           works == Within("f") \o Maybe(TransferFile \o Within("f")) \o told
           h == o \cup {Held("metadata")}
<1>0. "metadata" \in Globals /\ "journal" \in Globals
  BY DEF Globals
<1>1. Keeps(Within("metadata") \o Maybe(Hold("metadata", fills)), o)
  <2>1. Keeps(ScheduleFill("e"), h)
    BY ScheduleFillCovered
  <2>2. Keeps(fills, h)
    <3> HIDE DEF h
    <3>1. Keeps(Maybe(ScheduleFill("e")), h) /\ Keeps(none, h)
      BY <2>1, KeepRules
    <3> QED BY <3>1
  <2> HIDE DEF fills
  <2>3. Keeps(Hold("metadata", fills), o)
    BY <1>0, <2>2, HoldKeeps
  <2>4. Keeps(Maybe(Hold("metadata", fills)), o) /\ Keeps(Within("metadata"), o)
    BY <1>0, <2>3, SectionsKeep, KeepRules
  <2> QED BY <2>4, KeepRules
<1>2. ASSUME t # "fill" PROVE Keeps(works, o)
  <2>0. x = "f"
    BY <1>2 DEF Transferable
  <2>1. Keeps(Within("f"), o) /\ Keeps(GetFd, o) /\ Keeps(PutFd, o) /\ Keeps(Maybe(WasRenamed), o)
    BY <2>0, SectionsKeep DEF GetFd, PutFd
  <2>2. Keeps(GetFd \o Within("f"), o)
    BY <2>1, KeepRules
  <2>3. Keeps(GetFd \o Within("f") \o PutFd, o)
    BY <2>1, <2>2, KeepRules
  <2>4. Keeps(Either(Maybe(WasRenamed), GetFd \o Within("f") \o PutFd), o)
    BY <2>1, <2>3, KeepRules
  <2>5. Keeps(TransferFile, o)
    BY <2>1, <2>4, KeepRules DEF TransferFile
  <2>6. Keeps(TransferFile \o Within("f"), o)
    BY <2>1, <2>5, KeepRules
  <2>7. Keeps(Maybe(TransferFile \o Within("f")), o)
    BY <2>6, KeepRules
  <2>8. Keeps(Within("f") \o Maybe(TransferFile \o Within("f")), o)
    BY <2>1, <2>7, KeepRules
  <2>9. Keeps(told, o)
    BY <1>0, SectionsKeep, KeepRules
  <2> HIDE DEF told
  <2> QED BY <2>8, <2>9, KeepRules
<1>3. DoTransfer(x, t) = IF t = "fill" THEN Within("metadata") \o Maybe(Hold("metadata", fills))
                         ELSE Maybe(Find \o Maybe(works))
  BY DEF DoTransfer
<1> HIDE DEF works, fills
<1>4. ASSUME t # "fill" PROVE Keeps(Maybe(Find \o Maybe(works)), o)
  <2>1. Keeps(Maybe(works), o)
    BY <1>2, <1>4, KeepRules
  <2>2. Keeps(Find \o Maybe(works), o)
    BY <2>1, SectionsKeep, KeepRules
  <2> QED BY <2>2, KeepRules
<1> QED BY <1>1, <1>3, <1>4

LEMMA TransferThreadCovered ==
  ASSUME NEW x, NEW t, <<x, t>> \in Transferable
  PROVE  Covered(TransferThread(x, t), {<<"queued", x, t>>}, {})
<1> DEFINE taken == <<"take", x, t>>
           published == <<"publish", x, t>>
           retracted == <<"retract", t>>
           m == Held("transfer")
           k == Kept(x)
           n == <<"taken", x, t>>
           s == <<"shown", x, t>>
           q == <<"queued", x, t>>
           first == <<taken>> \o Within(x) \o <<published>>
<1>0. /\ taken[1] = "take" /\ taken[2] = x /\ taken[3] = t
      /\ published[1] = "publish" /\ published[2] = x /\ published[3] = t
      /\ retracted[1] = "retract" /\ retracted[2] = t
      /\ m[1] = "held" /\ m[3] = "transfer" /\ k[1] = "use" /\ k[3] = "kept" /\ n[1] = "taken" /\ s[1] = "shown" /\ q[1] = "queued"
      /\ Do("retract", t) = <<retracted>> /\ x \in Files
      /\ Tail(taken) = <<x, t>> /\ Tail(published) = <<x, t>>
      /\ "use" \notin Passing /\ "taken" \notin Passing /\ "shown" \notin Passing
  BY Kinds DEF Do, Transferable, Files, Held, Kept
<1>5. TransferThread(x, t) = Hold("transfer", first) \o DoTransfer(x, t) \o Do("retract", t) \o FileRelease(x)
  BY DEF TransferThread
<1> HIDE DEF taken, published, retracted, m, k, n, s, q
<1>1. Covered(<<taken>>, {q} \cup {m}, {m, n, k})
  <2>1. {m, n, k} = {e \in {q} \cup {m} : e[1] # "queued"} \cup {n, k} /\ q \in {q} \cup {m}
    BY <1>0
  <2>2. Turns(taken, {q} \cup {m}, {m, n, k})
    BY <1>0, <2>1 DEF Turns, q, n, k
  <2> QED BY <1>0, <2>2, CoveredStep DEF Covers
<1>2. Covered(Within(x), {m, n, k}, {m, n, k})
  BY SectionsKeep DEF Keeps, k
<1>3. Covered(<<published>>, {m, n, k}, {n, k, s} \cup {m})
  <2>1. {n, k} \subseteq {m, n, k} /\ {n, k, s} \cup {m} = {m, n, k} \cup {s}
    OBVIOUS
  <2>2. Turns(published, {m, n, k}, {n, k, s} \cup {m})
    BY <1>0, <2>1 DEF Turns, n, k, s
  <2> QED BY <1>0, <2>2, CoveredStep DEF Covers
<1>4. Covered(<<retracted>>, {n, k, s}, {k})
  <2>1. {k} = {e \in {n, k, s} : e[1] \notin {"taken", "shown"}}
    BY <1>0
  <2>2. \E y : <<"taken", y, retracted[2]>> \in {n, k, s}
    BY <1>0 DEF n
  <2>3. Turns(retracted, {n, k, s}, {k})
    BY <1>0, <2>1, <2>2 DEF Turns
  <2> QED BY <1>0, <2>3, CoveredStep DEF Covers
<1>6. Covered(first, {q} \cup {m}, {n, k, s} \cup {m})
  <2>1. Covered(<<taken>> \o Within(x), {q} \cup {m}, {m, n, k})
    BY <1>1, <1>2, CoveredCat
  <2> QED BY <1>3, <2>1, CoveredCat
<1> HIDE DEF first
<1>7. Calm({n, k, s}) /\ Clear({n, k, s}, "transfer") /\ "transfer" \in Globals
      /\ Kept(x) \in {n, k, s} /\ Spare("e") \notin {n, k, s}
  <2>1. Spare("e")[1] = "use" /\ Spare("e")[3] = "spare"
    BY DEF Spare
  <2> QED BY <1>0, <2>1 DEF Calm, Clear, Globals, k
<1>8. Covered(Hold("transfer", first), {q}, {n, k, s})
  BY <1>6, <1>7, CoveredHold DEF m
<1>9. Covered(DoTransfer(x, t), {n, k, s}, {n, k, s})
  BY <1>7, DoTransferCovered DEF Keeps
<1>10. Covered(Hold("transfer", first) \o DoTransfer(x, t), {q}, {n, k, s})
  BY <1>8, <1>9, CoveredCat
<1>11. Covered(Hold("transfer", first) \o DoTransfer(x, t) \o Do("retract", t), {q}, {k})
  BY <1>0, <1>4, <1>10, CoveredCat
<1>12. Covered(FileRelease(x), {k}, {})
  BY <1>0, FileReleaseCovered DEF k
<1> DEFINE before == Hold("transfer", first) \o DoTransfer(x, t) \o Do("retract", t)
<1>13. Covered(before, {q}, {k}) /\ TransferThread(x, t) = before \o FileRelease(x)
  BY <1>5, <1>11
<1> HIDE DEF before
<1>14. Covered(before \o FileRelease(x), {q}, {})
  BY <1>12, <1>13, CoveredCat
<1> QED BY <1>13, <1>14 DEF q

------------------------------------------------------------------------------------
(* What the judgement says of a list that is run.                                  *)

LEMMA CoveredGo ==
  ASSUME NEW a, NEW o, NEW p, Covered(a, o, p), a # << >>
  PROVE  \E u :
           /\ Weaker(u, o) /\ Covers(Head(a), u)
           /\ Head(a)[1] = "either" =>
                Covered(Head(a)[2] \o Tail(a), u, p) /\ Covered(Head(a)[3] \o Tail(a), u, p)
           /\ Head(a)[1] = "if" =>
                /\ Covered(Head(a)[4] \o Tail(a), u \cup Learned(Head(a)[2], Head(a)[3], u), p)
                /\ Covered(Tail(a), u, p)
           /\ Head(a)[1] \notin {"either", "if"} => \E q : Turns(Head(a), u, q) /\ Covered(Tail(a), q, p)
<1>1. PICK J : Sound(J, p) /\ <<a, o>> \in J
  BY DEF Covered
<1> DEFINE e == <<a, o>>
<1>2. e \in J /\ e[1] = a /\ e[2] = o
  BY <1>1
<1> HIDE DEF e
<1>3. PICK u : Weaker(u, o) /\ Covers(Head(a), u) /\ Follows(Head(a), u, Tail(a), J)
  BY <1>1, <1>2 DEF Sound
<1>4. \A b, q : <<b, q>> \in J => Covered(b, q, p)
  BY <1>1 DEF Covered
<1> HIDE DEF Covered
<1> QED BY <1>3, <1>4 DEF Follows

LEMMA CoveredEnd == ASSUME NEW o, NEW p, Covered(<< >>, o, p) PROVE Weaker(p, o)
<1>1. PICK J : Sound(J, p) /\ <<<< >>, o>> \in J
  BY DEF Covered
<1> DEFINE e == <<<< >>, o>>
<1>2. e \in J /\ e[1] = << >> /\ e[2] = o
  BY <1>1
<1> HIDE DEF e
<1> QED BY <1>1, <1>2 DEF Sound

(* After the first unlocks, what was known under their mutexes is forgotten. *)
LEMMA CoveredUnlock ==
  ASSUME NEW a, NEW o, NEW p, Covered(a, o, p), NEW n \in 0..Len(a), \A i \in 1..n : a[i][1] = "unlock"
  PROVE  \E q : /\ Covered(SubSeq(a, n + 1, Len(a)), q, p) /\ Weaker(q, o)
                /\ \A e \in q : e[1] \in Passing => \A i \in 1..n : e[3] # a[i][2]
<1> DEFINE P(m) == \E q : /\ Covered(SubSeq(a, m + 1, Len(a)), q, p) /\ Weaker(q, o)
                          /\ \A e \in q : e[1] \in Passing => \A i \in 1..m : e[3] # a[i][2]
           T == {m \in 0..n : ~ P(m)}
<1>0. IsList(a) /\ Len(a) \in Nat
  BY CoveredList DEF IsList
<1>15. P(n) <=> n \notin T
  <2>1. n \in 0..n
    BY <1>0
  <2> HIDE DEF P
  <2> QED BY <2>1
<1>1. SUFFICES ASSUME T # {} PROVE FALSE
  <2>1. P(n)
    <3> HIDE DEF P, T
    <3> QED BY <1>15
  <2> QED BY <2>1
<1>2. PICK m \in T : \A l \in T : m <= l
  <2>1. T \subseteq Nat
    BY <1>0
  <2> HIDE DEF T
  <2> QED BY <1>1, <2>1, LeastNatural
<1>3. P(0)
  <2>1. 0 \in 0..Len(a)
    BY <1>0
  <2>2. SubSeq(a, 0 + 1, Len(a)) = a
    <3> DEFINE b == SubSeq(a, 0 + 1, Len(a))
    <3>1. IsList(b) /\ Len(b) = Len(a) - 0 /\ \A i \in 1..Len(a) - 0 : b[i] = a[0 + i]
      BY <1>0, <2>1, SuffixIs
    <3> HIDE DEF b
    <3>2. Len(b) = Len(a) /\ \A i \in 1..Len(b) : b[i] = a[i]
      BY <1>0, <3>1
    <3>3. b = a
      BY <1>0, <3>1, <3>2, SameLists
    <3> QED BY <3>3 DEF b
  <2>3. Covered(SubSeq(a, 0 + 1, Len(a)), o, p) /\ Weaker(o, o)
    BY <2>2, WeakerSame
  <2>4. \A i \in 1..0 : FALSE
    OBVIOUS
  <2> QED BY <2>3, <2>4
<1> HIDE DEF P
<1> DEFINE l == m - 1
           b == SubSeq(a, l + 1, Len(a))
<1>4. l \in 0..n /\ m = l + 1 /\ m \in 1..n /\ l < m /\ l \in 0..Len(a) /\ m \in 1..Len(a)
  <2>1. m \in 0..n /\ n \in Nat /\ m # 0 /\ n <= Len(a)
    BY <1>0, <1>3
  <2> QED BY <1>0, <2>1
<1>5. P(l)
  BY <1>2, <1>4
<1> HIDE DEF T, l
<1>6. PICK q : /\ Covered(b, q, p) /\ Weaker(q, o)
               /\ \A e \in q : e[1] \in Passing => \A i \in 1..l : e[3] # a[i][2]
  BY <1>5 DEF P
<1>7. /\ b # << >> /\ Head(b) = a[m] /\ Tail(b) = SubSeq(a, m + 1, Len(a))
  <2>1. IsList(b) /\ Len(b) = Len(a) - l /\ \A i \in 1..Len(a) - l : b[i] = a[l + i]
    BY <1>0, <1>4, SuffixIs
  <2> DEFINE c == SubSeq(a, m + 1, Len(a))
  <2>2. IsList(c) /\ Len(c) = Len(a) - m /\ \A i \in 1..Len(a) - m : c[i] = a[m + i]
    <3>1. m \in 0..Len(a)
      BY <1>0, <1>4
    <3> QED BY <1>0, <3>1, SuffixIs
  <2> HIDE DEF b, c
  <2>3. b # << >>
    <3>1. Len(b) > 0
      BY <1>0, <1>4, <2>1
    <3> QED BY <3>1
  <2>4. IsList(Tail(b)) /\ Len(Tail(b)) = Len(b) - 1 /\ (\A i \in 1..Len(b) - 1 : Tail(b)[i] = b[i + 1]) /\ Head(b) = b[1]
    BY <2>1, <2>3, TailIs
  <2>5. b[1] = a[m]
    BY <1>0, <1>4, <2>1
  <2>6. Len(Tail(b)) = Len(c)
    BY <1>0, <1>4, <2>1, <2>2, <2>4
  <2>7. ASSUME NEW i \in 1..Len(c) PROVE Tail(b)[i] = c[i]
    <3>1. i \in 1..Len(b) - 1 /\ i + 1 \in 1..Len(a) - l /\ l + (i + 1) = m + i /\ i \in 1..Len(a) - m
      BY <1>0, <1>4, <2>1, <2>2
    <3> QED BY <2>1, <2>2, <2>4, <3>1
  <2>8. Tail(b) = c
    BY <2>2, <2>4, <2>6, <2>7, SameLists
  <2> QED BY <2>3, <2>4, <2>5, <2>8 DEF c
<1> DEFINE x == Head(b)
<1>8. x[1] = "unlock" /\ x[2] = a[m][2]
  BY <1>4, <1>7
<1> HIDE DEF b
<1>9. \E u : Weaker(u, q) /\ \E r : Turns(x, u, r) /\ Covered(Tail(b), r, p)
  BY <1>6, <1>7, <1>8, CoveredGo
<1>10. PICK u, r : Weaker(u, q) /\ Turns(x, u, r) /\ Covered(Tail(b), r, p)
  BY <1>9
<1>11. r = {e \in u : e[1] \in Passing => e[3] # x[2]}
  BY <1>8, <1>10 DEF Turns
<1>12. Weaker(r, o)
  <2>1. Weaker(r, u)
    BY <1>11 DEF Weaker
  <2> QED BY <1>6, <1>10, <2>1, WeakerTwice
<1>13. ASSUME NEW e \in r, e[1] \in Passing, NEW i \in 1..m PROVE e[3] # a[i][2]
  <2>1. CASE i = m
    BY <1>8, <1>11, <1>13, <2>1
  <2>2. CASE i # m
    <3>1. i \in 1..l
      BY <1>4, <2>2
    <3> QED BY <1>6, <1>10, <1>11, <1>13, <3>1 DEF Weaker
  <2> QED BY <2>1, <2>2
<1>14. P(m)
  BY <1>7, <1>10, <1>12, <1>13 DEF P
<1> QED BY <1>2, <1>14 DEF T

------------------------------------------------------------------------------------
(* Every thread knows, wherever it is, enough to be covered.                       *)

(* What fact e of thread t says of the state. *)
Means(t, e) ==
  /\ e[1] = "use" => e[2] \in Files
  /\ e[1] \in {"queued", "taken"} => e[3] = t /\ <<e[2], t>> \in Transferable
  /\ e[1] = "queued" => <<e[2], t>> \in queue
  /\ e[1] = "live" /\ e[3] \in {"metadata", "file"} => e[2] \in live
  /\ e[1] = "unused" /\ e[3] \in {"metadata", "file"} /\ e[2] \in Files => use[e[2]] = 0
  /\ e[1] = "current" /\ e[3] = "transfer" => \E y : <<y, e[2]>> \in current

True(O) ==
  /\ O = [t \in Threads |-> O[t]]
  /\ \A t \in Threads : \A e \in O[t] : Means(t, e) /\ (e[1] \in Passing => e[3] \in HeldBy(t))

(* The transfers that are shown are those of a thread that has a use of the file. *)
Shown(O) ==
  \A e \in current : e[2] \in Threads /\ <<"shown", e[1], e[2]>> \in O[e[2]] /\ Kept(e[1]) \in O[e[2]]

(* The uses of file x that belong to a thread, or to an entry of the queue. *)
Owners(O, x) ==
  {w \in {"thread"} \X Threads \X {"kept", "spare"} : <<"use", x, w[3]>> \in O[w[2]]}
    \cup {w \in {"queue"} \X Transfers \X {"none"} : <<x, w[2]>> \in queue}

Counted(O) ==
  \A x \in Files :
    /\ IsFiniteSet(Owners(O, x)) /\ Cardinality(Owners(O, x)) <= use[x]
    /\ Owners(O, x) # {} => x \in live

(* What is known at the end of its list: a client has a use of the file it has open. *)
Owes(t) == IF t \in Clients /\ opened[t] # "none" THEN {Kept(opened[t])} ELSE {}

UseTypes == use \in [Files -> Nat] /\ queue \subseteq Transferable /\ current \subseteq Transferable

Justified(O) == True(O) /\ Shown(O) /\ Counted(O) /\ \A t \in Threads : Covered(todo[t], O[t], Owes(t))
UseInv == UseTypes /\ \E O : Justified(O)

(* The invariant is what the property needs: a use keeps the mutex of a file. *)
LEMMA OwnersLive ==
  ASSUME NEW O, Justified(O), NEW t \in Threads, NEW x \in Files, NEW n \in {"kept", "spare"}, <<"use", x, n>> \in O[t]
  PROVE  x \in live /\ use[x] # 0 /\ <<"thread", t, n>> \in Owners(O, x)
<1> DEFINE w == <<"thread", t, n>>
<1>1. w \in {"thread"} \X Threads \X {"kept", "spare"} /\ w[2] = t /\ w[3] = n
  OBVIOUS
<1> HIDE DEF w
<1>2. w \in Owners(O, x)
  BY <1>1 DEF Owners
<1>3. x \in live /\ IsFiniteSet(Owners(O, x)) /\ Cardinality(Owners(O, x)) <= use[x]
  BY <1>2 DEF Justified, Counted
<1>4. use[x] # 0
  <2>1. Cardinality(Owners(O, x)) \in Nat /\ Cardinality(Owners(O, x)) # 0
    BY <1>2, <1>3, FS_EmptySet, FS_CardinalityType
  <2> QED BY <1>3, <2>1
<1> QED BY <1>2, <1>3, <1>4 DEF w

LEMMA ReachableLive ==
  ASSUME UseTypes, NEW O, Justified(O), NEW t \in Threads, NEW x \in Files, NEW u, Weaker(u, O[t]), Reachable(x, u)
  PROVE  x \in live
<1>1. u \subseteq O[t]
  BY DEF Weaker
<1>2. CASE Kept(x) \in u
  BY <1>1, <1>2, OwnersLive DEF Kept
<1>3. ASSUME NEW m \in {"metadata", "file"}, <<"live", x, m>> \in u PROVE x \in live
  <2> DEFINE e == <<"live", x, m>>
  <2>1. e \in O[t] /\ e[1] = "live" /\ e[2] = x /\ e[3] = m
    BY <1>1, <1>3
  <2> HIDE DEF e
  <2>2. Means(t, e)
    BY <2>1 DEF Justified, True
  <2> QED BY <2>1, <2>2 DEF Means
<1>4. ASSUME NEW v \in {"backup", "writeback"}, x = "f", <<"current", v, "transfer">> \in u PROVE x \in live
  <2> DEFINE e == <<"current", v, "transfer">>
  <2>1. e \in O[t] /\ e[1] = "current" /\ e[2] = v /\ e[3] = "transfer"
    BY <1>1, <1>4
  <2> HIDE DEF e
  <2>2. Means(t, e)
    BY <2>1 DEF Justified, True
  <2>3. PICK y : <<y, v>> \in current
    BY <2>1, <2>2 DEF Means
  <2>4. y = "f"
    BY <2>3 DEF UseTypes, Transferable
  <2> DEFINE d == <<y, v>>
  <2>5. d \in current /\ d[1] = y /\ d[2] = v
    BY <2>3
  <2> HIDE DEF d
  <2>6. v \in Threads /\ Kept(y) \in O[v]
    BY <2>5 DEF Justified, Shown
  <2> QED BY <1>4, <2>4, <2>6, OwnersLive DEF Kept
<1> QED BY <1>2, <1>3, <1>4 DEF Reachable

LEMMA UseInvSuffices == ASSUME UseInv PROVE MutexesOutliveTheirUsers
<1>1. PICK O : Justified(O)
  BY DEF UseInv
<1> SUFFICES ASSUME NEW t \in Threads, NEW m \in Needs(t), m \in Files PROVE m \in live
  BY DEF MutexesOutliveTheirUsers
<1>2. Busy(t) /\ Covered(todo[t], O[t], Owes(t))
  BY <1>1 DEF Needs, Justified
<1>3. PICK u : Weaker(u, O[t]) /\ Covers(Next1(t), u)
  BY <1>2, CoveredGo DEF Busy, Next1
<1>4. "transfer" \notin Files
  BY DEF Files
<1>5. CASE Op(t) \in {"lock", "within", "use", "alone"}
  <2>1. m = Arg(t)
    BY <1>5 DEF Needs
  <2>2. Reachable(m, u)
    BY <1>3, <1>5, <2>1 DEF Covers, Op, Arg
  <2> QED BY <1>1, <1>3, <2>2, ReachableLive DEF UseInv
<1>6. CASE Op(t) \notin {"lock", "within", "use", "alone"}
  BY <1>4, <1>6 DEF Needs
<1> QED BY <1>5, <1>6

------------------------------------------------------------------------------------
(* Counting uses; what a step has to show.                                         *)

LEMMA Swapped ==
  ASSUME NEW S, IsFiniteSet(S), NEW a \in S, NEW T, NEW b, T \subseteq (S \ {a}) \cup {b}
  PROVE  IsFiniteSet(T) /\ Cardinality(T) <= Cardinality(S) /\ Cardinality(T) \in Nat /\ Cardinality(S) \in Nat
<1> DEFINE R == S \ {a}
<1>1. IsFiniteSet(R) /\ Cardinality(R) = Cardinality(S) - 1 /\ Cardinality(S) \in Nat
  BY FS_RemoveElement, FS_CardinalityType
<1> HIDE DEF R
<1>2. IsFiniteSet(R \cup {b}) /\ Cardinality(R \cup {b}) <= Cardinality(S)
  <2>1. IsFiniteSet(R \cup {b}) /\ Cardinality(R \cup {b}) = IF b \in R THEN Cardinality(R) ELSE Cardinality(R) + 1
    BY <1>1, FS_AddElement
  <2> QED BY <1>1, <2>1
<1>3. IsFiniteSet(T) /\ Cardinality(T) <= Cardinality(R \cup {b})
  BY <1>2, FS_Subset DEF R
<1>4. Cardinality(T) \in Nat /\ Cardinality(R \cup {b}) \in Nat
  BY <1>2, <1>3, FS_CardinalityType
<1> QED BY <1>1, <1>2, <1>3, <1>4

LEMMA Added ==
  ASSUME NEW S, IsFiniteSet(S), NEW T, NEW b, T \subseteq S \cup {b}
  PROVE  IsFiniteSet(T) /\ Cardinality(T) <= Cardinality(S) + 1 /\ Cardinality(T) \in Nat /\ Cardinality(S) \in Nat
<1>1. /\ IsFiniteSet(S \cup {b}) /\ Cardinality(S) \in Nat
      /\ Cardinality(S \cup {b}) = IF b \in S THEN Cardinality(S) ELSE Cardinality(S) + 1
  BY FS_AddElement, FS_CardinalityType
<1>2. IsFiniteSet(T) /\ Cardinality(T) <= Cardinality(S \cup {b})
  BY <1>1, FS_Subset
<1>3. Cardinality(T) \in Nat /\ Cardinality(S \cup {b}) \in Nat
  BY <1>1, <1>2, FS_CardinalityType
<1> QED BY <1>1, <1>2, <1>3

LEMMA Removed ==
  ASSUME NEW S, IsFiniteSet(S), NEW a \in S, NEW T, T \subseteq S \ {a}
  PROVE  IsFiniteSet(T) /\ Cardinality(T) <= Cardinality(S) - 1 /\ Cardinality(T) \in Nat /\ Cardinality(S) \in Nat
<1>1. IsFiniteSet(S \ {a}) /\ Cardinality(S \ {a}) = Cardinality(S) - 1 /\ Cardinality(S) \in Nat
  BY FS_RemoveElement, FS_CardinalityType
<1>2. IsFiniteSet(T) /\ Cardinality(T) <= Cardinality(S \ {a})
  BY <1>1, FS_Subset
<1>3. Cardinality(T) \in Nat
  BY <1>2, FS_CardinalityType
<1> QED BY <1>1, <1>2, <1>3

(* What is known, when thread t comes to know q. *)
With(O, t, q) == [v \in Threads |-> IF v = t THEN q ELSE O[v]]

(* The facts that stay, and the uses, are those of O. *)
SameLasting(q, o) == \A e : e[1] \notin Passing => (e \in q <=> e \in o)

LEMMA WeakerLasting == ASSUME NEW p, NEW o, Weaker(p, o) PROVE SameLasting(p, o)
  BY DEF Weaker, SameLasting

LEMMA LastingKinds ==
  ASSUME NEW q, NEW o, SameLasting(q, o)
  PROVE  /\ \A x, n : <<"use", x, n>> \in q <=> <<"use", x, n>> \in o
         /\ \A x : (Kept(x) \in q <=> Kept(x) \in o) /\ (Spare(x) \in q <=> Spare(x) \in o)
         /\ \A x, n : <<"shown", x, n>> \in q <=> <<"shown", x, n>> \in o
         /\ \A x, n : <<"queued", x, n>> \in q <=> <<"queued", x, n>> \in o
         /\ \A x, n : <<"taken", x, n>> \in q <=> <<"taken", x, n>> \in o
<1>1. "use" \notin Passing /\ "shown" \notin Passing /\ "queued" \notin Passing /\ "taken" \notin Passing
  BY Kinds
<1>2. ASSUME NEW k, k \notin Passing, NEW x, NEW n PROVE <<k, x, n>> \in q <=> <<k, x, n>> \in o
  <2> DEFINE e == <<k, x, n>>
  <2>1. e[1] = k
    OBVIOUS
  <2> HIDE DEF e
  <2>2. e \in q <=> e \in o
    BY <1>2, <2>1 DEF SameLasting
  <2> QED BY <2>2 DEF e
<1> QED BY <1>1, <1>2 DEF Kept, Spare

LEMMA StepJustified ==
  ASSUME LockInv, LockInv', NEW O, Justified(O), NEW t \in Threads, OthersStay(t), UNCHANGED opened, UseTypes',
         NEW s, NEW q, NEW h, Covered(s \o Tail(todo[t]), q, Owes(t)), GoesHolding(t, s, h),
         \A e \in q : Means(t, e)' /\ (e[1] \in Passing => e[3] \in Mutexes /\ h[e[3]] = t),
         \A v \in Threads \ {t} : \A e \in O[v] : Means(v, e)',
         Shown(With(O, t, q))', Counted(With(O, t, q))'
  PROVE  UseInv'
<1> DEFINE rest == s \o Tail(todo[t])
<1>1. todo' = [todo EXCEPT ![t] = SubSeq(rest, Cardinality(Unlocks(rest)) + 1, Len(rest))]
  BY DEF GoesHolding
<1>2. holder' = [m \in Mutexes |-> IF m \in {rest[i][2] : i \in 1..Cardinality(Unlocks(rest))} THEN NONE ELSE h[m]]
  BY DEF GoesHolding
<1> HIDE DEF rest
<1>3. IsList(rest) /\ Covered(rest, q, Owes(t))
  BY CoveredList DEF rest
<1>4. PICK n \in 0..Len(rest) : Unlocks(rest) = 1..n /\ Cardinality(Unlocks(rest)) = n
  BY <1>3, UnlocksIs
<1>5. \A i \in 1..n : rest[i][1] = "unlock"
  <2> SUFFICES ASSUME NEW i \in 1..n PROVE rest[i][1] = "unlock"
    OBVIOUS
  <2>1. i \in Unlocks(rest) /\ i \in 1..i
    BY <1>4
  <2> QED BY <2>1 DEF Unlocks
<1>6. PICK r : /\ Covered(SubSeq(rest, n + 1, Len(rest)), r, Owes(t)) /\ Weaker(r, q)
               /\ \A e \in r : e[1] \in Passing => \A i \in 1..n : e[3] # rest[i][2]
  BY <1>3, <1>4, <1>5, CoveredUnlock
<1> DEFINE P == With(O, t, r)
<1>7. P = [v \in Threads |-> P[v]] /\ P[t] = r /\ \A v \in Threads \ {t} : P[v] = O[v]
  BY DEF With
<1>8. \A e \in r : Means(t, e)' /\ (e[1] \in Passing => e[3] \in HeldBy(t)')
  <2> SUFFICES ASSUME NEW e \in r PROVE Means(t, e)' /\ (e[1] \in Passing => e[3] \in HeldBy(t)')
    OBVIOUS
  <2>1. e \in q
    BY <1>6 DEF Weaker
  <2>2. ASSUME e[1] \in Passing PROVE e[3] \in HeldBy(t)'
    <3>1. e[3] \in Mutexes /\ h[e[3]] = t
      BY <2>1, <2>2
    <3>2. e[3] \notin {rest[i][2] : i \in 1..Cardinality(Unlocks(rest))}
      BY <1>4, <1>6, <2>2
    <3>3. holder'[e[3]] = t
      BY <1>2, <3>1, <3>2
    <3> QED BY <3>1, <3>3 DEF HeldBy
  <2> QED BY <2>1, <2>2
<1>9. ASSUME NEW v \in Threads \ {t}, NEW e \in O[v]
      PROVE  Means(v, e)' /\ (e[1] \in Passing => e[3] \in HeldBy(v)')
  <2>1. e[1] \in Passing => e[3] \in HeldBy(v)
    BY DEF Justified, True
  <2> QED BY <2>1 DEF OthersStay
<1>10. True(P)'
  <2>1. ASSUME NEW v \in Threads, NEW e \in P[v]
        PROVE  Means(v, e)' /\ (e[1] \in Passing => e[3] \in HeldBy(v)')
    <3> HIDE DEF P
    <3> QED BY <1>7, <1>8, <1>9, <2>1
  <2> HIDE DEF P
  <2> QED BY <1>7, <2>1 DEF True
<1>11. Shown(P)'
  <2>1. ASSUME NEW e \in current'
        PROVE  e[2] \in Threads /\ <<"shown", e[1], e[2]>> \in P[e[2]] /\ Kept(e[1]) \in P[e[2]]
    <3>1. LET Q == With(O, t, q)
          IN  e[2] \in Threads /\ <<"shown", e[1], e[2]>> \in Q[e[2]] /\ Kept(e[1]) \in Q[e[2]]
      BY DEF Shown
    <3>2. SameLasting(r, q)
      BY <1>6, WeakerLasting
    <3>3. CASE e[2] = t
      <4>1. <<"shown", e[1], e[2]>> \in q /\ Kept(e[1]) \in q
        BY <3>1, <3>3 DEF With
      <4> QED BY <1>7, <3>2, <3>3, <4>1, LastingKinds
    <3>4. CASE e[2] # t
      BY <3>1, <3>4 DEF With
    <3> QED BY <3>3, <3>4
  <2> HIDE DEF P
  <2> QED BY <2>1 DEF Shown
<1>12. Counted(P)'
  <2>1. \A x : Owners(P, x)' = Owners(With(O, t, q), x)'
    <3>1. SameLasting(r, q)
      BY <1>6, WeakerLasting
    <3>2. ASSUME NEW x, NEW v \in Threads, NEW k
          PROVE  <<"use", x, k>> \in P[v] <=> <<"use", x, k>> \in With(O, t, q)[v]
      BY <3>1, LastingKinds DEF With
    <3> HIDE DEF P
    <3> QED BY <3>2 DEF Owners
  <2> HIDE DEF P
  <2> QED BY <2>1 DEF Counted
<1>13. ASSUME NEW v \in Threads PROVE Covered(todo'[v], P[v], Owes(v)')
  <2>0. Owes(v)' = Owes(v)
    BY DEF Owes
  <2>1. CASE v = t
    <3>1. todo'[v] = SubSeq(rest, n + 1, Len(rest))
      BY <1>1, <1>4, <2>1 DEF LockInv
    <3> QED BY <1>6, <1>7, <2>0, <2>1, <3>1
  <2>2. CASE v # t
    <3>1. todo'[v] = todo[v]
      BY <2>2 DEF OthersStay
    <3>2. Covered(todo[v], O[v], Owes(v))
      BY DEF Justified
    <3> QED BY <1>7, <2>0, <2>2, <3>1, <3>2
  <2> QED BY <2>1, <2>2
<1> HIDE DEF P
<1>14. Justified(P)'
  BY <1>10, <1>11, <1>12, <1>13 DEF Justified
<1> QED BY <1>14 DEF UseInv

LEMMA ShownKept ==
  ASSUME NEW O, Shown(O), NEW t \in Threads, NEW q, current' \subseteq current,
         \A e \in current' : e[2] = t => <<"shown", e[1], t>> \in q /\ Kept(e[1]) \in q
  PROVE  Shown(With(O, t, q))'
<1> SUFFICES ASSUME NEW e \in current'
             PROVE  e[2] \in Threads /\ <<"shown", e[1], e[2]>> \in With(O, t, q)[e[2]] /\ Kept(e[1]) \in With(O, t, q)[e[2]]
  BY DEF Shown
<1>1. e[2] \in Threads /\ <<"shown", e[1], e[2]>> \in O[e[2]] /\ Kept(e[1]) \in O[e[2]]
  BY DEF Shown
<1>2. CASE e[2] = t
  BY <1>1, <1>2 DEF With
<1>3. CASE e[2] # t
  BY <1>1, <1>3 DEF With
<1> QED BY <1>2, <1>3

(* The uses of a thread that are not its own to count, and those of the others. *)
LEMMA OwnersWith ==
  ASSUME NEW O, NEW t \in Threads, NEW q, NEW x, NEW w, w \in Owners(With(O, t, q), x)'
  PROVE  \/ w = <<"thread", t, w[3]>> /\ w[3] \in {"kept", "spare"} /\ <<"use", x, w[3]>> \in q
         \/ w \in Owners(O, x) /\ w[2] # t /\ w[1] = "thread"
         \/ w = <<"queue", w[2], "none">> /\ w[2] \in Transfers /\ <<x, w[2]>> \in queue'
<1>1. CASE w \in {"thread"} \X Threads \X {"kept", "spare"} /\ <<"use", x, w[3]>> \in With(O, t, q)[w[2]]
  <2>1. w = <<"thread", w[2], w[3]>> /\ w[2] \in Threads /\ w[3] \in {"kept", "spare"} /\ w[1] = "thread"
    BY <1>1
  <2>2. CASE w[2] = t
    <3>1. <<"use", x, w[3]>> \in q
      BY <1>1, <2>2 DEF With
    <3> QED BY <2>1, <2>2, <3>1
  <2>3. CASE w[2] # t
    <3>1. <<"use", x, w[3]>> \in O[w[2]]
      BY <1>1, <2>1, <2>3 DEF With
    <3> QED BY <1>1, <2>1, <2>3, <3>1 DEF Owners
  <2> QED BY <2>2, <2>3
<1>2. CASE w \in {"queue"} \X Transfers \X {"none"} /\ <<x, w[2]>> \in queue'
  BY <1>2
<1> QED BY <1>1, <1>2 DEF Owners

(* What thread t knows before a step that is not a test. *)
LEMMA KnownBefore ==
  ASSUME LockInv, NEW O, Justified(O), NEW t \in Threads, Busy(t), Op(t) \notin {"either", "if"}
  PROVE  \E u, q : /\ Weaker(u, O[t]) /\ Covers(Next1(t), u) /\ Turns(Next1(t), u, q)
                   /\ Covered(<< >> \o Tail(todo[t]), q, Owes(t))
                   /\ \A e \in u : Means(t, e) /\ (e[1] \in Passing => e[3] \in HeldBy(t))
<1>1. Covered(todo[t], O[t], Owes(t)) /\ todo[t] # << >>
  BY DEF Justified, Busy
<1>2. PICK u : /\ Weaker(u, O[t]) /\ Covers(Next1(t), u)
               /\ \E q : Turns(Next1(t), u, q) /\ Covered(Tail(todo[t]), q, Owes(t))
  BY <1>1, CoveredGo DEF Next1, Op
<1>3. PICK q : Turns(Next1(t), u, q) /\ Covered(Tail(todo[t]), q, Owes(t))
  BY <1>2
<1>4. << >> \o Tail(todo[t]) = Tail(todo[t])
  BY <1>3, CoveredList, CatEmpty
<1>5. \A e \in u : Means(t, e) /\ (e[1] \in Passing => e[3] \in HeldBy(t))
  BY <1>2 DEF Weaker, Justified, True
<1> QED BY <1>2, <1>3, <1>4, <1>5

(* Only what passes changes, and what it is about does not. *)
LEMMA StillJustified ==
  ASSUME LockInv, LockInv', UseTypes, NEW O, Justified(O), NEW t \in Threads, OthersStay(t),
         UNCHANGED <<opened, live, use, queue, current>>,
         NEW s, NEW q, NEW h, Covered(s \o Tail(todo[t]), q, Owes(t)), GoesHolding(t, s, h),
         SameLasting(q, O[t]), \A e \in q : e[1] \in Passing => Means(t, e) /\ e[3] \in Mutexes /\ h[e[3]] = t
  PROVE  UseInv'
<1>1. UseTypes'
  BY DEF UseTypes
<1>2. \A v, e : Means(v, e)' = Means(v, e)
  BY DEF Means
<1>3. \A e \in q : Means(t, e)' /\ (e[1] \in Passing => e[3] \in Mutexes /\ h[e[3]] = t)
  BY <1>2 DEF SameLasting, Justified, True
<1>4. \A v \in Threads \ {t} : \A e \in O[v] : Means(v, e)'
  BY <1>2 DEF Justified, True
<1> DEFINE P == With(O, t, q)
<1>5. \A v \in Threads : SameLasting(P[v], O[v])
  BY DEF With, SameLasting
<1>6. Shown(P)'
  <2>1. ASSUME NEW e \in current, e[2] = t PROVE <<"shown", e[1], t>> \in q /\ Kept(e[1]) \in q
    BY <2>1, LastingKinds DEF Justified, Shown
  <2> QED BY <2>1, ShownKept DEF Justified
<1>7. Counted(P)'
  <2>1. ASSUME NEW x PROVE Owners(P, x)' = Owners(O, x)
    <3>1. ASSUME NEW v \in Threads, NEW n PROVE <<"use", x, n>> \in P[v] <=> <<"use", x, n>> \in O[v]
      BY <1>5, LastingKinds
    <3> HIDE DEF P
    <3> QED BY <3>1 DEF Owners
  <2> HIDE DEF P
  <2> QED BY <2>1 DEF Counted, Justified
<1> QED BY <1>1, <1>3, <1>4, <1>6, <1>7, StepJustified

------------------------------------------------------------------------------------
(* Each kind of step.                                                              *)

LEMMA PlainStepJustified ==
  ASSUME LockInv, LockInv', UseTypes, NEW O, Justified(O), NEW t \in Threads, OthersStay(t), UNCHANGED opened,
         Section(t) \/ Alone(t)
  PROVE  UseInv'
<1>1. Busy(t) /\ Op(t) \in {"within", "alone"} /\ GoesHolding(t, << >>, holder) /\ UNCHANGED <<live, use, queue, current>>
  BY DEF Section, Alone, Ready, Goes
<1>2. PICK u, q : /\ Weaker(u, O[t]) /\ Turns(Next1(t), u, q) /\ Covered(<< >> \o Tail(todo[t]), q, Owes(t))
                  /\ \A e \in u : Means(t, e) /\ (e[1] \in Passing => e[3] \in HeldBy(t))
  BY <1>1, KnownBefore
<1>3. q = u
  BY <1>1, <1>2 DEF Turns, Op
<1>4. SameLasting(q, O[t]) /\ \A e \in q : e[1] \in Passing => Means(t, e) /\ e[3] \in Mutexes /\ holder[e[3]] = t
  BY <1>2, <1>3, WeakerLasting DEF HeldBy
<1> QED BY <1>1, <1>2, <1>4, StillJustified

LEMMA AcquireJustified ==
  ASSUME LockInv, LockInv', UseTypes, NEW O, Justified(O), NEW t \in Threads, OthersStay(t), UNCHANGED opened,
         Acquire(t)
  PROVE  UseInv'
<1> DEFINE m == Arg(t)
           h == [holder EXCEPT ![m] = t]
<1>1. Busy(t) /\ Op(t) = "lock" /\ GoesHolding(t, << >>, h) /\ UNCHANGED <<live, use, queue, current>>
  BY DEF Acquire, Ready
<1>2. PICK u, q : /\ Weaker(u, O[t]) /\ Turns(Next1(t), u, q) /\ Covered(<< >> \o Tail(todo[t]), q, Owes(t))
                  /\ \A e \in u : Means(t, e) /\ (e[1] \in Passing => e[3] \in HeldBy(t))
  BY <1>1, KnownBefore
<1>3. q = u \cup {Held(m)}
  BY <1>1, <1>2 DEF Turns, Op, Arg
<1>4. m \in Mutexes
  <2>1. Needs(t) = {m}
    BY <1>1 DEF Needs
  <2> QED BY <1>1, <2>1, NextInOrder
<1>5. h \in [Mutexes -> Threads \cup {NONE}] /\ h[m] = t /\ \A n \in HeldBy(t) : n \in Mutexes /\ h[n] = t
  BY <1>4 DEF LockInv, HeldBy
<1> HIDE DEF h, m
<1>6. Held(m)[1] = "held" /\ Held(m)[3] = m /\ "held" \in Passing
  BY Kinds
<1>7. SameLasting(q, O[t])
  BY <1>2, <1>3, <1>6 DEF SameLasting, Weaker
<1>8. Means(t, Held(m))
  BY <1>6 DEF Means
<1>9. \A e \in q : e[1] \in Passing => Means(t, e) /\ e[3] \in Mutexes /\ h[e[3]] = t
  BY <1>2, <1>3, <1>4, <1>5, <1>6, <1>8
<1> QED BY <1>1, <1>2, <1>7, <1>9, StillJustified

LEMMA BranchJustified ==
  ASSUME LockInv, LockInv', UseTypes, NEW O, Justified(O), NEW t \in Threads, OthersStay(t), UNCHANGED opened,
         Branch(t)
  PROVE  UseInv'
<1> DEFINE x == Next1(t)
<1>1. Busy(t) /\ Op(t) = x[1] /\ x[1] \in {"either", "if"} /\ UNCHANGED <<live, use, queue, current>>
  BY DEF Branch, Ready, Op
<1>2. Covered(todo[t], O[t], Owes(t)) /\ todo[t] # << >>
  BY <1>1 DEF Justified, Busy
<1>3. PICK u :
        /\ Weaker(u, O[t]) /\ Covers(x, u)
        /\ x[1] = "either" =>
             Covered(x[2] \o Tail(todo[t]), u, Owes(t)) /\ Covered(x[3] \o Tail(todo[t]), u, Owes(t))
        /\ x[1] = "if" =>
             /\ Covered(x[4] \o Tail(todo[t]), u \cup Learned(x[2], x[3], u), Owes(t))
             /\ Covered(Tail(todo[t]), u, Owes(t))
  BY <1>2, CoveredGo DEF Next1
<1>4. SameLasting(u, O[t]) /\ \A e \in u : e[1] \in Passing => Means(t, e) /\ e[3] \in Mutexes /\ holder[e[3]] = t
  BY <1>3, WeakerLasting DEF Weaker, Justified, True, HeldBy
<1>5. ASSUME NEW s, Covered(s \o Tail(todo[t]), u, Owes(t)), Goes(t, s) PROVE UseInv'
  BY <1>1, <1>4, <1>5, StillJustified DEF Goes
<1>6. CASE x[1] = "either"
  BY <1>3, <1>5, <1>6 DEF Branch, Ready, Op
<1>7. ASSUME x[1] = "if", Goes(t, << >>) PROVE UseInv'
  <2>1. << >> \o Tail(todo[t]) = Tail(todo[t]) /\ Covered(Tail(todo[t]), u, Owes(t))
    BY <1>3, <1>7, CoveredList, CatEmpty
  <2> QED BY <1>5, <1>7, <2>1
<1>8. ASSUME x[1] = "if", Goes(t, x[4]),
             CASE x[2] = "live" -> x[3] \in live
               [] x[2] = "unused" -> use[x[3]] = 0
               [] x[2] = "current" -> \E y \in Files : <<y, x[3]>> \in current
      PROVE  UseInv'
  <2> DEFINE new == Learned(x[2], x[3], u)
             q == u \cup new
  <2>1. x[2] \in Tests
    BY <1>3, <1>8 DEF Covers
  <2>2. \A e \in new : e[1] = x[2] /\ e[2] = x[3] /\ Held(e[3]) \in u
    BY DEF Learned
  <2>3. \A e \in new : e[1] \in Passing /\ Means(t, e) /\ e[3] \in Mutexes /\ holder[e[3]] = t
    <3> SUFFICES ASSUME NEW e \in new PROVE e[1] \in Passing /\ Means(t, e) /\ e[3] \in Mutexes /\ holder[e[3]] = t
      OBVIOUS
    <3>1. e[1] = x[2] /\ e[2] = x[3] /\ Held(e[3]) \in u
      BY <2>2
    <3> HIDE DEF new, x
    <3>2. e[1] \in Passing
      BY <2>1, <3>1 DEF Passing
    <3>3. e[3] \in Mutexes /\ holder[e[3]] = t
      BY <1>4, <3>1, Kinds
    <3>4. Means(t, e)
      <4>1. CASE x[2] = "live"
        BY <1>8, <3>1, <4>1 DEF Means
      <4>2. CASE x[2] = "unused"
        BY <1>8, <3>1, <4>2 DEF Means
      <4>3. CASE x[2] = "current"
        BY <1>8, <3>1, <4>3 DEF Means
      <4> QED BY <2>1, <4>1, <4>2, <4>3 DEF Tests
    <3> QED BY <3>2, <3>3, <3>4
  <2>4. SameLasting(q, O[t])
    <3> HIDE DEF new
    <3> QED BY <1>4, <2>3 DEF SameLasting
  <2>5. \A e \in q : e[1] \in Passing => Means(t, e) /\ e[3] \in Mutexes /\ holder[e[3]] = t
    BY <1>4, <2>3
  <2>6. Covered(x[4] \o Tail(todo[t]), q, Owes(t))
    BY <1>3, <1>8
  <2> HIDE DEF q, x
  <2> QED BY <1>1, <1>8, <2>4, <2>5, <2>6, StillJustified DEF Goes
<1>9. CASE x[1] = "if"
  <2>1. /\ Arg(t) = x[2]
        /\ Goes(t, IF CASE Arg(t) = "live" -> x[3] \in live
                        [] Arg(t) = "unused" -> use[x[3]] = 0
                        [] Arg(t) = "current" -> \E y \in Files : <<y, x[3]>> \in current
                   THEN x[4] ELSE << >>)
    BY <1>9 DEF Branch, Ready, Op, Arg
  <2> DEFINE C == CASE x[2] = "live" -> x[3] \in live
                    [] x[2] = "unused" -> use[x[3]] = 0
                    [] x[2] = "current" -> \E y \in Files : <<y, x[3]>> \in current
  <2>2. Goes(t, IF C THEN x[4] ELSE << >>)
    BY <2>1
  <2>3. C => UseInv'
    <3>1. ASSUME C PROVE Goes(t, x[4])
      <4> HIDE DEF C
      <4> QED BY <2>2, <3>1
    <3> QED BY <1>8, <1>9, <3>1
  <2> HIDE DEF C
  <2>4. ~C => Goes(t, << >>)
    BY <2>2
  <2> QED BY <1>7, <1>9, <2>3, <2>4
<1> QED BY <1>1, <1>6, <1>9

CountedAt(O, x) ==
  /\ IsFiniteSet(Owners(O, x)) /\ Cardinality(Owners(O, x)) <= use[x]
  /\ Owners(O, x) # {} => x \in live

LEMMA OwnersFewer ==
  ASSUME NEW O, NEW t \in Threads, NEW q, NEW x,
         \A n : <<"use", x, n>> \in q => <<"use", x, n>> \in O[t],
         \A v \in Transfers : <<x, v>> \in queue' => <<x, v>> \in queue
  PROVE  Owners(With(O, t, q), x)' \subseteq Owners(O, x)
<1> SUFFICES ASSUME NEW w \in Owners(With(O, t, q), x)' PROVE w \in Owners(O, x)
  OBVIOUS
<1>1. CASE w = <<"thread", t, w[3]>> /\ w[3] \in {"kept", "spare"} /\ <<"use", x, w[3]>> \in q
  <2>1. w[2] = t /\ w \in {"thread"} \X Threads \X {"kept", "spare"} /\ <<"use", x, w[3]>> \in O[w[2]]
    BY <1>1
  <2> QED BY <2>1 DEF Owners
<1>2. CASE w = <<"queue", w[2], "none">> /\ w[2] \in Transfers /\ <<x, w[2]>> \in queue'
  <2>1. w \in {"queue"} \X Transfers \X {"none"} /\ <<x, w[2]>> \in queue
    BY <1>2
  <2> QED BY <2>1 DEF Owners
<1> QED BY <1>1, <1>2, OwnersWith

(* Of a file that the step is not about, no more is used than before. *)
LEMMA CountedElsewhere ==
  ASSUME UseTypes, NEW O, Counted(O), NEW t \in Threads, NEW q, NEW x \in Files,
         \A n : <<"use", x, n>> \in q => <<"use", x, n>> \in O[t],
         \A v \in Transfers : <<x, v>> \in queue' => <<x, v>> \in queue,
         use'[x] = use[x], x \in live => x \in live'
  PROVE  CountedAt(With(O, t, q), x)'
<1> DEFINE S == Owners(O, x)
           T == Owners(With(O, t, q), x)'
<1>1. T \subseteq S
  BY OwnersFewer
<1>2. IsFiniteSet(S) /\ Cardinality(S) <= use[x] /\ (S # {} => x \in live) /\ use[x] \in Nat
  BY DEF Counted, UseTypes
<1>3. IsFiniteSet(T) /\ Cardinality(T) <= Cardinality(S) /\ Cardinality(S) \in Nat /\ Cardinality(T) \in Nat
  <2> HIDE DEF S, T
  <2> QED BY <1>1, <1>2, FS_Subset, FS_CardinalityType
<1>4. Cardinality(T) <= use'[x] /\ (T # {} => x \in live')
  <2> HIDE DEF S, T
  <2> QED BY <1>1, <1>2, <1>3
<1> QED BY <1>3, <1>4 DEF CountedAt

LEMMA CountedEverywhere ==
  ASSUME NEW P, \A x \in Files : CountedAt(P, x)'
  PROVE  Counted(P)'
  BY DEF Counted, CountedAt

(* The uses of x of the other kind, and those of the other files, are no others. *)
LEMMA UseNames ==
  /\ \A x, n : (<<"use", x, n>> = Kept(x) <=> n = "kept") /\ (<<"use", x, n>> = Spare(x) <=> n = "spare")
  /\ \A x, y, n : x # y => <<"use", y, n>> # Kept(x) /\ <<"use", y, n>> # Spare(x)
  /\ \A x, n : <<"use", x, n>>[1] = "use"
  BY DEF Kept, Spare

LEMMA GetJustified ==
  ASSUME LockInv, LockInv', UseTypes, NEW O, Justified(O), NEW t \in Threads, OthersStay(t), UNCHANGED opened,
         Get(t)
  PROVE  UseInv'
<1>0. PICK x : x = Arg(t)
  OBVIOUS
<1>1. /\ Busy(t) /\ Op(t) \in {"get", "use"} /\ GoesHolding(t, << >>, holder)
      /\ live' = live \cup {x} /\ use' = [use EXCEPT ![x] = @ + 1] /\ UNCHANGED <<queue, current>>
  BY <1>0 DEF Get, Ready, Goes
<1>2. PICK u, q : /\ Weaker(u, O[t]) /\ Covers(Next1(t), u) /\ Turns(Next1(t), u, q)
                  /\ Covered(<< >> \o Tail(todo[t]), q, Owes(t))
                  /\ \A e \in u : Means(t, e) /\ (e[1] \in Passing => e[3] \in HeldBy(t))
  BY <1>1, KnownBefore
<1>3. x \in Files /\ (Op(t) = "use" => Kept(x) \in u)
  BY <1>0, <1>1, <1>2 DEF Covers, Op, Arg
<1>4. PICK w \in {Kept(x), Spare(x)} \ u : q = {e \in u : e[1] # "unused"} \cup {w}
  BY <1>0, <1>1, <1>2 DEF Turns, Op, Arg
<1>5. w[1] = "use" /\ w[2] = x /\ "use" \notin Passing
  BY Kinds
<1>6. UseTypes'
  BY <1>1, <1>3 DEF UseTypes
<1>7. /\ use'[x] = use[x] + 1 /\ use[x] \in Nat
      /\ \A y \in Files : y # x => use'[y] = use[y]
  BY <1>1, <1>3 DEF UseTypes
<1>8. ASSUME NEW e \in q PROVE Means(t, e)' /\ (e[1] \in Passing => e[3] \in Mutexes /\ holder[e[3]] = t)
  <2>1. CASE e = w
    BY <1>3, <1>5, <2>1 DEF Means
  <2>2. CASE e \in u /\ e[1] # "unused"
    BY <1>1, <1>2, <2>2 DEF Means, HeldBy
  <2> QED BY <1>4, <2>1, <2>2
<1>9. ASSUME NEW v \in Threads \ {t}, NEW e \in O[v] PROVE Means(v, e)'
  <2>1. Means(v, e) /\ (e[1] \in Passing => e[3] \in HeldBy(v))
    BY DEF Justified, True
  <2>2. ASSUME e[1] = "unused", e[3] \in {"metadata", "file"}, e[2] \in Files PROVE use'[e[2]] = 0
    <3>1. use[e[2]] = 0 /\ e[3] \in HeldBy(v)
      BY <2>1, <2>2, Kinds DEF Means
    <3>2. CASE Op(t) = "get"
      <4>1. {"metadata", "file"} \subseteq HeldBy(t)
        BY <1>1, <3>2, NextInOrder
      <4> QED BY <2>2, <3>1, <4>1 DEF HeldBy
    <3>3. CASE Op(t) = "use"
      <4>1. Kept(x) \in O[t]
        BY <1>2, <1>3, <3>3 DEF Weaker
      <4>2. use[x] # 0
        BY <1>3, <4>1, OwnersLive DEF Kept
      <4> QED BY <1>7, <2>2, <3>1, <4>2
    <3> QED BY <1>1, <3>2, <3>3
  <2> QED BY <1>1, <2>1, <2>2 DEF Means
<1>10. \A e : e[1] = "use" /\ e \in q => e \in O[t] \/ e = w
  BY <1>2, <1>4 DEF Weaker
<1>11. ASSUME NEW y \in Files PROVE CountedAt(With(O, t, q), y)'
  <2>1. CASE y # x
    <3>1. \A n : <<"use", y, n>> \in q => <<"use", y, n>> \in O[t]
      BY <1>4, <1>10, <2>1, UseNames
    <3> QED BY <1>1, <1>7, <2>1, <3>1, CountedElsewhere DEF Justified
  <2>2. CASE y = x
    <3> DEFINE S == Owners(O, x)
               T == Owners(With(O, t, q), x)'
               b == <<"thread", t, IF w = Kept(x) THEN "kept" ELSE "spare">>
    <3>1. T \subseteq S \cup {b}
      <4> SUFFICES ASSUME NEW z \in T PROVE z \in S \/ z = b
        OBVIOUS
      <4>1. CASE z = <<"thread", t, z[3]>> /\ z[3] \in {"kept", "spare"} /\ <<"use", x, z[3]>> \in q
        <5>1. CASE <<"use", x, z[3]>> = w
          <6>1. z[3] = IF w = Kept(x) THEN "kept" ELSE "spare"
            BY <1>4, <5>1, UseNames
          <6> QED BY <4>1, <6>1
        <5>2. CASE <<"use", x, z[3]>> # w
          <6>1. <<"use", x, z[3]>> \in O[t]
            BY <1>10, <4>1, <5>2, UseNames
          <6> QED BY <1>3, <4>1, <6>1, OwnersLive
        <5> QED BY <5>1, <5>2
      <4>2. CASE z = <<"queue", z[2], "none">> /\ z[2] \in Transfers /\ <<x, z[2]>> \in queue'
        <5>1. z \in {"queue"} \X Transfers \X {"none"} /\ <<x, z[2]>> \in queue
          BY <1>1, <4>2
        <5> QED BY <5>1 DEF Owners
      <4> QED BY <4>1, <4>2, OwnersWith
    <3>2. IsFiniteSet(S) /\ Cardinality(S) <= use[x]
      BY <1>3 DEF Justified, Counted
    <3>3. IsFiniteSet(T) /\ Cardinality(T) <= use'[x]
      <4> HIDE DEF S, T, b
      <4>1. IsFiniteSet(T) /\ Cardinality(T) <= Cardinality(S) + 1 /\ Cardinality(T) \in Nat /\ Cardinality(S) \in Nat
        BY <3>1, <3>2, Added
      <4> QED BY <1>7, <3>2, <4>1
    <3> QED BY <1>1, <2>2, <3>3 DEF CountedAt
  <2> QED BY <2>1, <2>2
<1>12. Counted(With(O, t, q))'
  BY <1>11, CountedEverywhere
<1>13. Shown(With(O, t, q))'
  <2>1. ASSUME NEW e \in current, e[2] = t PROVE <<"shown", e[1], t>> \in q /\ Kept(e[1]) \in q
    <3>1. <<"shown", e[1], t>> \in O[t] /\ Kept(e[1]) \in O[t]
      BY <2>1 DEF Justified, Shown
    <3>2. <<"shown", e[1], t>> \in u /\ Kept(e[1]) \in u
      BY <1>2, <3>1, WeakerLasting, LastingKinds
    <3>3. <<"shown", e[1], t>>[1] = "shown" /\ Kept(e[1])[1] = "use"
      BY Kinds
    <3> QED BY <1>4, <3>2, <3>3
  <2> QED BY <1>1, <2>1, ShownKept DEF Justified
<1> QED BY <1>1, <1>2, <1>6, <1>8, <1>9, <1>12, <1>13, StepJustified

LEMMA UnuseJustified ==
  ASSUME LockInv, LockInv', UseTypes, NEW O, Justified(O), NEW t \in Threads, OthersStay(t), UNCHANGED opened,
         Unuse(t)
  PROVE  UseInv'
<1>0. PICK x : x = Arg(t)
  OBVIOUS
<1> DEFINE g == <<"live", x, "metadata">>
<1>1. /\ Busy(t) /\ Op(t) = "unuse" /\ GoesHolding(t, << >>, holder)
      /\ use' = [use EXCEPT ![x] = @ - 1] /\ UNCHANGED <<live, queue, current>>
  BY <1>0 DEF Unuse, Ready, Goes
<1>2. PICK u, q : /\ Weaker(u, O[t]) /\ Covers(Next1(t), u) /\ Turns(Next1(t), u, q)
                  /\ Covered(<< >> \o Tail(todo[t]), q, Owes(t))
                  /\ \A e \in u : Means(t, e) /\ (e[1] \in Passing => e[3] \in HeldBy(t))
  BY <1>1, KnownBefore
<1>3. /\ Kept(x) \in u /\ Held("metadata") \in u /\ \A e \in u : e[1] # "shown"
      /\ q = (u \ {Kept(x)}) \cup {g}
  BY <1>0, <1>1, <1>2 DEF Turns, Op, Arg
<1>4. x \in Files /\ x \in live /\ use[x] # 0 /\ <<"thread", t, "kept">> \in Owners(O, x)
  <2>1. Kept(x) \in O[t] /\ Means(t, Kept(x))
    BY <1>2, <1>3 DEF Weaker
  <2>2. x \in Files
    BY <2>1, Kinds DEF Means
  <2> QED BY <2>1, <2>2, OwnersLive DEF Kept
<1>5. g[1] = "live" /\ g[2] = x /\ g[3] = "metadata" /\ "metadata" \in HeldBy(t)
  BY <1>2, <1>3, Kinds
<1> HIDE DEF g
<1>6. /\ use'[x] = use[x] - 1 /\ use[x] \in Nat
      /\ \A y \in Files : y # x => use'[y] = use[y]
  BY <1>1, <1>4 DEF UseTypes
<1>14. UseTypes'
  BY <1>1, <1>4, <1>6 DEF UseTypes
<1>7. ASSUME NEW v, NEW e, Means(v, e) PROVE Means(v, e)'
  <2>1. ASSUME e[1] = "unused", e[3] \in {"metadata", "file"}, e[2] \in Files PROVE use'[e[2]] = 0
    BY <1>4, <1>6, <1>7, <2>1 DEF Means
  <2> QED BY <1>1, <1>7, <2>1 DEF Means
<1>8. ASSUME NEW e \in q PROVE Means(t, e)' /\ (e[1] \in Passing => e[3] \in Mutexes /\ holder[e[3]] = t)
  <2>1. CASE e = g
    BY <1>1, <1>4, <1>5, <2>1 DEF Means, HeldBy
  <2>2. CASE e \in u
    BY <1>2, <1>7, <2>2 DEF HeldBy
  <2> QED BY <1>3, <2>1, <2>2
<1>9. \A v \in Threads \ {t} : \A e \in O[v] : Means(v, e)'
  BY <1>7 DEF Justified, True
<1>10. \A e : e[1] = "use" /\ e \in q => e \in O[t] /\ e # Kept(x)
  BY <1>2, <1>3, <1>5 DEF Weaker
<1>11. ASSUME NEW y \in Files PROVE CountedAt(With(O, t, q), y)'
  <2>0. \A z, n : <<"use", z, n>> \in q => <<"use", z, n>> \in O[t] /\ <<"use", z, n>> # Kept(x)
    BY <1>10, UseNames
  <2>1. CASE y # x
    BY <1>1, <1>6, <2>0, <2>1, CountedElsewhere DEF Justified
  <2>2. CASE y = x
    <3> DEFINE S == Owners(O, x)
               T == Owners(With(O, t, q), x)'
               a == <<"thread", t, "kept">>
    <3>1. T \subseteq S
      BY <1>1, <2>0, OwnersFewer
    <3>2. a \notin T
      <4> SUFFICES ASSUME NEW z \in T, z = a PROVE FALSE
        OBVIOUS
      <4>1. z[1] = "thread" /\ z[2] = t /\ z[3] = "kept" /\ <<"queue", z[2], "none">>[1] = "queue"
        OBVIOUS
      <4>2. \/ z = <<"thread", t, z[3]>> /\ z[3] \in {"kept", "spare"} /\ <<"use", x, z[3]>> \in q
            \/ z \in Owners(O, x) /\ z[2] # t /\ z[1] = "thread"
            \/ z = <<"queue", z[2], "none">> /\ z[2] \in Transfers /\ <<x, z[2]>> \in queue'
        <5> HIDE DEF a
        <5> QED BY OwnersWith
      <4>4. <<"use", x, "kept">> \in q
        BY <4>1, <4>2
      <4> QED BY <2>0, <4>4, UseNames
    <3>3. IsFiniteSet(S) /\ Cardinality(S) <= use[x] /\ a \in S
      BY <1>4 DEF Justified, Counted
    <3>4. IsFiniteSet(T) /\ Cardinality(T) <= use'[x]
      <4> HIDE DEF S, T, a
      <4>1. IsFiniteSet(T) /\ Cardinality(T) <= Cardinality(S) - 1 /\ Cardinality(T) \in Nat /\ Cardinality(S) \in Nat
        <5>1. T \subseteq S \ {a}
          BY <3>1, <3>2
        <5> QED BY <3>3, <5>1, Removed
      <4> QED BY <1>6, <3>3, <4>1
    <3> QED BY <1>1, <1>4, <2>2, <3>4 DEF CountedAt
  <2> QED BY <2>1, <2>2
<1>12. Counted(With(O, t, q))'
  BY <1>11, CountedEverywhere
<1>13. Shown(With(O, t, q))'
  <2>1. ASSUME NEW e \in current, e[2] = t PROVE FALSE
    <3>1. <<"shown", e[1], t>> \in O[t]
      BY <2>1 DEF Justified, Shown
    <3>2. <<"shown", e[1], t>> \in u
      BY <1>2, <3>1, WeakerLasting, LastingKinds
    <3>3. <<"shown", e[1], t>>[1] = "shown"
      OBVIOUS
    <3> QED BY <1>3, <3>2, <3>3
  <2> QED BY <1>1, <2>1, ShownKept DEF Justified
<1> QED BY <1>1, <1>2, <1>14, <1>8, <1>9, <1>12, <1>13, StepJustified

LEMMA DestroyJustified ==
  ASSUME LockInv, LockInv', UseTypes, NEW O, Justified(O), NEW t \in Threads, OthersStay(t), UNCHANGED opened,
         Destroy(t)
  PROVE  UseInv'
<1>0. PICK x : x = Arg(t)
  OBVIOUS
<1> DEFINE f == <<"unused", x, "file">>
<1>1. /\ Busy(t) /\ Op(t) = "destroy" /\ GoesHolding(t, << >>, holder)
      /\ live' = live \ {x} /\ UNCHANGED <<use, queue, current>>
  BY <1>0 DEF Destroy, Ready, Goes
<1>2. PICK u, q : /\ Weaker(u, O[t]) /\ Covers(Next1(t), u) /\ Turns(Next1(t), u, q)
                  /\ Covered(<< >> \o Tail(todo[t]), q, Owes(t))
                  /\ \A e \in u : Means(t, e) /\ (e[1] \in Passing => e[3] \in HeldBy(t))
  BY <1>1, KnownBefore
<1>3. f \in u /\ q = {e \in u : e[1] = "live" => e[2] # x}
  BY <1>0, <1>1, <1>2 DEF Turns, Op, Arg
<1>4. {"metadata", "file"} \subseteq HeldBy(t)
  BY <1>1, NextInOrder
<1>5. x \in Files => use[x] = 0
  <2>1. f[1] = "unused" /\ f[2] = x /\ f[3] = "file"
    OBVIOUS
  <2> HIDE DEF f
  <2> QED BY <1>2, <1>3, <2>1 DEF Means
<1> HIDE DEF f
<1>6. UseTypes'
  BY <1>1 DEF UseTypes
<1>8. ASSUME NEW e \in q PROVE Means(t, e)' /\ (e[1] \in Passing => e[3] \in Mutexes /\ holder[e[3]] = t)
  BY <1>1, <1>2, <1>3 DEF Means, HeldBy
<1>9. ASSUME NEW v \in Threads \ {t}, NEW e \in O[v] PROVE Means(v, e)'
  <2>1. Means(v, e) /\ (e[1] \in Passing => e[3] \in HeldBy(v))
    BY DEF Justified, True
  <2>2. ~ (e[1] = "live" /\ e[3] \in {"metadata", "file"})
    BY <1>4, <2>1, Kinds DEF HeldBy
  <2> QED BY <1>1, <2>1, <2>2 DEF Means
<1>10. SameLasting(q, O[t])
  <2>1. Weaker(q, u)
    <3>1. "live" \in Passing
      BY Kinds
    <3> QED BY <1>3, <3>1 DEF Weaker
  <2>2. Weaker(q, O[t])
    BY <1>2, <2>1, WeakerTwice
  <2> QED BY <2>2, WeakerLasting
<1>11. ASSUME NEW y \in Files PROVE CountedAt(With(O, t, q), y)'
  <2>0. \A n : <<"use", y, n>> \in q => <<"use", y, n>> \in O[t]
    BY <1>10, LastingKinds
  <2>1. CASE y # x
    BY <1>1, <2>0, <2>1, CountedElsewhere DEF Justified
  <2>2. CASE y = x
    <3> DEFINE S == Owners(O, x)
               T == Owners(With(O, t, q), x)'
    <3>1. T \subseteq S
      BY <1>1, <2>0, <2>2, OwnersFewer
    <3>2. IsFiniteSet(S) /\ Cardinality(S) <= 0
      BY <1>5, <2>2 DEF Justified, Counted
    <3>3. S = {}
      <4> HIDE DEF S
      <4>1. Cardinality(S) \in Nat
        BY <3>2, FS_CardinalityType
      <4> QED BY <3>2, <4>1, FS_EmptySet
    <3>4. IsFiniteSet(T) /\ Cardinality(T) = 0 /\ T = {}
      <4> HIDE DEF S, T
      <4> QED BY <3>1, <3>3, FS_EmptySet
    <3> QED BY <1>1, <1>5, <2>2, <3>4 DEF CountedAt
  <2> QED BY <2>1, <2>2
<1>12. Counted(With(O, t, q))'
  BY <1>11, CountedEverywhere
<1>13. Shown(With(O, t, q))'
  <2>1. ASSUME NEW e \in current, e[2] = t PROVE <<"shown", e[1], t>> \in q /\ Kept(e[1]) \in q
    BY <1>10, <2>1, LastingKinds DEF Justified, Shown
  <2> QED BY <1>1, <2>1, ShownKept DEF Justified
<1> QED BY <1>1, <1>2, <1>6, <1>8, <1>9, <1>12, <1>13, StepJustified

(* What only adds to the queue or to the current transfers leaves every fact true. *)
LEMMA QueueFileJustified ==
  ASSUME LockInv, LockInv', UseTypes, NEW O, Justified(O), NEW t \in Threads, OthersStay(t), UNCHANGED opened,
         QueueFile(t)
  PROVE  UseInv'
<1>0. PICK x, n : x = Arg(t) /\ n = Next1(t)[3]
  OBVIOUS
<1>1. /\ Busy(t) /\ Op(t) = "ask" /\ GoesHolding(t, << >>, holder) /\ UNCHANGED <<live, use, current>>
      /\ queue' = queue \/ queue' = queue \cup {<<x, n>>}
  BY <1>0 DEF QueueFile, Ready, Goes
<1>2. PICK u, q : /\ Weaker(u, O[t]) /\ Turns(Next1(t), u, q)
                  /\ Covered(<< >> \o Tail(todo[t]), q, Owes(t))
                  /\ \A e \in u : Means(t, e) /\ (e[1] \in Passing => e[3] \in HeldBy(t))
  BY <1>1, KnownBefore
<1>3. Spare(x) \in u /\ <<x, n>> \in Transferable /\ q = u \ {Spare(x)}
  BY <1>0, <1>1, <1>2 DEF Turns, Op, Arg
<1>4. x \in Files /\ x \in live /\ use[x] # 0 /\ <<"thread", t, "spare">> \in Owners(O, x)
  <2>1. Spare(x) \in O[t] /\ Means(t, Spare(x))
    BY <1>2, <1>3 DEF Weaker
  <2>2. x \in Files
    BY <2>1, Kinds DEF Means
  <2> QED BY <2>1, <2>2, OwnersLive DEF Spare
<1>5. UseTypes'
  BY <1>1, <1>3 DEF UseTypes
<1>6. ASSUME NEW v, NEW e, Means(v, e) PROVE Means(v, e)'
  BY <1>1, <1>6 DEF Means
<1>7. \A e \in q : Means(t, e)' /\ (e[1] \in Passing => e[3] \in Mutexes /\ holder[e[3]] = t)
  BY <1>2, <1>3, <1>6 DEF HeldBy
<1>8. \A v \in Threads \ {t} : \A e \in O[v] : Means(v, e)'
  BY <1>6 DEF Justified, True
<1>9. \A z, k : <<"use", z, k>> \in q => <<"use", z, k>> \in O[t] /\ <<"use", z, k>> # Spare(x)
  BY <1>2, <1>3 DEF Weaker
<1>10. ASSUME NEW y \in Files PROVE CountedAt(With(O, t, q), y)'
  <2>1. CASE y # x
    <3>1. \A v \in Transfers : <<y, v>> \in queue' => <<y, v>> \in queue
      BY <1>1, <2>1
    <3> QED BY <1>1, <1>9, <3>1, CountedElsewhere DEF Justified
  <2>2. CASE y = x
    <3> DEFINE S == Owners(O, x)
               T == Owners(With(O, t, q), x)'
               a == <<"thread", t, "spare">>
               b == <<"queue", n, "none">>
    <3>1. ASSUME NEW z \in T PROVE z \in (S \ {a}) \cup {b}
      <4>0. a[1] = "thread" /\ a[2] = t /\ a[3] = "spare"
        OBVIOUS
      <4>1. CASE z = <<"thread", t, z[3]>> /\ z[3] \in {"kept", "spare"} /\ <<"use", x, z[3]>> \in q
        <5>1. z \in S
          BY <1>4, <1>9, <4>1, OwnersLive
        <5>2. z[3] # "spare"
          BY <1>9, <4>1, UseNames
        <5> QED BY <5>1, <5>2
      <4>2. CASE z \in S /\ z[2] # t
        BY <4>0, <4>2
      <4>3. CASE z = <<"queue", z[2], "none">> /\ z[2] \in Transfers /\ <<x, z[2]>> \in queue'
        <5>1. CASE <<x, z[2]>> \in queue
          <6>1. z \in {"queue"} \X Transfers \X {"none"}
            BY <4>3
          <6>2. z \in S
            BY <5>1, <6>1 DEF Owners
          <6>3. z[1] = "queue"
            BY <4>3
          <6> HIDE DEF S, T, b
          <6> QED BY <4>0, <6>2, <6>3
        <5>2. CASE <<x, z[2]>> \notin queue
          <6>1. z[2] = n
            BY <1>1, <4>3, <5>2
          <6> QED BY <4>3, <6>1
        <5> QED BY <5>1, <5>2
      <4>4. \/ z = <<"thread", t, z[3]>> /\ z[3] \in {"kept", "spare"} /\ <<"use", x, z[3]>> \in q
            \/ z \in Owners(O, x) /\ z[2] # t /\ z[1] = "thread"
            \/ z = <<"queue", z[2], "none">> /\ z[2] \in Transfers /\ <<x, z[2]>> \in queue'
        <5> HIDE DEF a, b
        <5> QED BY OwnersWith
      <4> HIDE DEF T, a, b
      <4> QED BY <4>1, <4>2, <4>3, <4>4
    <3>2. IsFiniteSet(S) /\ Cardinality(S) <= use[x] /\ a \in S /\ use[x] \in Nat
      BY <1>4 DEF Justified, Counted, UseTypes
    <3>3. IsFiniteSet(T) /\ Cardinality(T) <= use'[x]
      <4> HIDE DEF S, T, a, b
      <4>1. IsFiniteSet(T) /\ Cardinality(T) <= Cardinality(S) /\ Cardinality(T) \in Nat /\ Cardinality(S) \in Nat
        <5>1. T \subseteq (S \ {a}) \cup {b}
          BY <3>1
        <5> QED BY <3>2, <5>1, Swapped
      <4> QED BY <1>1, <3>2, <4>1
    <3> QED BY <1>1, <1>4, <2>2, <3>3 DEF CountedAt
  <2> QED BY <2>1, <2>2
<1>11. Counted(With(O, t, q))'
  BY <1>10, CountedEverywhere
<1>12. Shown(With(O, t, q))'
  <2>1. ASSUME NEW e \in current, e[2] = t PROVE <<"shown", e[1], t>> \in q /\ Kept(e[1]) \in q
    <3>1. <<"shown", e[1], t>> \in u /\ Kept(e[1]) \in u
      <4>1. <<"shown", e[1], t>> \in O[t] /\ Kept(e[1]) \in O[t]
        BY <2>1 DEF Justified, Shown
      <4> QED BY <1>2, <4>1, WeakerLasting, LastingKinds
    <3>2. <<"shown", e[1], t>> # Spare(x) /\ Kept(e[1]) # Spare(x)
      <4>1. <<"shown", e[1], t>>[1] = "shown" /\ Spare(x)[1] = "use" /\ Kept(e[1])[3] = "kept" /\ Spare(x)[3] = "spare"
        BY DEF Kept, Spare
      <4> QED BY <4>1
    <3> QED BY <1>3, <3>1, <3>2
  <2> QED BY <1>1, <2>1, ShownKept DEF Justified
<1> QED BY <1>1, <1>2, <1>5, <1>7, <1>8, <1>11, <1>12, StepJustified

(* What a transfer thread takes from the queue is its own. *)
LEMMA TakeJustified ==
  ASSUME LockInv, LockInv', UseTypes, NEW O, Justified(O), NEW t \in Threads, OthersStay(t), UNCHANGED opened,
         Ready(t, "take"), queue' = queue \ {Tail(Next1(t))}, Goes(t, << >>), UNCHANGED <<live, use, current>>
  PROVE  UseInv'
<1>0. PICK x, n : x = Next1(t)[2] /\ n = Next1(t)[3]
  OBVIOUS
<1>1. Busy(t) /\ Op(t) = "take" /\ GoesHolding(t, << >>, holder)
  BY DEF Ready, Goes
<1>2. PICK u, q : /\ Weaker(u, O[t]) /\ Covers(Next1(t), u) /\ Turns(Next1(t), u, q)
                  /\ Covered(<< >> \o Tail(todo[t]), q, Owes(t))
                  /\ \A e \in u : Means(t, e) /\ (e[1] \in Passing => e[3] \in HeldBy(t))
  BY <1>1, KnownBefore
<1>3. /\ <<"queued", x, n>> \in u
      /\ q = {e \in u : e[1] # "queued"} \cup {<<"taken", x, n>>, Kept(x)}
      /\ queue' = queue \ {<<x, n>>}
  BY <1>0, <1>1, <1>2 DEF Turns, Covers, Op
<1>4. n = t /\ <<x, t>> \in Transferable /\ <<x, t>> \in queue
  <2> DEFINE f == <<"queued", x, n>>
  <2>1. f[1] = "queued" /\ f[2] = x /\ f[3] = n
    OBVIOUS
  <2> HIDE DEF f
  <2>2. Means(t, f)
    BY <1>2, <1>3 DEF f
  <2> QED BY <2>1, <2>2 DEF Means
<1>5. x \in Files /\ t \in Transfers
  BY <1>4 DEF Transferable, Files, Transfers
<1>6. UseTypes'
  BY <1>3 DEF UseTypes
<1>7. ASSUME NEW e \in q PROVE Means(t, e)' /\ (e[1] \in Passing => e[3] \in Mutexes /\ holder[e[3]] = t)
  <2>1. CASE e \in u /\ e[1] # "queued"
    BY <1>2, <2>1 DEF Means, HeldBy
  <2>2. CASE e = <<"taken", x, n>>
    <3>1. e[1] = "taken" /\ e[2] = x /\ e[3] = t
      BY <1>4, <2>2
    <3> QED BY <1>4, <3>1, Kinds DEF Means
  <2>3. CASE e = Kept(x)
    <3>1. e[1] = "use" /\ e[2] = x
      BY <2>3, Kinds
    <3> QED BY <1>5, <3>1, Kinds DEF Means
  <2> QED BY <1>3, <2>1, <2>2, <2>3
<1>8. ASSUME NEW v \in Threads \ {t}, NEW e \in O[v] PROVE Means(v, e)'
  <2>1. Means(v, e)
    BY DEF Justified, True
  <2>2. <<e[2], v>> # <<x, n>>
    BY <1>4
  <2> QED BY <1>3, <2>1, <2>2 DEF Means
<1>9. \A z, k : <<"use", z, k>> \in q => <<"use", z, k>> \in O[t] \/ <<"use", z, k>> = Kept(x)
  <2>1. \A z, k : <<"use", z, k>> # <<"taken", x, n>>
    OBVIOUS
  <2> QED BY <1>2, <1>3, <2>1 DEF Weaker
<1>10. ASSUME NEW y \in Files PROVE CountedAt(With(O, t, q), y)'
  <2>1. CASE y # x
    <3>1. \A k : <<"use", y, k>> \in q => <<"use", y, k>> \in O[t]
      BY <1>9, <2>1, UseNames
    <3>2. \A v \in Transfers : <<y, v>> \in queue' => <<y, v>> \in queue
      BY <1>3
    <3> QED BY <3>1, <3>2, CountedElsewhere DEF Justified
  <2>2. CASE y = x
    <3> DEFINE S == Owners(O, x)
               T == Owners(With(O, t, q), x)'
               a == <<"queue", t, "none">>
               b == <<"thread", t, "kept">>
    <3>0. a \in S /\ a[1] = "queue" /\ a[2] = t
      <4>1. a \in {"queue"} \X Transfers \X {"none"} /\ a[2] = t /\ a[1] = "queue"
        BY <1>5
      <4> HIDE DEF a
      <4> QED BY <1>4, <4>1 DEF Owners
    <3>1. ASSUME NEW z \in T PROVE z \in (S \ {a}) \cup {b}
      <4>1. CASE z = <<"thread", t, z[3]>> /\ z[3] \in {"kept", "spare"} /\ <<"use", x, z[3]>> \in q
        <5>1. CASE z[3] = "kept"
          BY <4>1, <5>1
        <5>2. CASE z[3] # "kept"
          <6>1. <<"use", x, z[3]>> \in O[t]
            BY <1>9, <4>1, <5>2, UseNames
          <6>2. z \in S
            BY <1>5, <4>1, <6>1, OwnersLive
          <6> QED BY <4>1, <6>2
        <5> QED BY <5>1, <5>2
      <4>2. CASE z \in S /\ z[1] = "thread"
        BY <4>2
      <4>3. CASE z = <<"queue", z[2], "none">> /\ z[2] \in Transfers /\ <<x, z[2]>> \in queue'
        <5>1. <<x, z[2]>> \in queue /\ z[2] # t
          BY <1>3, <1>4, <4>3
        <5>2. z \in {"queue"} \X Transfers \X {"none"}
          BY <4>3
        <5>3. z \in S
          BY <5>1, <5>2 DEF Owners
        <5> HIDE DEF S, T, a, b
        <5> QED BY <3>0, <5>1, <5>3
      <4>4. \/ z = <<"thread", t, z[3]>> /\ z[3] \in {"kept", "spare"} /\ <<"use", x, z[3]>> \in q
            \/ z \in Owners(O, x) /\ z[2] # t /\ z[1] = "thread"
            \/ z = <<"queue", z[2], "none">> /\ z[2] \in Transfers /\ <<x, z[2]>> \in queue'
        <5> HIDE DEF a, b
        <5> QED BY OwnersWith
      <4> HIDE DEF T, a, b
      <4> QED BY <4>1, <4>2, <4>3, <4>4
    <3>2. IsFiniteSet(S) /\ Cardinality(S) <= use[x] /\ use[x] \in Nat /\ x \in live
      BY <1>5, <3>0 DEF Justified, Counted, UseTypes
    <3>3. IsFiniteSet(T) /\ Cardinality(T) <= use'[x]
      <4> HIDE DEF S, T, a, b
      <4>1. IsFiniteSet(T) /\ Cardinality(T) <= Cardinality(S) /\ Cardinality(T) \in Nat /\ Cardinality(S) \in Nat
        <5>1. T \subseteq (S \ {a}) \cup {b}
          BY <3>1
        <5> QED BY <3>0, <3>2, <5>1, Swapped
      <4> QED BY <3>2, <4>1
    <3> QED BY <2>2, <3>2, <3>3 DEF CountedAt
  <2> QED BY <2>1, <2>2
<1>11. Counted(With(O, t, q))'
  BY <1>10, CountedEverywhere
<1>12. Shown(With(O, t, q))'
  <2>1. ASSUME NEW e \in current, e[2] = t PROVE <<"shown", e[1], t>> \in q /\ Kept(e[1]) \in q
    <3>1. <<"shown", e[1], t>> \in u /\ Kept(e[1]) \in u
      <4>1. <<"shown", e[1], t>> \in O[t] /\ Kept(e[1]) \in O[t]
        BY <2>1 DEF Justified, Shown
      <4> QED BY <1>2, <4>1, WeakerLasting, LastingKinds
    <3>2. <<"shown", e[1], t>>[1] = "shown" /\ Kept(e[1])[1] = "use"
      BY Kinds
    <3> QED BY <1>3, <3>1, <3>2
  <2> QED BY <2>1, ShownKept DEF Justified
<1> QED BY <1>1, <1>2, <1>6, <1>7, <1>8, <1>11, <1>12, StepJustified

LEMMA PublishedJustified ==
  ASSUME LockInv, LockInv', UseTypes, NEW O, Justified(O), NEW t \in Threads, OthersStay(t), UNCHANGED opened,
         Ready(t, "publish"), current' = current \cup {Tail(Next1(t))}, Goes(t, << >>), UNCHANGED <<live, use, queue>>
  PROVE  UseInv'
<1>0. PICK x, n : x = Next1(t)[2] /\ n = Next1(t)[3]
  OBVIOUS
<1>1. Busy(t) /\ Op(t) = "publish" /\ GoesHolding(t, << >>, holder)
  BY DEF Ready, Goes
<1>2. PICK u, q : /\ Weaker(u, O[t]) /\ Covers(Next1(t), u) /\ Turns(Next1(t), u, q)
                  /\ Covered(<< >> \o Tail(todo[t]), q, Owes(t))
                  /\ \A e \in u : Means(t, e) /\ (e[1] \in Passing => e[3] \in HeldBy(t))
  BY <1>1, KnownBefore
<1>3. /\ <<"taken", x, n>> \in u /\ Kept(x) \in u
      /\ q = u \cup {<<"shown", x, n>>}
      /\ current' = current \cup {<<x, n>>}
  BY <1>0, <1>1, <1>2 DEF Turns, Covers, Op
<1>4. n = t /\ <<x, t>> \in Transferable
  <2> DEFINE f == <<"taken", x, n>>
  <2>1. f[1] = "taken" /\ f[2] = x /\ f[3] = n
    OBVIOUS
  <2> HIDE DEF f
  <2>2. Means(t, f)
    BY <1>2, <1>3 DEF f
  <2> QED BY <2>1, <2>2 DEF Means
<1>5. UseTypes'
  BY <1>3, <1>4 DEF UseTypes
<1>6. ASSUME NEW v, NEW e, Means(v, e) PROVE Means(v, e)'
  BY <1>3, <1>6 DEF Means
<1>7. ASSUME NEW e \in q PROVE Means(t, e)' /\ (e[1] \in Passing => e[3] \in Mutexes /\ holder[e[3]] = t)
  <2>1. CASE e \in u
    BY <1>2, <1>6, <2>1 DEF HeldBy
  <2>2. CASE e = <<"shown", x, n>>
    <3>1. e[1] = "shown"
      BY <2>2
    <3> QED BY <3>1, Kinds DEF Means
  <2> QED BY <1>3, <2>1, <2>2
<1>8. \A v \in Threads \ {t} : \A e \in O[v] : Means(v, e)'
  BY <1>6 DEF Justified, True
<1>9. \A z, k : <<"use", z, k>> \in q => <<"use", z, k>> \in O[t]
  <2>1. \A z, k : <<"use", z, k>> # <<"shown", x, n>>
    OBVIOUS
  <2> QED BY <1>2, <1>3, <2>1 DEF Weaker
<1>10. ASSUME NEW y \in Files PROVE CountedAt(With(O, t, q), y)'
  BY <1>9, CountedElsewhere DEF Justified
<1>11. Counted(With(O, t, q))'
  BY <1>10, CountedEverywhere
<1>12. Shown(With(O, t, q))'
  <2>1. ASSUME NEW e \in current'
        PROVE  e[2] \in Threads /\ <<"shown", e[1], e[2]>> \in With(O, t, q)[e[2]] /\ Kept(e[1]) \in With(O, t, q)[e[2]]
    <3>1. CASE e \in current
      <4>1. e[2] \in Threads /\ <<"shown", e[1], e[2]>> \in O[e[2]] /\ Kept(e[1]) \in O[e[2]]
        BY <3>1 DEF Justified, Shown
      <4>2. CASE e[2] = t
        <5>1. <<"shown", e[1], t>> \in u /\ Kept(e[1]) \in u
          BY <1>2, <4>1, <4>2, WeakerLasting, LastingKinds
        <5> QED BY <1>3, <4>2, <5>1 DEF With
      <4>3. CASE e[2] # t
        BY <4>1, <4>3 DEF With
      <4> QED BY <4>2, <4>3
    <3>2. CASE e = <<x, n>>
      <4>1. e[1] = x /\ e[2] = t
        BY <1>4, <3>2
      <4> QED BY <1>3, <1>4, <4>1 DEF With
    <3> QED BY <1>3, <3>1, <3>2
  <2> QED BY <2>1 DEF Shown
<1> QED BY <1>1, <1>2, <1>5, <1>7, <1>8, <1>11, <1>12, StepJustified

(* No thread that found a transfer, and still holds the transfer mutex, is disturbed. *)
LEMMA RetractJustified ==
  ASSUME LockInv, LockInv', UseTypes, NEW O, Justified(O), NEW t \in Threads, OthersStay(t), UNCHANGED opened,
         Ready(t, "retract"), current' = {e \in current : e[2] # t}, Goes(t, << >>), UNCHANGED <<live, use, queue>>
  PROVE  UseInv'
<1>1. Busy(t) /\ Op(t) = "retract" /\ GoesHolding(t, << >>, holder) /\ holder["transfer"] = NONE
  BY DEF Ready, Goes, Needs
<1>2. PICK u, q : /\ Weaker(u, O[t]) /\ Turns(Next1(t), u, q)
                  /\ Covered(<< >> \o Tail(todo[t]), q, Owes(t))
                  /\ \A e \in u : Means(t, e) /\ (e[1] \in Passing => e[3] \in HeldBy(t))
  BY <1>1, KnownBefore
<1>3. q = {e \in u : e[1] \notin {"taken", "shown"}}
  BY <1>1, <1>2 DEF Turns, Op
<1>4. UseTypes'
  BY DEF UseTypes
<1>5. ASSUME NEW v \in Threads, NEW e, Means(v, e), e[1] \in Passing => e[3] \in HeldBy(v) PROVE Means(v, e)'
  <2>1. ~ (e[1] = "current" /\ e[3] = "transfer")
    BY <1>1, <1>5, ClientsAssumption, Kinds DEF HeldBy
  <2> QED BY <1>5, <2>1 DEF Means
<1>6. \A e \in q : Means(t, e)' /\ (e[1] \in Passing => e[3] \in Mutexes /\ holder[e[3]] = t)
  BY <1>2, <1>3, <1>5 DEF HeldBy
<1>7. \A v \in Threads \ {t} : \A e \in O[v] : Means(v, e)'
  BY <1>5 DEF Justified, True
<1>8. \A z, k : <<"use", z, k>> \in q => <<"use", z, k>> \in O[t]
  BY <1>2, <1>3 DEF Weaker
<1>9. ASSUME NEW y \in Files PROVE CountedAt(With(O, t, q), y)'
  BY <1>8, CountedElsewhere DEF Justified
<1>10. Counted(With(O, t, q))'
  BY <1>9, CountedEverywhere
<1>11. Shown(With(O, t, q))'
  BY ShownKept DEF Justified
<1> QED BY <1>1, <1>2, <1>4, <1>6, <1>7, <1>10, <1>11, StepJustified

LEMMA StepUse ==
  ASSUME LockInv, UseInv, NEW t \in Threads, Step(t)
  PROVE  UseInv'
<1>1. LockInv' /\ OthersStay(t) /\ UNCHANGED opened
  BY StepInOrder DEF Step
<1>2. PICK O : UseTypes /\ Justified(O)
  BY DEF UseInv
<1>3. CASE Publish(t)
  <2>1. UNCHANGED <<live, use>> /\ Goes(t, << >>)
    BY <1>3 DEF Publish
  <2>2. CASE Ready(t, "take") /\ queue' = queue \ {Tail(Next1(t))} /\ UNCHANGED current
    BY <1>1, <1>2, <2>1, <2>2, TakeJustified
  <2>3. CASE Ready(t, "publish") /\ current' = current \cup {Tail(Next1(t))} /\ UNCHANGED queue
    BY <1>1, <1>2, <2>1, <2>3, PublishedJustified
  <2>4. CASE Ready(t, "retract") /\ current' = {e \in current : e[2] # t} /\ UNCHANGED queue
    BY <1>1, <1>2, <2>1, <2>4, RetractJustified
  <2> QED BY <1>3, <2>2, <2>3, <2>4 DEF Publish
<1>4. CASE Section(t) \/ Alone(t)
  BY <1>1, <1>2, <1>4, PlainStepJustified
<1>5. CASE Acquire(t)
  BY <1>1, <1>2, <1>5, AcquireJustified
<1>6. CASE Branch(t)
  BY <1>1, <1>2, <1>6, BranchJustified
<1>7. CASE Get(t)
  BY <1>1, <1>2, <1>7, GetJustified
<1>8. CASE Unuse(t)
  BY <1>1, <1>2, <1>8, UnuseJustified
<1>9. CASE Destroy(t)
  BY <1>1, <1>2, <1>9, DestroyJustified
<1>10. CASE QueueFile(t)
  BY <1>1, <1>2, <1>10, QueueFileJustified
<1> QED BY <1>3, <1>4, <1>5, <1>6, <1>7, <1>8, <1>9, <1>10 DEF Step

------------------------------------------------------------------------------------
(* A call, or a period of a thread, begins with what its thread owes.              *)

LEMMA StartsJustified ==
  ASSUME LockInv, UseTypes, NEW O, Justified(O), NEW t \in Threads, NEW s, NEW r, Starts(t, s),
         UNCHANGED <<holder, live, use, queue, current>>,
         Covered(s, r, Owes(t)'), \A v \in Threads \ {t} : Owes(v)' = Owes(v),
         \A e \in r : e \in Owes(t) \/ (e[1] = "queued" /\ Means(t, e))
  PROVE  UseInv'
<1>1. todo[t] = << >> /\ todo'[t] = s /\ \A v \in Threads \ {t} : todo'[v] = todo[v]
  BY DEF Starts, LockInv
<1>2. Weaker(Owes(t), O[t])
  BY <1>1, CoveredEnd DEF Justified
<1> DEFINE P == With(O, t, r)
<1>3. P = [v \in Threads |-> P[v]] /\ P[t] = r /\ \A v \in Threads \ {t} : P[v] = O[v]
  BY DEF With
<1>4. \A v, e : Means(v, e)' = Means(v, e)
  BY DEF Means
<1>5. \A v \in Threads : HeldBy(v)' = HeldBy(v)
  BY DEF HeldBy
<1>6. \A e \in Owes(t) : e[1] = "use" /\ e \in O[t]
  BY <1>2, Kinds DEF Owes, Weaker
<1>7. ASSUME NEW e \in r PROVE Means(t, e)' /\ (e[1] \in Passing => e[3] \in HeldBy(t)')
  <2>1. CASE e \in Owes(t)
    BY <1>4, <1>6, <2>1, Kinds DEF Justified, True
  <2>2. CASE e[1] = "queued" /\ Means(t, e)
    BY <1>4, <2>2, Kinds
  <2> QED BY <2>1, <2>2
<1>8. True(P)'
  <2>1. ASSUME NEW v \in Threads, NEW e \in P[v]
        PROVE  Means(v, e)' /\ (e[1] \in Passing => e[3] \in HeldBy(v)')
    <3>1. CASE v = t
      BY <1>3, <1>7, <2>1, <3>1
    <3>2. CASE v # t
      <4>1. e \in O[v]
        BY <1>3, <2>1, <3>2
      <4> QED BY <1>4, <1>5, <4>1 DEF Justified, True
    <3> QED BY <3>1, <3>2
  <2> HIDE DEF P
  <2> QED BY <1>3, <2>1 DEF True
<1>9. Shown(P)'
  <2>1. ASSUME NEW e \in current, e[2] = t PROVE FALSE
    <3>1. <<"shown", e[1], t>> \in O[t]
      BY <2>1 DEF Justified, Shown
    <3>2. <<"shown", e[1], t>> \in Owes(t)
      BY <1>2, <3>1, WeakerLasting, LastingKinds
    <3>3. <<"shown", e[1], t>>[1] = "shown"
      OBVIOUS
    <3> QED BY <1>6, <3>2, <3>3
  <2> QED BY <2>1, ShownKept DEF Justified
<1>10. Counted(P)'
  <2>1. ASSUME NEW x, NEW n, <<"use", x, n>> \in r PROVE <<"use", x, n>> \in O[t]
    <3>1. <<"use", x, n>>[1] = "use"
      OBVIOUS
    <3> QED BY <1>6, <2>1, <3>1
  <2>2. ASSUME NEW x \in Files PROVE CountedAt(P, x)'
    BY <2>1, CountedElsewhere DEF Justified
  <2> HIDE DEF P
  <2> QED BY <2>2, CountedEverywhere
<1>11. ASSUME NEW v \in Threads PROVE Covered(todo'[v], P[v], Owes(v)')
  <2>1. CASE v = t
    BY <1>1, <1>3, <2>1
  <2>2. CASE v # t
    <3>1. todo'[v] = todo[v] /\ P[v] = O[v] /\ Owes(v)' = Owes(v)
      BY <1>1, <1>3, <2>2
    <3>2. Covered(todo[v], O[v], Owes(v))
      BY DEF Justified
    <3> QED BY <3>1, <3>2
  <2> QED BY <2>1, <2>2
<1> HIDE DEF P
<1>12. Justified(P)'
  BY <1>8, <1>9, <1>10, <1>11 DEF Justified
<1>13. UseTypes'
  BY DEF UseTypes
<1> QED BY <1>12, <1>13 DEF UseInv

LEMMA UseInvStep ==
  ASSUME LockInv, OpenedType, UseInv, [Next]_vars
  PROVE  UseInv'
<1>0. /\ Clients \subseteq Threads /\ Transfers \subseteq Threads /\ "ticker" \in Threads
      /\ Clients \cap Transfers = {} /\ "ticker" \notin Clients
  BY ClientsAssumption DEF Threads, Background
<1>1. PICK O : UseTypes /\ Justified(O)
  BY DEF UseInv
<1>2. ASSUME NEW t \in Threads \ Clients, NEW s, NEW r, Starts(t, s), Covered(s, r, {}),
             UNCHANGED <<holder, live, use, queue, current, opened>>,
             \A e \in r : e[1] = "queued" /\ Means(t, e)
      PROVE  UseInv'
  <2>1. \A v \in Threads : Owes(v)' = Owes(v)
    BY <1>2 DEF Owes
  <2>2. Owes(t) = {}
    BY DEF Owes
  <2> QED BY <1>1, <1>2, <2>1, <2>2, StartsJustified
<1>3. ASSUME NEW c \in Clients, NEW s, NEW r, Starts(c, s),
             UNCHANGED <<holder, live, use, queue, current>>, r = Owes(c),
             \A d \in Clients \ {c} : opened'[d] = opened[d], Covered(s, r, Owes(c)')
      PROVE  UseInv'
  <2>1. \A v \in Threads \ {c} : Owes(v)' = Owes(v)
    BY <1>3 DEF Owes
  <2>2. c \in Threads /\ \A e \in r : e \in Owes(c) \/ (e[1] = "queued" /\ Means(c, e))
    BY <1>0, <1>3
  <2> QED BY <1>1, <1>3, <2>1, <2>2, StartsJustified
<1>4. ASSUME NEW c \in Clients, Call(c) PROVE UseInv'
  <2>1. Owes(c) = {} /\ UNCHANGED <<holder, live, use, queue, current>>
    BY <1>4 DEF Call, Owes
  <2>2. ASSUME NEW n \in Calls, Starts(c, PathCalls[n]), UNCHANGED opened PROVE UseInv'
    <3>1. Owes(c)' = Owes(c)
      BY <2>2 DEF Owes
    <3> QED BY <1>3, <2>1, <2>2, <3>1, PathCallsCovered DEF Keeps
  <2>3. ASSUME NEW x \in {"f", "v"}, Starts(c, Open(x)), opened' = [opened EXCEPT ![c] = x] PROVE UseInv'
    <3>1. Owes(c)' = {Kept(x)} /\ \A d \in Clients \ {c} : opened'[d] = opened[d]
      BY <2>3 DEF Owes, OpenedType
    <3> QED BY <1>3, <2>1, <2>3, <3>1, OpenCovered
  <2> QED BY <1>4, <2>2, <2>3 DEF Call
<1>5. ASSUME NEW c \in Clients, CallIo(c) PROVE UseInv'
  <2>1. PICK x \in {"f", "v"} : x = opened[c]
    BY <1>5 DEF CallIo, OpenedType
  <2>2. /\ UNCHANGED <<holder, live, use, queue, current, opened>>
        /\ Starts(c, Read(x)) \/ Starts(c, Write(x))
    BY <1>5, <2>1 DEF CallIo
  <2>3. Owes(c) = {Kept(x)} /\ Owes(c)' = {Kept(x)}
    BY <2>1, <2>2 DEF Owes
  <2> QED BY <1>3, <2>2, <2>3, IoCovered DEF Keeps
<1>6. ASSUME NEW c \in Clients, CallRelease(c) PROVE UseInv'
  <2>1. PICK x \in {"f", "v"} : x = opened[c]
    BY <1>6 DEF CallRelease, OpenedType
  <2>2. /\ UNCHANGED <<holder, live, use, queue, current>> /\ Starts(c, Release(x))
        /\ opened' = [opened EXCEPT ![c] = "none"]
    BY <1>6, <2>1 DEF CallRelease
  <2>3. /\ Owes(c) = {Kept(x)} /\ Owes(c)' = {}
        /\ \A d \in Clients \ {c} : opened'[d] = opened[d]
    BY <2>1, <2>2 DEF Owes, OpenedType
  <2> QED BY <1>3, <2>2, <2>3, ReleaseCovered
<1>7. ASSUME NEW t \in Transfers, Wake(t) PROVE UseInv'
  <2>1. PICK x \in Files : <<x, t>> \in queue /\ Starts(t, TransferThread(x, t))
    BY <1>7 DEF Wake
  <2>2. UNCHANGED <<holder, live, use, queue, current, opened>>
    BY <1>7 DEF Wake
  <2>3. <<x, t>> \in Transferable
    BY <1>1, <2>1 DEF UseTypes
  <2> DEFINE e == <<"queued", x, t>>
  <2>4. e[1] = "queued" /\ e[2] = x /\ e[3] = t
    OBVIOUS
  <2> HIDE DEF e
  <2>5. Means(t, e)
    BY <2>1, <2>3, <2>4 DEF Means
  <2>6. Covered(TransferThread(x, t), {e}, {})
    BY <2>3, TransferThreadCovered DEF e
  <2> QED BY <1>0, <1>2, <2>1, <2>2, <2>4, <2>5, <2>6
<1>8. CASE StartTick
  BY <1>0, <1>2, <1>8, TickCovered DEF StartTick, Keeps
<1>9. CASE UNCHANGED vars \/ Finished
  <2>1. UNCHANGED vars
    BY <1>9 DEF Finished
  <2>2. /\ \A v, e : Means(v, e)' = Means(v, e)
        /\ \A v : HeldBy(v)' = HeldBy(v) /\ Owes(v)' = Owes(v)
        /\ \A P, x : Owners(P, x)' = Owners(P, x)
    BY <2>1 DEF vars, Means, HeldBy, Owes, Owners
  <2>3. True(O)' /\ Shown(O)' /\ Counted(O)' /\ UseTypes'
    BY <1>1, <2>1, <2>2 DEF vars, Justified, True, Shown, Counted, UseTypes
  <2>4. \A t \in Threads : Covered(todo'[t], O[t], Owes(t)')
    BY <1>1, <2>1, <2>2 DEF vars, Justified
  <2> QED BY <2>3, <2>4 DEF Justified, UseInv
<1> QED BY <1>4, <1>5, <1>6, <1>7, <1>8, <1>9, StepUse DEF Next

LEMMA UseInvInit == Init => UseInv
<1> SUFFICES ASSUME Init PROVE UseInv
  OBVIOUS
<1> DEFINE O == [t \in Threads |-> {}]
<1>1. UseTypes
  BY DEF Init, UseTypes
<1>2. O = [t \in Threads |-> O[t]] /\ \A t \in Threads : O[t] = {}
  OBVIOUS
<1> HIDE DEF O
<1>3. True(O) /\ Shown(O)
  BY <1>2 DEF Init, True, Shown
<1>4. \A x \in Files : Owners(O, x) = {} /\ use[x] = 0
  BY <1>2 DEF Init, Owners
<1>5. Counted(O)
  <2>1. IsFiniteSet({}) /\ Cardinality({}) = 0 /\ 0 <= 0
    BY FS_EmptySet
  <2> QED BY <1>4, <2>1 DEF Counted
<1>6. ASSUME NEW t \in Threads PROVE Covered(todo[t], O[t], Owes(t))
  <2>1. todo[t] = << >> /\ Owes(t) = {}
    BY DEF Init, Owes
  <2> QED BY <1>2, <2>1, CoveredEmpty, WeakerSame
<1> QED BY <1>1, <1>3, <1>5, <1>6 DEF UseInv, Justified

(* No mutex is locked after it was destroyed: whatever the calls and the threads do,
   the structure of a file that a thread is going to lock, or waits to lock, is
   there.                                                                          *)
THEOREM MutexesOutliveTheirUsersHolds == Spec => []MutexesOutliveTheirUsers
<1>1. Init => UseInv
  BY UseInvInit
<1>2. LockInv /\ OpenedType /\ UseInv /\ [Next]_vars => UseInv'
  BY UseInvStep
<1>3. UseInv => MutexesOutliveTheirUsers
  BY UseInvSuffices
<1> QED BY <1>1, <1>2, <1>3, LockInvHolds, PTL DEF Spec

(* The structure of a file that a client has open, or that waits in the transfer
   queue, is there, and its reference count says so.                              *)
UsersAreCounted ==
  /\ \A c \in Clients : opened[c] # "none" /\ ~Busy(c) => opened[c] \in live /\ use[opened[c]] > 0
  /\ \A e \in queue : e[1] \in live /\ use[e[1]] > 0

THEOREM UsersAreCountedHolds == Spec => []UsersAreCounted
<1>1. Init => UseInv
  BY UseInvInit
<1>2. LockInv /\ OpenedType /\ UseInv /\ [Next]_vars => UseInv'
  BY UseInvStep
<1>3. ASSUME OpenedType, UseInv PROVE UsersAreCounted
  <2>1. PICK O : UseTypes /\ Justified(O)
    BY <1>3 DEF UseInv
  <2>2. ASSUME NEW x \in Files, use[x] # 0 PROVE use[x] > 0
    BY <2>1, <2>2 DEF UseTypes
  <2>3. ASSUME NEW c \in Clients, opened[c] # "none", ~Busy(c)
        PROVE  opened[c] \in live /\ use[opened[c]] > 0
    <3>1. PICK x \in {"f", "v"} : x = opened[c]
      BY <1>3, <2>3 DEF OpenedType
    <3>2. todo[c] = << >> /\ Owes(c) = {Kept(x)} /\ c \in Threads
      BY <2>3, <3>1 DEF Busy, Owes, Threads
    <3>3. Weaker(Owes(c), O[c])
      BY <2>1, <3>2, CoveredEnd DEF Justified
    <3>4. x \in Files /\ Kept(x) \in O[c]
      BY <3>2, <3>3 DEF Weaker, Files
    <3> QED BY <2>1, <2>2, <3>1, <3>2, <3>4, OwnersLive DEF Kept
  <2>4. ASSUME NEW e \in queue PROVE e[1] \in live /\ use[e[1]] > 0
    <3>1. PICK x \in Files, t \in Transfers : e = <<x, t>>
      BY <2>1 DEF UseTypes, Transferable, Files, Transfers
    <3> DEFINE w == <<"queue", t, "none">>
    <3>2. w \in {"queue"} \X Transfers \X {"none"} /\ w[2] = t
      OBVIOUS
    <3> HIDE DEF w
    <3>3. w \in Owners(O, x)
      BY <2>4, <3>1, <3>2 DEF Owners
    <3>4. x \in live /\ IsFiniteSet(Owners(O, x)) /\ Cardinality(Owners(O, x)) <= use[x] /\ use[x] \in Nat
      BY <2>1, <3>3 DEF Justified, Counted, UseTypes
    <3>5. Cardinality(Owners(O, x)) \in Nat /\ Cardinality(Owners(O, x)) # 0
      BY <3>3, <3>4, FS_EmptySet, FS_CardinalityType
    <3> QED BY <3>1, <3>4, <3>5
  <2> QED BY <2>3, <2>4 DEF UsersAreCounted
<1> QED BY <1>1, <1>2, <1>3, LockInvHolds, PTL DEF Spec

================================================================================
