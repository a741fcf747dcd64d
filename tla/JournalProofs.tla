----------------------------- MODULE JournalProofs -----------------------------
(***************************************************************************)
(* Proofs about Journal, for any files, clients, transfer threads and      *)
(* bounds: its semaphores match the queue, and no open file in use is      *)
(* freed.                                                                  *)
(***************************************************************************)
EXTENDS Journal, FiniteSetTheorems, SequenceTheorems, WellFoundedInduction, TLAPS

Items == [mfile : Mfiles, type : Types]

(* Where a sequence has a member of S *)
Positions(q, S) == {i \in 1..Len(q) : q[i] \in S}
Of(m) == {e \in Items : e.mfile = m}
OfType(type) == {e \in Items : e.type = type}

-----------------------------------------------------------------------------
(* Counting *)

LEMMA PositionsFinite ==
  ASSUME NEW S, NEW q \in Seq(Items)
  PROVE  IsFiniteSet(Positions(q, S)) /\ Cardinality(Positions(q, S)) \in Nat
<1>1. IsFiniteSet(1..Len(q))
  BY FS_Interval
<1>2. IsFiniteSet(Positions(q, S))
  BY <1>1, FS_Subset DEF Positions
<1> QED BY <1>2, FS_CardinalityType

(* An entry that is appended is one more in every set it belongs to. *)
LEMMA PositionsAppend ==
  ASSUME NEW S, NEW q \in Seq(Items), NEW e \in Items
  PROVE  Cardinality(Positions(Append(q, e), S)) =
           Cardinality(Positions(q, S)) + (IF e \in S THEN 1 ELSE 0)
<1>1. Len(q) \in Nat /\ Len(Append(q, e)) = Len(q) + 1
  OBVIOUS
<1>2. \A i \in 1..Len(q) : Append(q, e)[i] = q[i]
  OBVIOUS
<1>3. Append(q, e)[Len(q) + 1] = e
  OBVIOUS
<1>4. Positions(Append(q, e), S) =
        IF e \in S THEN Positions(q, S) \cup {Len(q) + 1} ELSE Positions(q, S)
  BY <1>1, <1>2, <1>3 DEF Positions
<1>5. Len(q) + 1 \notin Positions(q, S)
  BY <1>1 DEF Positions
<1>6. Cardinality(Positions(q, S) \cup {Len(q) + 1}) = Cardinality(Positions(q, S)) + 1
  BY <1>5, PositionsFinite, FS_AddElement
<1> QED BY <1>4, <1>6, PositionsFinite

(* What is left of a sequence when its k-th entry is removed *)
LEMMA RemoveAtElements ==
  ASSUME NEW q \in Seq(Items), NEW k \in 1..Len(q)
  PROVE  /\ RemoveAt(q, k) \in Seq(Items)
         /\ Len(RemoveAt(q, k)) = Len(q) - 1
         /\ \A i \in 1..Len(q) - 1 : RemoveAt(q, k)[i] = IF i < k THEN q[i] ELSE q[i + 1]
<1> DEFINE a == SubSeq(q, 1, k - 1)
           b == SubSeq(q, k + 1, Len(q))
<1>1. Len(q) \in Nat /\ k \in Nat
  OBVIOUS
<1>2. a \in Seq(Items) /\ Len(a) = k - 1 /\ \A i \in 1..k - 1 : a[i] = q[i]
  BY <1>1
<1>3. b \in Seq(Items) /\ Len(b) = Len(q) - k /\ \A i \in 1..Len(q) - k : b[i] = q[k + i]
  BY <1>1
<1>4. a \o b \in Seq(Items) /\ Len(a \o b) = Len(q) - 1
  <2> HIDE DEF a, b
  <2>1. a \o b \in Seq(Items) /\ Len(a \o b) = Len(a) + Len(b)
    BY <1>2, <1>3, ConcatProperties
  <2> QED BY <1>1, <1>2, <1>3, <2>1
<1>5. ASSUME NEW i \in 1..Len(q) - 1
      PROVE  (a \o b)[i] = IF i < k THEN q[i] ELSE q[i + 1]
  <2> HIDE DEF a, b
  <2>1. (a \o b)[i] = IF i <= Len(a) THEN a[i] ELSE b[i - Len(a)]
    BY <1>1, <1>2, <1>3, ConcatProperties
  <2>2. CASE i < k
    BY <1>1, <1>2, <2>1, <2>2
  <2>3. CASE ~(i < k)
    <3>1. i - Len(a) \in 1..Len(q) - k /\ k + (i - Len(a)) = i + 1
      BY <1>1, <1>2, <2>3
    <3> QED BY <1>1, <1>2, <1>3, <2>1, <2>3, <3>1
  <2> QED BY <2>2, <2>3
<1> QED BY <1>4, <1>5 DEF RemoveAt

(* An entry that is removed is one less in every set it belongs to. *)
LEMMA PositionsRemove ==
  ASSUME NEW S, NEW q \in Seq(Items), NEW k \in 1..Len(q)
  PROVE  Cardinality(Positions(RemoveAt(q, k), S)) =
           Cardinality(Positions(q, S)) - (IF q[k] \in S THEN 1 ELSE 0)
<1> DEFINE A == Positions(q, S) \ {k}
           B == Positions(RemoveAt(q, k), S)
           f == [i \in A |-> IF i < k THEN i ELSE i - 1]
<1>1. Len(q) \in Nat /\ k \in Nat
  OBVIOUS
<1>2. B = {i \in 1..Len(q) - 1 : (IF i < k THEN q[i] ELSE q[i + 1]) \in S}
  BY RemoveAtElements DEF Positions
<1>3. f \in [A -> B]
  <2> SUFFICES ASSUME NEW i \in A PROVE f[i] \in B
    OBVIOUS
  <2>1. i \in 1..Len(q) /\ q[i] \in S /\ i # k
    BY DEF Positions
  <2>2. CASE i < k
    BY <1>1, <1>2, <2>1, <2>2
  <2>3. CASE i > k
    <3>1. f[i] = i - 1 /\ i - 1 \in 1..Len(q) - 1 /\ ~(i - 1 < k) /\ (i - 1) + 1 = i
      BY <1>1, <2>1, <2>3
    <3> QED BY <1>2, <2>1, <3>1
  <2> QED BY <1>1, <2>1, <2>2, <2>3
<1>4. \A i, j \in A : f[i] = f[j] => i = j
  BY <1>1 DEF Positions
<1>5. \A j \in B : \E i \in A : f[i] = j
  <2> SUFFICES ASSUME NEW j \in B PROVE \E i \in A : f[i] = j
    OBVIOUS
  <2>1. j \in 1..Len(q) - 1 /\ (IF j < k THEN q[j] ELSE q[j + 1]) \in S
    BY <1>2
  <2>2. CASE j < k
    <3>1. j \in A
      BY <1>1, <2>1, <2>2 DEF Positions
    <3> QED BY <2>2, <3>1
  <2>3. CASE ~(j < k)
    <3>1. j + 1 \in A
      BY <1>1, <2>1, <2>3 DEF Positions
    <3>2. f[j + 1] = j
      BY <1>1, <2>1, <2>3, <3>1
    <3> QED BY <3>1, <3>2
  <2> QED BY <2>2, <2>3
<1>6. ExistsBijection(A, B)
  BY <1>3, <1>4, <1>5 DEF ExistsBijection, Bijection, Injection, Surjection, IsInjective
<1>7. IsFiniteSet(A) /\ Cardinality(A) = Cardinality(Positions(q, S)) - (IF q[k] \in S THEN 1 ELSE 0)
  <2>1. k \in Positions(q, S) <=> q[k] \in S
    BY DEF Positions
  <2> QED BY <2>1, PositionsFinite, FS_RemoveElement
<1> QED BY <1>6, <1>7, FS_Bijection

-----------------------------------------------------------------------------
(* Types, and where each process is *)

MaybePaths == Paths \cup {None}
LooseEntries == [op : {"fsync", "update"}, path : MaybePaths]

(* TypeOK but for the paths that are read from an open file, which are paths
   only as long as the structure has not been freed. *)
FileTypes ==
  /\ exists \subseteq Paths /\ incache \subseteq MaybePaths
  /\ fh \in [Paths -> Mfiles \cup {NULL}]
  /\ path \in [Mfiles -> MaybePaths]
  /\ use \in [Mfiles -> Nat]
  /\ cache_status \in [Mfiles -> Statuses]
  /\ dirty \in [Mfiles -> BOOLEAN] /\ linked \in [Mfiles -> BOOLEAN]
QueueTypes ==
  /\ queue \in Seq(Items)
  /\ sem \in [Types -> Nat]
JournalTypes ==
  /\ journal \in Seq(LooseEntries) /\ todo \in Seq(LooseEntries)
  /\ jfile \in BOOLEAN /\ fsyncfile \in BOOLEAN /\ jlock \in BOOLEAN
  /\ action \in {"none", "update", "sync"}
  /\ total \in Nat /\ ok \in Nat /\ error \in Nat
  /\ apc \in {"idle", "next", "get", "queue", "post"}
  /\ apply_m \in Mfiles \cup {NULL} /\ applies \in Nat
ProcessTypes ==
  /\ cpc \in [Clients -> ClientLabels] /\ cpath \in [Clients -> MaybePaths]
  /\ handle \in [Clients -> Mfiles \cup {NULL}]
  /\ opens \in [Clients -> Nat] /\ loaded \in [Clients -> Nat]
  /\ tpc \in [Threads -> ThreadLabels] /\ success \in [Threads -> BOOLEAN]
  /\ cur \in [Threads -> Mfiles \cup {NULL}]

(* Who has a file, and which, by where it is *)
Waits(t) == tpc[t] \in {"sem_wait", "get_next"}
WithHandle == {"backfile", "use", "queue", "post", "append_fsync"}
WithPath == {"unlink_cache", "append_unlink", "append_mknod", "create_cache"}
Located ==
  /\ \A c \in Clients : cpc[c] \in WithHandle => handle[c] # NULL
  /\ \A c \in Clients : cpc[c] \in WithPath => cpath[c] \in Paths
  /\ \A t \in Threads : cur[t] = NULL <=> Waits(t)
  /\ apc = "queue" => apply_m # NULL
  /\ apc \in {"get", "queue", "post"} => todo # <<>>

Typing == FileTypes /\ QueueTypes /\ JournalTypes /\ ProcessTypes /\ Located

LEMMA NullIsNoFile == NULL \notin Mfiles
  BY MfilesAssumption DEF NULL

LEMMA TypingInit == Init => Typing
<1> SUFFICES ASSUME Init PROVE Typing
  OBVIOUS
<1> USE DEF Init
<1>1. FileTypes
  BY PathsAssumption DEF FileTypes, MaybePaths, Statuses
<1>2. QueueTypes
  BY DEF QueueTypes
<1>3. JournalTypes
  <2>1. journal \in Seq(LooseEntries) /\ todo \in Seq(LooseEntries)
    OBVIOUS
  <2>2. jfile \in BOOLEAN /\ fsyncfile \in BOOLEAN /\ jlock \in BOOLEAN
    OBVIOUS
  <2>3. total \in Nat /\ ok \in Nat /\ error \in Nat /\ applies \in Nat
    OBVIOUS
  <2> QED BY <2>1, <2>2, <2>3 DEF JournalTypes
<1>4. ProcessTypes
  BY DEF ProcessTypes, MaybePaths, ClientLabels, ThreadLabels
<1>5. Located
  BY DEF Located, Waits, WithHandle, WithPath
<1> QED BY <1>1, <1>2, <1>3, <1>4, <1>5 DEF Typing

LEMMA QueueFileType ==
  ASSUME queue \in Seq(Items), NEW m \in Mfiles, NEW type \in Types, QueueFile(m, type)
  PROVE  queue' \in Seq(Items)
<1>1. [mfile |-> m, type |-> type] \in Items
  BY DEF Items
<1> QED BY <1>1 DEF QueueFile

LEMMA FileidGetType ==
  ASSUME Typing, NEW p \in Paths, NEW m \in Mfiles, FileidGet(p, m),
         UNCHANGED <<exists, incache>>
  PROVE  FileTypes'
<1> USE DEF Typing, FileTypes, FileidGet
<1>1. CASE fh[p] # NULL
  <2>1. use' = [use EXCEPT ![m] = use[m] + 1] /\ use[m] + 1 \in Nat
    BY <1>1
  <2>2. use' \in [Mfiles -> Nat]
    BY <2>1
  <2> QED BY <1>1, <2>2
<1>2. CASE fh[p] = NULL
  <2>1. fh' \in [Paths -> Mfiles \cup {NULL}] /\ use' \in [Mfiles -> Nat]
    BY <1>2
  <2>2. path' \in [Mfiles -> MaybePaths] /\ cache_status' \in [Mfiles -> Statuses]
    BY <1>2 DEF MaybePaths, Statuses
  <2>3. dirty' \in [Mfiles -> BOOLEAN] /\ linked' \in [Mfiles -> BOOLEAN]
    BY <1>2
  <2> QED BY <2>1, <2>2, <2>3
<1> QED BY <1>1, <1>2

LEMMA FileReleaseType ==
  ASSUME Typing, NEW m \in Mfiles, FileRelease(m)
  PROVE  FileTypes'
<1>1. CASE use[m] > 1
  <2>1. use' = [use EXCEPT ![m] = use[m] - 1] /\ use[m] - 1 \in Nat
    BY <1>1 DEF Typing, FileTypes, FileRelease
  <2>2. UNCHANGED <<exists, incache, fh, path, cache_status, dirty, linked>>
    BY <1>1 DEF FileRelease
  <2> QED BY <2>1, <2>2 DEF Typing, FileTypes
<1>2. CASE ~(use[m] > 1)
  <2>1. /\ use' = [use EXCEPT ![m] = 0]
        /\ path' = [path EXCEPT ![m] = None]
        /\ linked' = [linked EXCEPT ![m] = FALSE]
        /\ fh' = fh \/ fh' = [fh EXCEPT ![path[m]] = NULL]
        /\ UNCHANGED <<exists, incache, cache_status, dirty>>
    BY <1>2, Zenon DEF FileRelease
  <2>2. use' \in [Mfiles -> Nat]
    BY <2>1 DEF Typing, FileTypes
  <2>3. path' \in [Mfiles -> MaybePaths]
    BY <2>1 DEF Typing, FileTypes, MaybePaths
  <2>4. linked' \in [Mfiles -> BOOLEAN]
    BY <2>1 DEF Typing, FileTypes
  <2>5. fh' \in [Paths -> Mfiles \cup {NULL}]
    BY <2>1 DEF Typing, FileTypes
  <2> QED BY <2>1, <2>2, <2>3, <2>4, <2>5 DEF Typing, FileTypes
<1> QED BY <1>1, <1>2

LEMMA JournalAppendType ==
  ASSUME Typing, NEW e \in LooseEntries, JournalAppend(e), UNCHANGED applier
  PROVE  JournalTypes'
  BY DEF Typing, JournalTypes, JournalAppend, counts, applier

LEMMA ClientTyping ==
  ASSUME Typing, NEW c \in Clients, ClientStep(c) \/ ClientCall(c)
  PROVE  Typing'
<1> USE NullIsNoFile DEF CGoto
<1>0. FileTypes /\ QueueTypes /\ JournalTypes /\ ProcessTypes /\ Located
  BY DEF Typing
<1>1. ASSUME NEW p \in Paths, Open(c, p) PROVE Typing'
  <2> USE <1>1 DEF Open
  <2>1. FileTypes'
    BY FileidGetType
  <2>2. QueueTypes' /\ JournalTypes'
    BY <1>0 DEF QueueTypes, JournalTypes, transfer, jvars, counts, applier
  <2>3. ProcessTypes'
    BY <1>0 DEF ProcessTypes, ClientLabels, thread
  <2>4. Located'
    BY <1>0 DEF Located, ProcessTypes, WithHandle, WithPath, Waits, thread, applier
  <2> QED BY <2>1, <2>2, <2>3, <2>4 DEF Typing
<1>2. CASE Backfile(c)
  <2> USE <1>2 DEF Backfile
  <2> handle[c] \in Mfiles
    BY <1>0 DEF Located, ProcessTypes, WithHandle
  <2>1. FileTypes'
    BY <1>0 DEF FileTypes, Statuses, meta
  <2>2. QueueTypes' /\ JournalTypes'
    BY <1>0 DEF QueueTypes, JournalTypes, transfer, jvars, counts, applier
  <2>3. ProcessTypes'
    BY <1>0 DEF FileTypes, ProcessTypes, ClientLabels, thread
  <2>4. Located'
    BY <1>0 DEF Located, ProcessTypes, WithHandle, WithPath, Waits, thread, applier
  <2> QED BY <2>1, <2>2, <2>3, <2>4 DEF Typing
<1>3. CASE UseIncrement(c)
  <2> USE <1>3 DEF UseIncrement
  <2> handle[c] \in Mfiles
    BY <1>0 DEF Located, ProcessTypes, WithHandle
  <2>1. FileTypes'
    BY <1>0 DEF FileTypes, ProcessTypes, meta
  <2>2. QueueTypes' /\ JournalTypes'
    BY <1>0 DEF QueueTypes, JournalTypes, transfer, jvars, counts, applier
  <2>3. ProcessTypes'
    BY <1>0 DEF ProcessTypes, ClientLabels, thread
  <2>4. Located'
    BY <1>0 DEF Located, ProcessTypes, WithHandle, WithPath, Waits, thread, applier
  <2> QED BY <2>1, <2>2, <2>3, <2>4 DEF Typing
<1>4. CASE QueueBackup(c)
  <2> USE <1>4 DEF QueueBackup
  <2> handle[c] \in Mfiles
    BY <1>0 DEF Located, ProcessTypes, WithHandle
  <2>1. FileTypes'
    BY <1>0 DEF FileTypes, meta, mfile
  <2>2. QueueTypes'
    BY <1>0, QueueFileType DEF QueueTypes, Types
  <2>3. JournalTypes'
    BY <1>0 DEF JournalTypes, jvars, counts, applier
  <2>4. ProcessTypes'
    BY <1>0 DEF ProcessTypes, ClientLabels, thread
  <2>5. Located'
    BY <1>0 DEF Located, ProcessTypes, WithHandle, WithPath, Waits, thread, applier
  <2> QED BY <2>1, <2>2, <2>3, <2>4, <2>5 DEF Typing
<1>5. CASE PostBackup(c)
  <2> USE <1>5 DEF PostBackup, SemPost
  <2>1. FileTypes'
    BY <1>0 DEF FileTypes, meta, mfile
  <2> BACKUP \in Types
    BY DEF Types
  <2>2. QueueTypes'
    BY <1>0 DEF QueueTypes
  <2>5. JournalTypes'
    BY <1>0 DEF JournalTypes, jvars, counts, applier
  <2>3. ProcessTypes'
    BY <1>0 DEF ProcessTypes, ClientLabels, thread
  <2>4. Located'
    BY <1>0 DEF Located, ProcessTypes, WithHandle, WithPath, Waits, thread, applier
  <2> QED BY <2>1, <2>2, <2>3, <2>4, <2>5 DEF Typing
<1>6. CASE Write(c)
  <2> USE <1>6 DEF Write
  <2>1. FileTypes'
    BY <1>0 DEF FileTypes, meta
  <2>2. QueueTypes' /\ JournalTypes'
    BY <1>0 DEF QueueTypes, JournalTypes, transfer, jvars, counts, applier
  <2>3. ProcessTypes'
    BY <1>0 DEF ProcessTypes, ClientLabels, thread
  <2>4. Located'
    BY <1>0 DEF Located, ProcessTypes, WithHandle, WithPath, Waits, thread, applier
  <2> QED BY <2>1, <2>2, <2>3, <2>4 DEF Typing
<1>7. CASE AppendFsync(c)
  <2> USE <1>7 DEF AppendFsync
  <2> handle[c] \in Mfiles
    BY <1>0 DEF Located, ProcessTypes, WithHandle
  <2>1. FileTypes' /\ QueueTypes'
    BY <1>0 DEF FileTypes, QueueTypes, meta, mfile, transfer
  <2>2. JournalTypes'
    <3>1. [op |-> "fsync", path |-> path[handle[c]]] \in LooseEntries
      BY <1>0 DEF FileTypes, LooseEntries
    <3> QED BY <3>1, JournalAppendType
  <2>3. ProcessTypes'
    BY <1>0 DEF ProcessTypes, ClientLabels, thread
  <2>4. Located'
    BY <1>0 DEF Located, ProcessTypes, WithHandle, WithPath, Waits, thread, applier
  <2> QED BY <2>1, <2>2, <2>3, <2>4 DEF Typing
<1>8. CASE Release(c)
  <2> USE <1>8 DEF Release
  <2> handle[c] \in Mfiles
    BY <1>0 DEF ProcessTypes
  <2>1. FileTypes'
    BY FileReleaseType
  <2>2. QueueTypes' /\ JournalTypes'
    BY <1>0 DEF QueueTypes, JournalTypes, transfer, jvars, counts, applier
  <2>3. ProcessTypes'
    BY <1>0 DEF ProcessTypes, thread
  <2>4. Located'
    BY <1>0 DEF Located, ProcessTypes, WithHandle, WithPath, Waits, thread, applier
  <2> QED BY <2>1, <2>2, <2>3, <2>4 DEF Typing
<1>9. ASSUME NEW p \in Paths, Unlink(c, p) PROVE Typing'
  <2> USE <1>9 DEF Unlink
  <2>1. FileTypes'
    BY <1>0 DEF FileTypes
  <2>2. QueueTypes' /\ JournalTypes'
    BY <1>0 DEF QueueTypes, JournalTypes, transfer, jvars, counts, applier
  <2>3. ProcessTypes'
    BY <1>0 DEF ProcessTypes, ClientLabels, MaybePaths, thread
  <2>4. Located'
    BY <1>0 DEF Located, ProcessTypes, WithHandle, WithPath, Waits, thread, applier
  <2> QED BY <2>1, <2>2, <2>3, <2>4 DEF Typing
<1>10. ASSUME NEW p \in Paths, Mknod(c, p) PROVE Typing'
  <2> USE <1>10 DEF Mknod
  <2>1. FileTypes'
    BY <1>0 DEF FileTypes, mfile
  <2>2. QueueTypes' /\ JournalTypes'
    BY <1>0 DEF QueueTypes, JournalTypes, transfer, jvars, counts, applier
  <2>3. ProcessTypes'
    BY <1>0 DEF ProcessTypes, ClientLabels, MaybePaths, thread
  <2>4. Located'
    BY <1>0 DEF Located, ProcessTypes, WithHandle, WithPath, Waits, thread, applier
  <2> QED BY <2>1, <2>2, <2>3, <2>4 DEF Typing
<1>11. CASE UnlinkCache(c) \/ CreateCache(c)
  <2> USE <1>11 DEF UnlinkCache, CreateCache
  <2>1. FileTypes'
    BY <1>0 DEF FileTypes, ProcessTypes, mfile
  <2>2. QueueTypes' /\ JournalTypes'
    BY <1>0 DEF QueueTypes, JournalTypes, transfer, jvars, counts, applier
  <2>3. ProcessTypes'
    BY <1>0 DEF ProcessTypes, ClientLabels, thread
  <2>4. Located'
    BY <1>0 DEF Located, ProcessTypes, WithHandle, WithPath, Waits, thread, applier
  <2> QED BY <2>1, <2>2, <2>3, <2>4 DEF Typing
<1>12. CASE AppendUpdate(c)
  <2> USE <1>12 DEF AppendUpdate
  <2>1. FileTypes' /\ QueueTypes'
    BY <1>0 DEF FileTypes, QueueTypes, meta, mfile, transfer
  <2>2. JournalTypes'
    <3>1. [op |-> "update", path |-> cpath[c]] \in LooseEntries
      BY <1>0 DEF ProcessTypes, LooseEntries
    <3> QED BY <3>1, JournalAppendType
  <2>3. ProcessTypes'
    BY <1>0 DEF ProcessTypes, ClientLabels, thread
  <2>4. Located'
    BY <1>0 DEF Located, ProcessTypes, WithHandle, WithPath, Waits, thread, applier
  <2> QED BY <2>1, <2>2, <2>3, <2>4 DEF Typing
<1> QED
  BY <1>1, <1>2, <1>3, <1>4, <1>5, <1>6, <1>7, <1>8, <1>9, <1>10, <1>11, <1>12
  DEF ClientStep, ClientCall

LEMMA AnsweredType ==
  ASSUME Typing, todo # <<>>, NEW oks \in {0, 1}, NEW errors \in {0, 1},
         Answered(oks, errors), UNCHANGED applies, apply_m' \in Mfiles \cup {NULL}
  PROVE  JournalTypes' /\ apc' = "next"
<1>1. Tail(todo) \in Seq(LooseEntries)
  BY DEF Typing, JournalTypes
<1> QED BY <1>1 DEF Typing, JournalTypes, Answered

LEMMA ApplyTyping ==
  ASSUME Typing, ApplyStart \/ ApplyStep
  PROVE  Typing'
<1> USE NullIsNoFile
<1>0. FileTypes /\ QueueTypes /\ JournalTypes /\ ProcessTypes /\ Located
  BY DEF Typing
<1>1. CASE ApplyStart
  <2> USE <1>1 DEF ApplyStart
  <2>1. FileTypes' /\ QueueTypes' /\ ProcessTypes'
    BY <1>0 DEF FileTypes, QueueTypes, ProcessTypes, meta, mfile, transfer, client, thread
  <2>2. JournalTypes'
    <3>1. CASE total # 0
      <4>1. UNCHANGED <<jvars, apc, todo, apply_m>> /\ applies' = applies + 1
        BY <3>1, Zenon
      <4> HIDE DEF ApplyStart
      <4> QED BY <1>0, <4>1 DEF JournalTypes, jvars, counts
    <3>2. CASE total = 0
      <4>1. total' = 0 /\ ok' = 0 /\ error' = 0 /\ applies' = applies + 1
        BY <3>2, Zenon
      <4>2. \/ /\ action' = "sync" /\ jlock' = TRUE /\ todo' = journal /\ journal' = <<>>
               /\ jfile' = FALSE /\ fsyncfile' = TRUE /\ apc' = "next" /\ apply_m' = apply_m
            \/ /\ action' = "update"
               /\ UNCHANGED <<jlock, todo, journal, jfile, fsyncfile, apc, apply_m>>
        BY <3>2, Zenon
      <4> HIDE DEF ApplyStart
      <4>3. <<>> \in Seq(LooseEntries)
        OBVIOUS
      <4>4. journal' \in Seq(LooseEntries) /\ todo' \in Seq(LooseEntries) /\ apply_m' = apply_m
        BY <1>0, <4>2, <4>3, Zenon DEF JournalTypes
      <4>5. jfile' \in BOOLEAN /\ fsyncfile' \in BOOLEAN /\ jlock' \in BOOLEAN
        BY <1>0, <4>2 DEF JournalTypes
      <4>6. action' \in {"none", "update", "sync"} /\ apc' \in {"idle", "next", "get", "queue", "post"}
        BY <1>0, <4>2 DEF JournalTypes
      <4> QED BY <1>0, <4>1, <4>4, <4>5, <4>6 DEF JournalTypes
    <3> QED BY <3>1, <3>2
  <2>3. Located'
    BY <1>0 DEF Located, Waits, client, thread
  <2> QED BY <2>1, <2>2, <2>3 DEF Typing
<1>2. CASE ApplyNext
  <2> USE <1>2 DEF ApplyNext
  <2>1. FileTypes' /\ QueueTypes' /\ ProcessTypes'
    BY <1>0 DEF FileTypes, QueueTypes, ProcessTypes, meta, mfile, transfer, client, thread
  <2>2. JournalTypes'
    <3>1. CASE ~IsFsync(Head(todo)) /\ todo' = Tail(todo) /\ UNCHANGED <<apc, jvars>>
      BY <1>0, <3>1 DEF JournalTypes, jvars, counts
    <3>2. CASE apc' = "get" /\ UNCHANGED <<todo, jvars>>
      BY <1>0, <3>2 DEF JournalTypes, jvars, counts
    <3>3. CASE Answered(0, 1)
      BY <1>0, <3>3, AnsweredType DEF JournalTypes
    <3> QED BY <3>1, <3>2, <3>3
  <2>3. Located'
    BY <1>0 DEF Located, Waits, client, thread, Answered
  <2> QED BY <2>1, <2>2, <2>3 DEF Typing
<1>3. CASE ApplyGet
  <2> USE <1>3 DEF ApplyGet
  <2> DEFINE p == Head(todo).path
  <2>1. QueueTypes' /\ ProcessTypes'
    BY <1>0 DEF QueueTypes, ProcessTypes, transfer, client, thread
  <2>2. CASE p \in exists
    <3>1. PICK m \in Mfiles : FileidGet(p, m) /\ apply_m' = m
      BY <2>2
    <3>2. FileTypes'
      BY <1>0, <2>2, <3>1, FileidGetType DEF FileTypes
    <3>3. JournalTypes'
      <4>1. apc' = "queue" /\ UNCHANGED <<todo, jvars, applies>>
        BY <2>2, Zenon
      <4> HIDE DEF ApplyGet, p
      <4> QED BY <1>0, <3>1, <4>1 DEF JournalTypes, jvars, counts
    <3>4. Located'
      BY <1>0, <2>2, <3>1 DEF Located, Waits, client, thread
    <3> QED BY <2>1, <3>2, <3>3, <3>4 DEF Typing
  <2>3. CASE p \notin exists
    <3>1. Answered(0, 1) /\ UNCHANGED <<fh, mfile, apply_m>>
      BY <2>3
    <3>2. FileTypes'
      BY <1>0, <3>1 DEF FileTypes, mfile
    <3>3. JournalTypes' /\ apc' = "next"
      BY <1>0, <3>1, AnsweredType DEF JournalTypes, Located
    <3>4. Located'
      BY <1>0, <3>3 DEF Located, Waits, client, thread
    <3> QED BY <2>1, <3>2, <3>3, <3>4 DEF Typing
  <2> QED BY <2>2, <2>3
<1>4. CASE ApplyQueue
  <2> USE <1>4 DEF ApplyQueue
  <2>0. apply_m \in Mfiles /\ todo # <<>>
    BY <1>0 DEF JournalTypes, Located
  <2>1. FileTypes' /\ ProcessTypes'
    BY <1>0, <2>0 DEF FileTypes, ProcessTypes, Statuses, meta, client, thread
  <2>2. QueueTypes'
    BY <1>0, <2>0, QueueFileType DEF QueueTypes, Types
  <2>3. CASE Queued(apply_m)
    <3>1. JournalTypes' /\ apc' = "next"
      BY <1>0, <2>0, <2>3, AnsweredType DEF JournalTypes
    <3>2. Located'
      BY <1>0, <3>1 DEF Located, Waits, client, thread
    <3> QED BY <2>1, <2>2, <3>1, <3>2 DEF Typing
  <2>4. CASE ~Queued(apply_m)
    <3>1. JournalTypes'
      BY <1>0, <2>4 DEF JournalTypes, jvars, counts
    <3>2. Located'
      BY <1>0, <2>0, <2>4 DEF Located, Waits, client, thread
    <3> QED BY <2>1, <2>2, <3>1, <3>2 DEF Typing
  <2> QED BY <2>3, <2>4
<1>5. CASE ApplyPost
  <2> USE <1>5 DEF ApplyPost, SemPost
  <2>0. todo # <<>> /\ WRITEBACK \in Types
    BY <1>0 DEF Located, Types
  <2>1. FileTypes' /\ ProcessTypes'
    BY <1>0 DEF FileTypes, ProcessTypes, meta, mfile, client, thread
  <2>2. QueueTypes'
    BY <1>0, <2>0 DEF QueueTypes
  <2>3. JournalTypes' /\ apc' = "next"
    BY <1>0, <2>0, AnsweredType DEF JournalTypes
  <2>4. Located'
    BY <1>0, <2>3 DEF Located, Waits, client, thread
  <2> QED BY <2>1, <2>2, <2>3, <2>4 DEF Typing
<1>6. CASE ApplyEnd
  <2> USE <1>6 DEF ApplyEnd
  <2>1. FileTypes' /\ QueueTypes' /\ ProcessTypes'
    BY <1>0 DEF FileTypes, QueueTypes, ProcessTypes, meta, mfile, transfer, client, thread
  <2>2. JournalTypes'
    BY <1>0 DEF JournalTypes, counts
  <2>3. Located'
    BY <1>0 DEF Located, Waits, client, thread
  <2> QED BY <2>1, <2>2, <2>3 DEF Typing
<1> QED BY <1>1, <1>2, <1>3, <1>4, <1>5, <1>6 DEF ApplyStep

(* A non-empty set of naturals has a least member. *)
LEMMA LeastMember ==
  ASSUME NEW S \in SUBSET Nat, S # {}
  PROVE  (CHOOSE k \in S : \A j \in S : k <= j) \in S
<1>1. PICK k \in S : \A j \in S : ~(<<j, k>> \in OpToRel(<, Nat))
  BY NatLessThanWellFounded, WFMin, Zenon
<1>2. \A j \in S : ~(j < k)
  BY <1>1, Zenon DEF OpToRel
<1>3. \A j \in S : k <= j
  BY <1>2
<1> QED BY <1>3

(* The transfer that a thread takes from the queue *)
Taken(t) == CHOOSE k \in Mine(t) : \A j \in Mine(t) : k <= j

LEMMA TakenIsMine ==
  ASSUME Typing, NEW t \in Threads, Mine(t) # {}
  PROVE  /\ Taken(t) \in 1..Len(queue)
         /\ queue[Taken(t)] \in Items
         /\ queue[Taken(t)].type = Type[t]
         /\ queue[Taken(t)].mfile \in Mfiles
         /\ RemoveAt(queue, Taken(t)) \in Seq(Items)
<1>1. queue \in Seq(Items) /\ Len(queue) \in Nat
  BY DEF Typing, QueueTypes
<1>2. Mine(t) \in SUBSET Nat
  BY <1>1 DEF Mine
<1>3. Taken(t) \in Mine(t)
  BY <1>2, LeastMember DEF Taken
<1>4. Taken(t) \in 1..Len(queue) /\ queue[Taken(t)].type = Type[t]
  BY <1>3 DEF Mine
<1>5. queue[Taken(t)] \in Items
  BY <1>1, <1>4
<1>6. RemoveAt(queue, Taken(t)) \in Seq(Items)
  BY <1>1, <1>4, RemoveAtElements
<1> QED BY <1>4, <1>5, <1>6 DEF Items

LEMMA ThreadTyping ==
  ASSUME Typing, NEW t \in Threads, ThreadStep(t)
  PROVE  Typing'
<1> USE NullIsNoFile DEF TGoto
<1>0. FileTypes /\ QueueTypes /\ JournalTypes /\ ProcessTypes /\ Located
  BY DEF Typing
<1>00. Type[t] \in Types
  BY TypeAssumption
<1>1. CASE SemWait(t)
  <2> USE <1>1 DEF SemWait
  <2>1. FileTypes' /\ JournalTypes'
    BY <1>0 DEF FileTypes, JournalTypes, meta, mfile, jvars, counts, applier
  <2>2. QueueTypes'
    <3>1. sem[Type[t]] - 1 \in Nat
      BY <1>0, <1>00 DEF QueueTypes
    <3> QED BY <1>0, <1>00, <3>1 DEF QueueTypes
  <2>3. ProcessTypes'
    BY <1>0 DEF ProcessTypes, ThreadLabels, client
  <2>4. Located'
    BY <1>0 DEF Located, ProcessTypes, Waits, client, applier
  <2> QED BY <2>1, <2>2, <2>3, <2>4 DEF Typing
<1>2. CASE GetNext(t)
  <2>1. CASE Mine(t) = {}
    <3> USE <1>2, <2>1 DEF GetNext
    <3>1. FileTypes' /\ QueueTypes' /\ JournalTypes'
      BY <1>0 DEF FileTypes, QueueTypes, JournalTypes, meta, jvars, counts, applier
    <3>2. ProcessTypes' /\ Located'
      BY <1>0 DEF ProcessTypes, Located, Waits, client, applier
    <3> QED BY <3>1, <3>2 DEF Typing
  <2>2. CASE Mine(t) # {}
    <3> DEFINE m == queue[Taken(t)].mfile
    <3>1. /\ queue' = RemoveAt(queue, Taken(t))
          /\ cur' = [cur EXCEPT ![t] = m]
          /\ cache_status' = [cache_status EXCEPT ![m] = IF @ = "asked" THEN "in_progress" ELSE @]
          /\ tpc[t] = "get_next" /\ tpc' = [tpc EXCEPT ![t] = "do_transfer"]
          /\ UNCHANGED <<meta, path, use, dirty, linked, sem, jvars, client, success, applier>>
      BY <1>2, <2>2, Zenon DEF GetNext, Taken
    <3>2. m \in Mfiles /\ queue' \in Seq(Items)
      BY <2>2, <3>1, TakenIsMine
    <3> HIDE DEF m
    <3>3. FileTypes'
      BY <1>0, <3>1, <3>2 DEF FileTypes, Statuses, meta
    <3>4. QueueTypes' /\ JournalTypes'
      BY <1>0, <3>1, <3>2 DEF QueueTypes, JournalTypes, jvars, counts, applier
    <3>5. ProcessTypes'
      BY <1>0, <3>1, <3>2 DEF ProcessTypes, ThreadLabels, client
    <3>6. Located'
      BY <1>0, <3>1, <3>2 DEF Located, ProcessTypes, Waits, client, applier
    <3> QED BY <3>3, <3>4, <3>5, <3>6 DEF Typing
  <2> QED BY <2>1, <2>2
<1>3. CASE DoTransfer(t)
  <2> USE <1>3 DEF DoTransfer
  <2>1. FileTypes'
    BY <1>0 DEF FileTypes, meta
  <2>2. QueueTypes' /\ JournalTypes'
    BY <1>0 DEF QueueTypes, JournalTypes, transfer, jvars, counts, applier
  <2>3. ProcessTypes'
    BY <1>0 DEF ProcessTypes, ThreadLabels, client
  <2>4. Located'
    BY <1>0 DEF Located, ProcessTypes, Waits, client, applier
  <2> QED BY <2>1, <2>2, <2>3, <2>4 DEF Typing
<1>4. CASE CreateBacking(t)
  <2> USE <1>4 DEF CreateBacking
  <2> cur[t] \in Mfiles
    BY <1>0 DEF ProcessTypes, Located, Waits
  <2>1. FileTypes'
    BY <1>0 DEF FileTypes, mfile
  <2>2. QueueTypes' /\ JournalTypes'
    BY <1>0 DEF QueueTypes, JournalTypes, transfer, jvars, counts, applier
  <2>3. ProcessTypes'
    BY <1>0 DEF ProcessTypes, ThreadLabels, client
  <2>4. Located'
    BY <1>0 DEF Located, ProcessTypes, Waits, client, applier
  <2> QED BY <2>1, <2>2, <2>3, <2>4 DEF Typing
<1>5. CASE Copy(t)
  <2> USE <1>5 DEF Copy
  <2>1. FileTypes'
    <3>1. cache_status' \in [Mfiles -> Statuses]
      BY <1>0 DEF FileTypes, Statuses
    <3>2. UNCHANGED <<exists, fh, incache, path, use, dirty, linked>>
      BY DEF meta
    <3> QED BY <1>0, <3>1, <3>2 DEF FileTypes
  <2>2. QueueTypes' /\ JournalTypes'
    BY <1>0 DEF QueueTypes, JournalTypes, transfer, jvars, counts, applier
  <2>3. ProcessTypes'
    BY <1>0 DEF ProcessTypes, ThreadLabels, client
  <2>4. Located'
    BY <1>0 DEF Located, ProcessTypes, Waits, client, applier
  <2> QED BY <2>1, <2>2, <2>3, <2>4 DEF Typing
<1>6. CASE UnlinkBacking(t)
  <2> USE <1>6 DEF UnlinkBacking
  <2>1. FileTypes'
    BY <1>0 DEF FileTypes, mfile
  <2>2. QueueTypes' /\ JournalTypes'
    BY <1>0 DEF QueueTypes, JournalTypes, transfer, jvars, counts, applier
  <2>3. ProcessTypes'
    BY <1>0 DEF ProcessTypes, ThreadLabels, client
  <2>4. Located'
    BY <1>0 DEF Located, ProcessTypes, Waits, client, applier
  <2> QED BY <2>1, <2>2, <2>3, <2>4 DEF Typing
<1>7. CASE NotifySyncEnd(t)
  <2> USE <1>7 DEF NotifySyncEnd
  <2>1. FileTypes' /\ QueueTypes'
    BY <1>0 DEF FileTypes, QueueTypes, meta, mfile, transfer
  <2>2. JournalTypes'
    <3>1. \/ total' = 0 /\ ok' = 0 /\ error' = 0
          \/ ok' \in {ok, ok + 1} /\ error' \in {error, error + 1} /\ total' = total
      BY Zenon
    <3>2. total' \in Nat /\ ok' \in Nat /\ error' \in Nat
      <4> HIDE DEF NotifySyncEnd
      <4> QED BY <1>0, <3>1 DEF JournalTypes
    <3>3. fsyncfile' \in BOOLEAN /\ action' \in {"none", "update", "sync"}
      BY <1>0 DEF JournalTypes
    <3>4. UNCHANGED <<journal, jfile, jlock, applier>>
      OBVIOUS
    <3> QED BY <1>0, <3>2, <3>3, <3>4 DEF JournalTypes, applier
  <2>3. ProcessTypes'
    BY <1>0 DEF ProcessTypes, ThreadLabels, client
  <2>4. Located'
    BY <1>0 DEF Located, ProcessTypes, Waits, client, applier
  <2> QED BY <2>1, <2>2, <2>3, <2>4 DEF Typing
<1>8. CASE ReleaseTransfer(t)
  <2> USE <1>8 DEF ReleaseTransfer
  <2> cur[t] \in Mfiles
    BY <1>0 DEF ProcessTypes, Located, Waits
  <2>1. FileTypes'
    BY FileReleaseType
  <2>2. QueueTypes' /\ JournalTypes'
    BY <1>0 DEF QueueTypes, JournalTypes, transfer, jvars, counts, applier
  <2>3. ProcessTypes'
    BY <1>0 DEF ProcessTypes, ThreadLabels, client
  <2>4. Located'
    BY <1>0 DEF Located, ProcessTypes, Waits, client, applier
  <2> QED BY <2>1, <2>2, <2>3, <2>4 DEF Typing
<1> QED BY <1>1, <1>2, <1>3, <1>4, <1>5, <1>6, <1>7, <1>8 DEF ThreadStep

LEMMA TypingStep == Typing /\ [Next]_vars => Typing'
<1> SUFFICES ASSUME Typing, [Next]_vars PROVE Typing'
  OBVIOUS
<1>1. CASE Next
  BY <1>1, ClientTyping, ApplyTyping, ThreadTyping DEF Next
<1>2. CASE UNCHANGED vars
  <2>1. FileTypes' /\ QueueTypes' /\ JournalTypes'
    BY <1>2 DEF Typing, FileTypes, QueueTypes, JournalTypes, vars, meta, mfile, transfer,
      jvars, counts, applier
  <2>2. ProcessTypes' /\ Located'
    BY <1>2 DEF Typing, ProcessTypes, Located, Waits, vars, client, thread, applier
  <2> QED BY <2>1, <2>2 DEF Typing
<1> QED BY <1>1, <1>2

(* Every variable keeps its type, and every process has the file its place in
   the code needs, whatever may fail: type correctness, except that a path
   read from a freed structure may be none. *)
THEOREM TypingHolds == Spec => []Typing
  BY TypingInit, TypingStep, PTL DEF Spec

-----------------------------------------------------------------------------
(* The transfer queue and the semaphores *)

Woken(type) == {t \in Threads : Type[t] = type /\ tpc[t] = "get_next"}
Posting == {c \in Clients : cpc[c] = "post"}
ToPost(type) == IF type = BACKUP THEN Cardinality(Posting) ELSE IF apc = "post" THEN 1 ELSE 0
Waiting(type) == Cardinality(Positions(queue, OfType(type)))

(* QueueMatchesSem for one type *)
Matches(type) == Waiting(type) = sem[type] + Cardinality(Woken(type)) + ToPost(type)

LEMMA PositionsOfType ==
  ASSUME NEW q \in Seq(Items), NEW type
  PROVE  {i \in 1..Len(q) : q[i].type = type} = Positions(q, OfType(type))
<1>1. \A i \in 1..Len(q) : q[i] \in Items
  OBVIOUS
<1> QED BY <1>1, Zenon DEF Positions, OfType

LEMMA QueueMatchesSemIs ==
  ASSUME queue \in Seq(Items), NEW type \in Types, QueueMatchesSem
  PROVE  Matches(type)
<1>1. {i \in 1..Len(queue) : queue[i].type = type} = Positions(queue, OfType(type))
  BY PositionsOfType
<1> QED BY <1>1 DEF QueueMatchesSem, Matches, Waiting, Woken, Posting, ToPost

LEMMA CountsAreNaturals ==
  ASSUME Typing
  PROVE  /\ \A type \in Types : Waiting(type) \in Nat /\ sem[type] \in Nat
         /\ \A type : IsFiniteSet(Woken(type)) /\ Cardinality(Woken(type)) \in Nat
         /\ IsFiniteSet(Posting) /\ Cardinality(Posting) \in Nat
<1>1. ASSUME NEW type PROVE IsFiniteSet(Woken(type))
  BY ProcessesAssumption, FS_Subset DEF Woken
<1>2. IsFiniteSet(Posting)
  BY ProcessesAssumption, FS_Subset DEF Posting
<1>3. \A type \in Types : Waiting(type) \in Nat /\ sem[type] \in Nat
  BY PositionsFinite DEF Typing, QueueTypes, Waiting
<1> QED BY <1>1, <1>2, <1>3, FS_CardinalityType

(* A step that leaves alone the queue, the semaphores and who is about to
   post or to take *)
LEMMA MatchesUnchanged ==
  ASSUME NEW type, Matches(type), UNCHANGED <<queue, sem>>,
         \A c \in Clients : cpc'[c] = "post" <=> cpc[c] = "post",
         \A t \in Threads : tpc'[t] = "get_next" <=> tpc[t] = "get_next",
         apc' = "post" <=> apc = "post"
  PROVE  Matches(type)'
<1>1. Woken(type)' = Woken(type) /\ Posting' = Posting
  BY DEF Woken, Posting
<1> QED BY <1>1 DEF Matches, ToPost, Waiting

(* What becomes of the number of queued transfers of a type when one of them
   is queued *)
LEMMA WaitingQueueFile ==
  ASSUME queue \in Seq(Items), NEW m \in Mfiles, NEW type \in Types, QueueFile(m, type),
         NEW other \in Types
  PROVE  Waiting(other)' = Waiting(other) + (IF ~Queued(m) /\ other = type THEN 1 ELSE 0)
<1> DEFINE e == [mfile |-> m, type |-> type]
<1>1. e \in Items /\ (e \in OfType(other) <=> other = type)
  BY DEF Items, OfType
<1>2. CASE Queued(m)
  BY <1>2, PositionsFinite DEF QueueFile, Waiting
<1>3. CASE ~Queued(m)
  <2>1. queue' = Append(queue, e)
    BY <1>3 DEF QueueFile
  <2> HIDE DEF e
  <2>2. Waiting(other)' = Waiting(other) + (IF e \in OfType(other) THEN 1 ELSE 0)
    BY <1>1, <2>1, PositionsAppend DEF Waiting
  <2> QED BY <1>1, <1>3, <2>2
<1> QED BY <1>2, <1>3

LEMMA WaitingTaken ==
  ASSUME Typing, NEW t \in Threads, Mine(t) # {}, queue' = RemoveAt(queue, Taken(t)),
         NEW type \in Types
  PROVE  Waiting(type)' = Waiting(type) - (IF type = Type[t] THEN 1 ELSE 0)
<1>1. queue \in Seq(Items) /\ Taken(t) \in 1..Len(queue)
  BY TakenIsMine DEF Typing, QueueTypes
<1>2. queue[Taken(t)] \in OfType(type) <=> type = Type[t]
  BY TakenIsMine DEF OfType
<1>3. Waiting(type)' = Cardinality(Positions(RemoveAt(queue, Taken(t)), OfType(type)))
  BY DEF Waiting
<1>4. Waiting(type)' = Waiting(type) - (IF queue[Taken(t)] \in OfType(type) THEN 1 ELSE 0)
  BY <1>1, <1>3, PositionsRemove DEF Waiting
<1> QED BY <1>2, <1>4

LEMMA ClientMatches ==
  ASSUME Typing, QueueMatchesSem, NEW c \in Clients, ClientStep(c) \/ ClientCall(c),
         NEW type \in Types
  PROVE  Matches(type)'
<1>0. Matches(type) /\ FileTypes /\ QueueTypes /\ ProcessTypes /\ Located
  BY QueueMatchesSemIs DEF Typing, QueueTypes
<1>1. CASE QueueBackup(c)
  <2>1. handle[c] \in Mfiles /\ BACKUP \in Types /\ queue \in Seq(Items)
    BY <1>0, <1>1, NullIsNoFile DEF QueueBackup, ProcessTypes, Located, WithHandle, Types, QueueTypes
  <2>2. /\ Waiting(type)' = Waiting(type) + (IF ~Queued(handle[c]) /\ type = BACKUP THEN 1 ELSE 0)
        /\ UNCHANGED <<sem, apc, tpc>>
    BY <1>1, <2>1, WaitingQueueFile DEF QueueBackup, thread, applier
  <2>3. Woken(type)' = Woken(type)
    BY <2>2 DEF Woken
  <2>4. CASE Queued(handle[c])
    <3>1. Posting' = Posting
      BY <1>0, <1>1, <2>4 DEF QueueBackup, CGoto, Posting, ProcessTypes
    <3> QED BY <1>0, <2>2, <2>3, <2>4, <3>1, CountsAreNaturals DEF Matches, ToPost
  <2>5. CASE ~Queued(handle[c])
    <3>1. Posting' = Posting \cup {c} /\ c \notin Posting
      BY <1>0, <1>1, <2>5 DEF QueueBackup, CGoto, Posting, ProcessTypes
    <3>2. Cardinality(Posting') = Cardinality(Posting) + 1
      BY <3>1, CountsAreNaturals, FS_AddElement
    <3> QED BY <1>0, <2>2, <2>3, <2>5, <3>2, CountsAreNaturals DEF Matches, ToPost
  <2> QED BY <2>4, <2>5
<1>2. CASE PostBackup(c)
  <2>1. /\ sem' = [sem EXCEPT ![BACKUP] = sem[BACKUP] + 1]
        /\ UNCHANGED <<queue, apc, tpc>>
    BY <1>2 DEF PostBackup, SemPost, thread, applier
  <2>2. sem'[type] = sem[type] + (IF type = BACKUP THEN 1 ELSE 0)
    BY <1>0, <2>1 DEF QueueTypes
  <2>3. Woken(type)' = Woken(type) /\ Waiting(type)' = Waiting(type)
    BY <2>1 DEF Woken, Waiting
  <2>4. Posting' = Posting \ {c} /\ c \in Posting
    BY <1>0, <1>2 DEF PostBackup, CGoto, Posting, ProcessTypes
  <2>5. Cardinality(Posting') = Cardinality(Posting) - 1
    BY <2>4, CountsAreNaturals, FS_RemoveElement
  <2> QED BY <1>0, <2>1, <2>2, <2>3, <2>5, CountsAreNaturals DEF Matches, ToPost
<1>3. CASE ~QueueBackup(c) /\ ~PostBackup(c)
  <2>1. UNCHANGED <<queue, sem, apc, tpc>>
    BY <1>3 DEF ClientStep, ClientCall, Open, Backfile, UseIncrement, Write, AppendFsync, Release,
      Unlink, UnlinkCache, Mknod, AppendUpdate, CreateCache, transfer, thread, applier
  <2>2. \A d \in Clients : cpc'[d] = "post" <=> cpc[d] = "post"
    BY <1>0, <1>3 DEF ClientStep, ClientCall, Open, Backfile, UseIncrement, Write, AppendFsync, Release,
      Unlink, UnlinkCache, Mknod, AppendUpdate, CreateCache, CGoto, ProcessTypes
  <2> QED BY <1>0, <2>1, <2>2, MatchesUnchanged
<1> QED BY <1>1, <1>2, <1>3

LEMMA ApplyMatches ==
  ASSUME Typing, QueueMatchesSem, ApplyStart \/ ApplyStep, NEW type \in Types
  PROVE  Matches(type)'
<1>0. Matches(type) /\ QueueTypes /\ JournalTypes /\ Located
  BY QueueMatchesSemIs DEF Typing, QueueTypes
<1>00. UNCHANGED <<cpc, tpc>> /\ Posting' = Posting /\ Woken(type)' = Woken(type)
  BY DEF ApplyStart, ApplyStep, ApplyNext, ApplyGet, ApplyQueue, ApplyPost, ApplyEnd, client,
    thread, Posting, Woken
<1>1. CASE ApplyQueue
  <2>1. apply_m \in Mfiles /\ WRITEBACK \in Types /\ queue \in Seq(Items)
    BY <1>0, <1>1, NullIsNoFile DEF ApplyQueue, JournalTypes, Located, Types, QueueTypes
  <2>2. /\ Waiting(type)' = Waiting(type) + (IF ~Queued(apply_m) /\ type = WRITEBACK THEN 1 ELSE 0)
        /\ apc = "queue" /\ UNCHANGED sem
    BY <1>1, <2>1, WaitingQueueFile DEF ApplyQueue
  <2>3. apc' = IF Queued(apply_m) THEN "next" ELSE "post"
    BY <1>1 DEF ApplyQueue, Answered
  <2> QED BY <1>0, <1>00, <2>2, <2>3, CountsAreNaturals DEF Matches, ToPost, Types, BACKUP, WRITEBACK
<1>2. CASE ApplyPost
  <2>1. /\ sem' = [sem EXCEPT ![WRITEBACK] = sem[WRITEBACK] + 1]
        /\ apc = "post" /\ apc' = "next" /\ UNCHANGED queue
    BY <1>2 DEF ApplyPost, SemPost, Answered
  <2>2. sem'[type] = sem[type] + (IF type = WRITEBACK THEN 1 ELSE 0)
    BY <1>0, <2>1 DEF QueueTypes
  <2>3. Waiting(type)' = Waiting(type)
    BY <2>1 DEF Waiting
  <2> QED BY <1>0, <1>00, <2>1, <2>2, <2>3, CountsAreNaturals DEF Matches, ToPost, Types, BACKUP, WRITEBACK
<1>3. CASE ~ApplyQueue /\ ~ApplyPost
  <2>1. UNCHANGED <<queue, sem>> /\ (apc' = "post" <=> apc = "post")
    BY <1>3 DEF ApplyStart, ApplyStep, ApplyNext, ApplyGet, ApplyEnd, Answered, transfer
  <2> QED BY <1>0, <1>00, <2>1, MatchesUnchanged
<1> QED BY <1>1, <1>2, <1>3

(* A woken thread finds a transfer of its type. *)
LEMMA WokenFinds ==
  ASSUME Typing, QueueMatchesSem, NEW t \in Threads, tpc[t] = "get_next"
  PROVE  Mine(t) # {}
<1>1. Type[t] \in Types /\ Matches(Type[t]) /\ queue \in Seq(Items)
  BY TypeAssumption, QueueMatchesSemIs DEF Typing, QueueTypes
<1>2. t \in Woken(Type[t])
  BY DEF Woken
<1>3. Cardinality(Woken(Type[t])) # 0
  BY <1>2, CountsAreNaturals, FS_EmptySet
<1>4. Waiting(Type[t]) # 0
  BY <1>1, <1>3, CountsAreNaturals DEF Matches, ToPost
<1>5. Positions(queue, OfType(Type[t])) # {}
  BY <1>4, FS_EmptySet DEF Waiting
<1> QED BY <1>5 DEF Positions, OfType, Mine

LEMMA ThreadMatches ==
  ASSUME Typing, QueueMatchesSem, NEW t \in Threads, ThreadStep(t), NEW type \in Types
  PROVE  Matches(type)'
<1>0. Matches(type) /\ QueueTypes /\ ProcessTypes /\ Type[t] \in Types
  BY QueueMatchesSemIs, TypeAssumption DEF Typing, QueueTypes
<1>00. UNCHANGED <<cpc, apc>> /\ ToPost(type)' = ToPost(type)
  BY DEF ThreadStep, SemWait, GetNext, DoTransfer, CreateBacking, Copy, UnlinkBacking,
    NotifySyncEnd, ReleaseTransfer, client, applier, ToPost, Posting
<1>1. CASE SemWait(t)
  <2>1. /\ sem' = [sem EXCEPT ![Type[t]] = sem[Type[t]] - 1]
        /\ tpc[t] = "sem_wait" /\ tpc' = [tpc EXCEPT ![t] = "get_next"] /\ UNCHANGED queue
    BY <1>1 DEF SemWait, TGoto
  <2>2. sem'[type] = sem[type] - (IF type = Type[t] THEN 1 ELSE 0)
    BY <1>0, <2>1 DEF QueueTypes
  <2>3. Waiting(type)' = Waiting(type)
    BY <2>1 DEF Waiting
  <2>4. CASE type = Type[t]
    <3>1. Woken(type)' = Woken(type) \cup {t} /\ t \notin Woken(type)
      BY <1>0, <2>1, <2>4 DEF Woken, ProcessTypes
    <3>2. Cardinality(Woken(type)') = Cardinality(Woken(type)) + 1
      BY <3>1, CountsAreNaturals, FS_AddElement
    <3> QED BY <1>0, <1>00, <2>2, <2>3, <2>4, <3>2, CountsAreNaturals DEF Matches
  <2>5. CASE type # Type[t]
    <3>1. Woken(type)' = Woken(type)
      BY <1>0, <2>1, <2>5 DEF Woken, ProcessTypes
    <3> QED BY <1>0, <1>00, <2>2, <2>3, <2>5, <3>1, CountsAreNaturals DEF Matches
  <2> QED BY <2>4, <2>5
<1>2. CASE GetNext(t)
  <2>1. /\ queue' = RemoveAt(queue, Taken(t)) /\ Mine(t) # {}
        /\ tpc[t] = "get_next" /\ tpc' = [tpc EXCEPT ![t] = "do_transfer"] /\ UNCHANGED sem
    BY <1>2, WokenFinds, Zenon DEF GetNext, TGoto, Taken
  <2>2. Waiting(type)' = Waiting(type) - (IF type = Type[t] THEN 1 ELSE 0)
    BY <2>1, WaitingTaken
  <2>3. CASE type = Type[t]
    <3>1. Woken(type)' = Woken(type) \ {t} /\ t \in Woken(type)
      BY <1>0, <2>1, <2>3 DEF Woken, ProcessTypes
    <3>2. Cardinality(Woken(type)') = Cardinality(Woken(type)) - 1
      BY <3>1, CountsAreNaturals, FS_RemoveElement
    <3>3. Waiting(type)' = Waiting(type) - 1 /\ sem'[type] = sem[type]
      BY <2>1, <2>2, <2>3
    <3>4. Waiting(type) \in Nat /\ sem[type] \in Nat /\ Cardinality(Woken(type)) \in Nat
      BY <1>0, CountsAreNaturals
    <3>5. ToPost(type) \in Nat
      BY CountsAreNaturals DEF ToPost
    <3> QED BY <1>0, <1>00, <3>2, <3>3, <3>4, <3>5 DEF Matches
  <2>4. CASE type # Type[t]
    <3>1. Woken(type)' = Woken(type)
      BY <1>0, <2>1, <2>4 DEF Woken, ProcessTypes
    <3> QED BY <1>0, <1>00, <2>1, <2>2, <2>4, <3>1, CountsAreNaturals DEF Matches
  <2> QED BY <2>3, <2>4
<1>3. CASE ~SemWait(t) /\ ~GetNext(t)
  <2>1. UNCHANGED <<queue, sem>>
    BY <1>3 DEF ThreadStep, DoTransfer, CreateBacking, Copy, UnlinkBacking, NotifySyncEnd,
      ReleaseTransfer, transfer
  <2>2. \A u \in Threads : tpc'[u] = "get_next" <=> tpc[u] = "get_next"
    BY <1>0, <1>3 DEF ThreadStep, DoTransfer, CreateBacking, Copy, UnlinkBacking, NotifySyncEnd,
      ReleaseTransfer, TGoto, ProcessTypes
  <2> QED BY <1>0, <1>00, <2>1, <2>2, MatchesUnchanged
<1> QED BY <1>1, <1>2, <1>3

(* Whatever fails and whoever runs, the semaphore of each type, the threads it
   has woken and the posts still to come account for the queue entries of that
   type (mcachefs_transfer_queue_file, mcachefs_transfer_get_next_file_to_back). *)
THEOREM QueueMatchesSemHolds == Spec => []QueueMatchesSem
<1>1. Init => QueueMatchesSem
  <2> SUFFICES ASSUME Init, NEW type \in Types PROVE Matches(type)
    <3>1. ASSUME Init PROVE queue \in Seq(Items)
      BY <3>1 DEF Init
    <3> QED BY <3>1, PositionsOfType, Zenon DEF QueueMatchesSem, Matches, Waiting, Woken, Posting, ToPost
  <2>1. Positions(queue, OfType(type)) = {} /\ Woken(type) = {} /\ Posting = {} /\ apc = "idle"
    BY DEF Init, Positions, Woken, Posting
  <2>2. sem[type] = 0
    BY DEF Init
  <2> QED BY <2>1, <2>2, FS_EmptySet DEF Matches, Waiting, ToPost
<1>2. Typing /\ QueueMatchesSem /\ [Next]_vars => QueueMatchesSem'
  <2> SUFFICES ASSUME Typing, QueueMatchesSem, [Next]_vars, NEW type \in Types PROVE Matches(type)'
    <3>1. ASSUME Typing, [Next]_vars PROVE queue' \in Seq(Items)
      BY <3>1, TypingStep DEF Typing, QueueTypes
    <3> QED BY <3>1, PositionsOfType, Zenon DEF QueueMatchesSem, Matches, Waiting, Woken, Posting, ToPost
  <2>1. CASE Next
    BY <2>1, ClientMatches, ApplyMatches, ThreadMatches DEF Next
  <2>2. CASE UNCHANGED vars
    <3>1. Matches(type)
      BY QueueMatchesSemIs DEF Typing, QueueTypes
    <3> QED BY <2>2, <3>1, MatchesUnchanged DEF vars, transfer, client, thread, applier
  <2> QED BY <2>1, <2>2
<1> QED BY <1>1, <1>2, TypingHolds, PTL DEF Spec


-----------------------------------------------------------------------------
(* No open file is freed while it is in use, when the increment of mfile->use
   in mcachefs_transfer_backfile is not lost. *)

UseIsNotLost == "use_race" \notin Ops

(* Where a function has a value *)
Having(P, f, m) == {x \in P : f[x] = m}

(* The parts of Refs(m) *)
Holders(m) == Having(Clients, handle, m)
Queuing(m) == {c \in Clients : handle[c] = m /\ cpc[c] = "queue"}
Queuings(m) == Cardinality(Positions(queue, Of(m)))
Transferring(m) == Having(Threads, cur, m)
Applying(m) == IF apc = "queue" /\ apply_m = m THEN 1 ELSE 0

Users(m) == Cardinality(Holders(m)) + Cardinality(Queuing(m)) + Queuings(m)
            + Cardinality(Transferring(m)) + Applying(m)

Safe(m) == Users(m) <= use[m] /\ (Users(m) > 0 => path[m] # None)

(* The metadata of a path and its open file point at each other. *)
FhIsTheFile == \A p \in Paths : fh[p] # NULL => path[fh[p]] = p /\ linked[fh[p]]

PathsKnown == incache \subseteq Paths /\ journal \in Seq(Entries) /\ todo \in Seq(Entries)

UseInv == /\ \A m \in Mfiles : Safe(m)
          /\ FhIsTheFile
          /\ PathsKnown

-----------------------------------------------------------------------------
(* Counting *)

(* Only one component of a function changes its value. *)
DifferAt(P, f, g, x) == \A y \in P \ {x} : g[y] = f[y]

IsOne(v, m) == IF v = m THEN 1 ELSE 0

LEMMA CountUpdate ==
  ASSUME NEW P, IsFiniteSet(P), NEW f, NEW g, NEW x \in P, DifferAt(P, f, g, x), NEW m
  PROVE  Cardinality(Having(P, g, m)) =
           Cardinality(Having(P, f, m)) - IsOne(f[x], m) + IsOne(g[x], m)
<1> DEFINE A == Having(P, f, m)
           B == Having(P, g, m)
<1>1. IsFiniteSet(A) /\ Cardinality(A) \in Nat
  BY FS_Subset, FS_CardinalityType DEF Having
<1>2. IsFiniteSet(A \ {x}) /\ Cardinality(A \ {x}) = Cardinality(A) - IsOne(f[x], m)
  <2>1. x \in A <=> f[x] = m
    BY DEF Having
  <2> HIDE DEF A
  <2> QED BY <1>1, <2>1, FS_RemoveElement DEF IsOne
<1>3. CASE g[x] = m
  <2>1. B = (A \ {x}) \cup {x}
    BY <1>3 DEF Having, DifferAt
  <2> HIDE DEF A, B
  <2>2. Cardinality(B) = Cardinality(A \ {x}) + 1
    BY <1>2, <2>1, FS_AddElement
  <2>3. Cardinality(B) = Cardinality(A) - IsOne(f[x], m) + IsOne(g[x], m)
    BY <1>1, <1>2, <1>3, <2>2 DEF IsOne
  <2> QED BY <2>3 DEF A, B
<1>4. CASE g[x] # m
  <2>1. B = A \ {x}
    BY <1>4 DEF Having, DifferAt
  <2> HIDE DEF A, B
  <2>3. Cardinality(B) = Cardinality(A) - IsOne(f[x], m) + IsOne(g[x], m)
    BY <1>1, <1>2, <1>4, <2>1 DEF IsOne
  <2> QED BY <2>3 DEF A, B
<1> QED BY <1>3, <1>4

LEMMA PositionsOf ==
  ASSUME NEW q \in Seq(Items), NEW m
  PROVE  {i \in 1..Len(q) : q[i].mfile = m} = Positions(q, Of(m))
<1>1. \A i \in 1..Len(q) : q[i] \in Items
  OBVIOUS
<1> QED BY <1>1, Zenon DEF Positions, Of

LEMMA PartsAreNaturals ==
  ASSUME Typing, NEW m \in Mfiles
  PROVE  /\ IsFiniteSet(Holders(m)) /\ Cardinality(Holders(m)) \in Nat
         /\ IsFiniteSet(Queuing(m)) /\ Cardinality(Queuing(m)) \in Nat
         /\ IsFiniteSet(Transferring(m)) /\ Cardinality(Transferring(m)) \in Nat
         /\ Queuings(m) \in Nat /\ Applying(m) \in {0, 1}
         /\ Users(m) \in Nat
<1>1. IsFiniteSet(Holders(m)) /\ IsFiniteSet(Queuing(m)) /\ IsFiniteSet(Transferring(m))
  BY ProcessesAssumption, FS_Subset DEF Holders, Queuing, Transferring, Having
<1>2. Queuings(m) \in Nat
  BY PositionsFinite DEF Queuings, Typing, QueueTypes
<1>3. Applying(m) \in {0, 1}
  BY DEF Applying
<1>4. /\ Cardinality(Holders(m)) \in Nat /\ Cardinality(Queuing(m)) \in Nat
      /\ Cardinality(Transferring(m)) \in Nat
  BY <1>1, FS_CardinalityType
<1> QED BY <1>1, <1>2, <1>3, <1>4 DEF Users

LEMMA HandleDiffers ==
  ASSUME NEW c \in Clients, DifferAt(Clients, handle, handle', c), NEW m
  PROVE  Cardinality(Holders(m)') = Cardinality(Holders(m)) - IsOne(handle[c], m) + IsOne(handle'[c], m)
  BY CountUpdate, ProcessesAssumption DEF Holders

LEMMA CurDiffers ==
  ASSUME NEW t \in Threads, DifferAt(Threads, cur, cur', t), NEW m
  PROVE  Cardinality(Transferring(m)') =
           Cardinality(Transferring(m)) - IsOne(cur[t], m) + IsOne(cur'[t], m)
  BY CountUpdate, ProcessesAssumption DEF Transferring

(* Who is a user *)
LEMMA UsersAreThere ==
  ASSUME Typing, NEW m \in Mfiles
  PROVE  /\ \A c \in Clients : handle[c] = m => Users(m) > 0
         /\ \A t \in Threads : cur[t] = m => Users(m) > 0
         /\ \A i \in 1..Len(queue) : queue[i].mfile = m => Users(m) > 0
         /\ apc = "queue" /\ apply_m = m => Users(m) > 0
<1>1. \A S : IsFiniteSet(S) /\ S # {} => Cardinality(S) # 0
  BY FS_EmptySet
<1>2. \A c \in Clients : handle[c] = m => Holders(m) # {}
  BY DEF Holders, Having
<1>3. \A t \in Threads : cur[t] = m => Transferring(m) # {}
  BY DEF Transferring, Having
<1>4. \A i \in 1..Len(queue) : queue[i].mfile = m => Queuings(m) # 0
  <2> SUFFICES ASSUME NEW i \in 1..Len(queue), queue[i].mfile = m PROVE Queuings(m) # 0
    OBVIOUS
  <2>1. queue \in Seq(Items)
    BY DEF Typing, QueueTypes
  <2>2. Positions(queue, Of(m)) # {}
    BY <2>1, PositionsOf
  <2> QED BY <1>1, <2>1, <2>2, PositionsFinite DEF Queuings
<1>5. \A c \in Clients : handle[c] = m => Cardinality(Holders(m)) # 0
  BY <1>1, <1>2, PartsAreNaturals
<1>6. \A t \in Threads : cur[t] = m => Cardinality(Transferring(m)) # 0
  BY <1>1, <1>3, PartsAreNaturals
<1>0. /\ Cardinality(Holders(m)) \in Nat /\ Cardinality(Queuing(m)) \in Nat
      /\ Cardinality(Transferring(m)) \in Nat /\ Queuings(m) \in Nat /\ Applying(m) \in {0, 1}
  BY PartsAreNaturals
<1>7. Cardinality(Holders(m)) # 0 => Users(m) > 0
  BY <1>0 DEF Users
<1>8. Cardinality(Transferring(m)) # 0 => Users(m) > 0
  BY PartsAreNaturals DEF Users
<1>9. Queuings(m) # 0 => Users(m) > 0
  BY PartsAreNaturals DEF Users
<1>10. apc = "queue" /\ apply_m = m => Users(m) > 0
  BY PartsAreNaturals DEF Users, Applying
<1> QED BY <1>4, <1>5, <1>6, <1>7, <1>8, <1>9, <1>10

(* The users of a file that exists: its path is one. *)
LEMMA UsersHavePaths ==
  ASSUME Typing, UseInv, NEW m \in Mfiles, Users(m) > 0
  PROVE  path[m] \in Paths /\ use[m] \in Nat /\ use[m] > 0
  BY PartsAreNaturals DEF Typing, FileTypes, MaybePaths, UseInv, Safe

LEMMA RefsAreUsers ==
  ASSUME queue \in Seq(Items), \A m \in Mfiles : Safe(m)
  PROVE  NoUseAfterFree
<1> SUFFICES ASSUME NEW m \in Mfiles PROVE Refs(m) = Users(m)
  BY Zenon DEF NoUseAfterFree, Safe
<1>1. {i \in 1..Len(queue) : queue[i].mfile = m} = Positions(queue, Of(m))
  BY PositionsOf
<1> QED BY <1>1 DEF Refs, Users, Holders, Queuing, Queuings, Transferring, Having, Applying

(* A step that leaves a structure and its users alone *)
LEMMA SafeUnchanged ==
  ASSUME NEW m \in Mfiles, Safe(m), use'[m] = use[m], path'[m] = path[m],
         UNCHANGED <<queue, handle, cur>>,
         \A c \in Clients : cpc'[c] = "queue" <=> cpc[c] = "queue",
         apc' = "queue" /\ apply_m' = m <=> apc = "queue" /\ apply_m = m
  PROVE  Safe(m)'
<1>1. Holders(m)' = Holders(m) /\ Queuing(m)' = Queuing(m) /\ Transferring(m)' = Transferring(m)
  BY DEF Holders, Queuing, Transferring
<1>2. Queuings(m)' = Queuings(m) /\ Applying(m)' = Applying(m)
  BY DEF Queuings, Applying
<1> QED BY <1>1, <1>2 DEF Safe, Users

LEMMA QueuingsQueueFile ==
  ASSUME queue \in Seq(Items), NEW n \in Mfiles, NEW type \in Types, QueueFile(n, type),
         NEW m \in Mfiles
  PROVE  Queuings(m)' = Queuings(m) + (IF ~Queued(n) /\ n = m THEN 1 ELSE 0)
<1> DEFINE e == [mfile |-> n, type |-> type]
<1>1. e \in Items /\ (e \in Of(m) <=> n = m)
  BY DEF Items, Of
<1>2. CASE Queued(n)
  BY <1>2, PositionsFinite DEF QueueFile, Queuings
<1>3. CASE ~Queued(n)
  <2>1. queue' = Append(queue, e)
    BY <1>3 DEF QueueFile
  <2> HIDE DEF e
  <2>2. Queuings(m)' = Queuings(m) + (IF e \in Of(m) THEN 1 ELSE 0)
    BY <1>1, <2>1, PositionsAppend DEF Queuings
  <2> QED BY <1>1, <1>3, <2>2
<1> QED BY <1>2, <1>3

LEMMA QueuingsTaken ==
  ASSUME Typing, NEW t \in Threads, Mine(t) # {}, queue' = RemoveAt(queue, Taken(t)),
         NEW m \in Mfiles
  PROVE  Queuings(m)' = Queuings(m) - (IF queue[Taken(t)].mfile = m THEN 1 ELSE 0)
<1>1. queue \in Seq(Items) /\ Taken(t) \in 1..Len(queue)
  BY TakenIsMine DEF Typing, QueueTypes
<1>2. queue[Taken(t)] \in Of(m) <=> queue[Taken(t)].mfile = m
  BY TakenIsMine DEF Of
<1>3. Queuings(m)' = Cardinality(Positions(RemoveAt(queue, Taken(t)), Of(m)))
  BY DEF Queuings
<1>4. Queuings(m)' = Queuings(m) - (IF queue[Taken(t)] \in Of(m) THEN 1 ELSE 0)
  BY <1>1, <1>3, PositionsRemove DEF Queuings
<1> QED BY <1>2, <1>4

-----------------------------------------------------------------------------
(* Taking and giving back a use *)

LEMMA FileidGetUse ==
  ASSUME Typing, UseInv, NEW p \in Paths, NEW n \in Mfiles, FileidGet(p, n)
  PROVE  /\ \A m \in Mfiles \ {n} : use'[m] = use[m] /\ path'[m] = path[m]
         /\ path'[n] = p
         /\ Users(n) + 1 <= use'[n] /\ use'[n] \in Nat
         /\ FhIsTheFile'
<1>1. CASE fh[p] # NULL
  <2>1. n = fh[p] /\ use' = [use EXCEPT ![n] = use[n] + 1] /\ UNCHANGED <<fh, path, linked>>
    BY <1>1 DEF FileidGet
  <2>2. use[n] \in Nat /\ Users(n) \in Nat /\ Users(n) <= use[n]
    BY PartsAreNaturals DEF Typing, FileTypes, UseInv, Safe
  <2>3. path[n] = p
    BY <1>1, <2>1 DEF UseInv, FhIsTheFile
  <2> QED BY <2>1, <2>2, <2>3 DEF Typing, FileTypes, UseInv, FhIsTheFile
<1>2. CASE fh[p] = NULL
  <2>1. /\ n \in Mfiles /\ path[n] = None
        /\ fh' = [fh EXCEPT ![p] = n] /\ path' = [path EXCEPT ![n] = p]
        /\ use' = [use EXCEPT ![n] = 1] /\ linked' = [linked EXCEPT ![n] = TRUE]
    BY <1>2 DEF FileidGet, Allocated
  <2>2. Users(n) = 0
    BY <2>1, PartsAreNaturals DEF UseInv, Safe
  <2>3. FhIsTheFile'
    <3> SUFFICES ASSUME NEW q \in Paths, fh'[q] # NULL
                 PROVE  path'[fh'[q]] = q /\ linked'[fh'[q]]
      BY DEF FhIsTheFile
    <3>1. CASE q = p
      BY <2>1, <3>1 DEF Typing, FileTypes
    <3>2. CASE q # p
      <4>1. fh'[q] = fh[q] /\ fh[q] \in Mfiles /\ path[fh[q]] = q /\ linked[fh[q]]
        BY <2>1, <3>2 DEF Typing, FileTypes, UseInv, FhIsTheFile
      <4>2. fh[q] # n
        BY <2>1, <4>1, PathsAssumption
      <4> QED BY <2>1, <4>1, <4>2 DEF Typing, FileTypes
    <3> QED BY <3>1, <3>2
  <2> QED BY <2>1, <2>2, <2>3 DEF Typing, FileTypes
<1> QED BY <1>1, <1>2

LEMMA FileReleaseUse ==
  ASSUME Typing, UseInv, NEW n \in Mfiles, Users(n) > 0, FileRelease(n)
  PROVE  /\ \A m \in Mfiles \ {n} : use'[m] = use[m] /\ path'[m] = path[m]
         /\ Users(n) - 1 <= use'[n]
         /\ Users(n) - 1 > 0 => path'[n] # None
         /\ FhIsTheFile'
         /\ UNCHANGED <<bug, exists, incache>>
<1>1. Users(n) \in Nat /\ use[n] \in Nat /\ Users(n) <= use[n] /\ use[n] # 0 /\ path[n] # None
  BY PartsAreNaturals DEF Typing, FileTypes, UseInv, Safe
<1>2. CASE use[n] > 1
  <2>1. use' = [use EXCEPT ![n] = use[n] - 1]
        /\ UNCHANGED <<fh, path, linked, bug, exists, incache>>
    BY <1>2 DEF FileRelease
  <2> QED BY <1>1, <2>1 DEF Typing, FileTypes, UseInv, FhIsTheFile
<1>3. CASE use[n] = 1
  <2>1. /\ use' = [use EXCEPT ![n] = 0] /\ path' = [path EXCEPT ![n] = None]
        /\ linked' = [linked EXCEPT ![n] = FALSE]
        /\ fh' = IF linked[n] THEN [fh EXCEPT ![path[n]] = NULL] ELSE fh
        /\ UNCHANGED <<bug, exists, incache>>
    BY <1>3 DEF FileRelease
  <2>2. FhIsTheFile'
    <3> SUFFICES ASSUME NEW q \in Paths, fh'[q] # NULL
                 PROVE  path'[fh'[q]] = q /\ linked'[fh'[q]]
      BY DEF FhIsTheFile
    <3>1. fh'[q] = fh[q] /\ (linked[n] => q # path[n])
      <4>1. CASE linked[n]
        BY <2>1, <4>1 DEF Typing, FileTypes
      <4>2. CASE ~linked[n]
        BY <2>1, <4>2
      <4> QED BY <4>1, <4>2
    <3>2. fh[q] \in Mfiles /\ path[fh[q]] = q /\ linked[fh[q]]
      BY <3>1 DEF Typing, FileTypes, UseInv, FhIsTheFile
    <3>3. fh[q] # n
      BY <3>1, <3>2
    <3> QED BY <2>1, <3>1, <3>2, <3>3 DEF Typing, FileTypes
  <2> QED BY <1>1, <1>3, <2>1, <2>2 DEF Typing, FileTypes
<1> QED BY <1>1, <1>2, <1>3

-----------------------------------------------------------------------------
(* The steps *)

LEMMA ClientSafe ==
  ASSUME UseIsNotLost, Typing, UseInv, NEW c \in Clients, ClientStep(c) \/ ClientCall(c),
         NEW m \in Mfiles
  PROVE  Safe(m)'
<1> USE NullIsNoFile DEF CGoto
<1>0. /\ Safe(m) /\ FileTypes /\ QueueTypes /\ ProcessTypes /\ Located
      /\ Users(m) \in Nat /\ use[m] \in Nat
      /\ handle \in [Clients -> Mfiles \cup {NULL}]
      /\ IsFiniteSet(Clients)
  BY PartsAreNaturals, ProcessesAssumption DEF Typing, FileTypes, ProcessTypes, UseInv
<1>1. ASSUME NEW p \in Paths, Open(c, p) PROVE Safe(m)'
  <2>1. PICK n \in Mfiles : FileidGet(p, n) /\ handle' = [handle EXCEPT ![c] = n]
    BY <1>1 DEF Open
  <2>2. /\ UNCHANGED <<queue, cur, apc, apply_m>>
        /\ cpc[c] = "idle" /\ cpc' = [cpc EXCEPT ![c] = "backfile"] /\ handle[c] = NULL
    BY <1>1 DEF Open, transfer, thread, applier
  <2>3. Cardinality(Holders(m)') = Cardinality(Holders(m)) + IsOne(n, m)
    <3>1. DifferAt(Clients, handle, handle', c) /\ handle'[c] = n
      BY <1>0, <2>1 DEF DifferAt
    <3>2. IsOne(handle[c], m) = 0
      BY <2>2 DEF IsOne
    <3>3. Cardinality(Holders(m)') = Cardinality(Holders(m)) - IsOne(handle[c], m) + IsOne(handle'[c], m)
      BY <3>1, HandleDiffers
    <3> QED BY <3>1, <3>2, <3>3, PartsAreNaturals
  <2>4. Queuing(m)' = Queuing(m)
    BY <1>0, <2>1, <2>2 DEF Queuing, ProcessTypes
  <2>5. UNCHANGED <<Queuings(m), Transferring(m), Applying(m)>>
    BY <2>2 DEF Queuings, Transferring, Applying
  <2>6. Users(m)' = Users(m) + (IF n = m THEN 1 ELSE 0)
    BY <2>3, <2>4, <2>5, PartsAreNaturals DEF Users, IsOne
  <2>7. CASE n = m
    BY <1>0, <2>1, <2>6, <2>7, FileidGetUse, PathsAssumption DEF Safe
  <2>8. CASE n # m
    BY <1>0, <2>1, <2>6, <2>8, FileidGetUse DEF Safe
  <2> QED BY <2>7, <2>8
<1>2. CASE UseIncrement(c)
  <2> DEFINE n == handle[c]
  <2>1. n \in Mfiles
    BY <1>0, <1>2 DEF UseIncrement, Located, WithHandle
  <2>2. /\ UNCHANGED <<queue, cur, handle, path, apc, apply_m>>
        /\ cpc[c] = "use" /\ cpc' = [cpc EXCEPT ![c] = "queue"]
        /\ use' = [use EXCEPT ![n] = use[n] + 1]
    BY <1>2 DEF UseIncrement, transfer, thread, applier, UseIsNotLost
  <2>3. Cardinality(Queuing(m)') = Cardinality(Queuing(m)) + (IF n = m THEN 1 ELSE 0)
    <3>1. CASE n = m
      <4>1. Queuing(m)' = Queuing(m) \cup {c} /\ c \notin Queuing(m)
        BY <1>0, <2>2, <3>1 DEF Queuing, ProcessTypes
      <4> QED BY <3>1, <4>1, PartsAreNaturals, FS_AddElement
    <3>2. CASE n # m
      <4>1. Queuing(m)' = Queuing(m)
        BY <1>0, <2>2, <3>2 DEF Queuing, ProcessTypes
      <4> QED BY <3>2, <4>1, PartsAreNaturals
    <3> QED BY <3>1, <3>2
  <2>4. UNCHANGED <<Holders(m), Queuings(m), Transferring(m), Applying(m)>>
    BY <2>2 DEF Holders, Queuings, Transferring, Applying
  <2>5. Users(m)' = Users(m) + (IF n = m THEN 1 ELSE 0)
    BY <2>3, <2>4, PartsAreNaturals DEF Users
  <2>6. n = m => path[m] # None
    BY <1>0, UsersAreThere DEF Safe
  <2>7. use'[m] = use[m] + (IF n = m THEN 1 ELSE 0)
    BY <1>0, <2>1, <2>2 DEF FileTypes
  <2> HIDE DEF n
  <2> QED BY <1>0, <2>2, <2>5, <2>6, <2>7 DEF Safe
<1>3. CASE QueueBackup(c)
  <2> DEFINE n == handle[c]
  <2>1. n \in Mfiles /\ BACKUP \in Types
    BY <1>0, <1>3 DEF QueueBackup, Located, WithHandle, Types
  <2>2. /\ UNCHANGED <<use, path, cur, handle, apc, apply_m>>
        /\ cpc[c] = "queue"
        /\ cpc' = [cpc EXCEPT ![c] = IF Queued(n) THEN "idle" ELSE "post"]
        /\ QueueFile(n, BACKUP)
    BY <1>3 DEF QueueBackup, mfile, thread, applier
  <2>3. Cardinality(Queuing(m)') = Cardinality(Queuing(m)) - (IF n = m THEN 1 ELSE 0)
    <3>1. CASE n = m
      <4>1. Queuing(m)' = Queuing(m) \ {c} /\ c \in Queuing(m)
        BY <1>0, <2>2, <3>1 DEF Queuing, ProcessTypes
      <4> QED BY <3>1, <4>1, PartsAreNaturals, FS_RemoveElement
    <3>2. CASE n # m
      <4>1. Queuing(m)' = Queuing(m)
        BY <1>0, <2>2, <3>2 DEF Queuing, ProcessTypes
      <4> QED BY <3>2, <4>1, PartsAreNaturals
    <3> QED BY <3>1, <3>2
  <2>4. Queuings(m)' = Queuings(m) + (IF ~Queued(n) /\ n = m THEN 1 ELSE 0)
    BY <1>0, <2>1, <2>2, QueuingsQueueFile DEF QueueTypes
  <2>5. UNCHANGED <<Holders(m), Transferring(m), Applying(m)>>
    BY <2>2 DEF Holders, Transferring, Applying
  <2> HIDE DEF n
  <2>6. Users(m)' <= Users(m)
    BY <2>3, <2>4, <2>5, PartsAreNaturals DEF Users
  <2>7. Users(m)' \in Nat
    <3>1. m = n => Cardinality(Queuing(m)) > 0
      <4>1. m = n => c \in Queuing(m)
        BY <2>2 DEF Queuing, n
      <4> QED BY <4>1, PartsAreNaturals, FS_EmptySet
    <3> QED BY <2>3, <2>4, <2>5, <3>1, PartsAreNaturals DEF Users
  <2> QED BY <1>0, <2>2, <2>6, <2>7 DEF Safe
<1>4. CASE Release(c)
  <2> DEFINE n == handle[c]
  <2>1. n \in Mfiles /\ Users(n) > 0
    BY <1>0, <1>4, UsersAreThere DEF Release
  <2>2. /\ UNCHANGED <<queue, cur, cpc, apc, apply_m>>
        /\ cpc[c] = "idle" /\ handle' = [handle EXCEPT ![c] = NULL]
        /\ FileRelease(n)
    BY <1>4 DEF Release, transfer, thread, applier
  <2>3. Cardinality(Holders(m)') = Cardinality(Holders(m)) - IsOne(n, m)
    <3>1. DifferAt(Clients, handle, handle', c) /\ handle'[c] = NULL
      BY <1>0, <2>2 DEF DifferAt
    <3>2. IsOne(handle'[c], m) = 0
      BY <3>1 DEF IsOne
    <3>3. Cardinality(Holders(m)') = Cardinality(Holders(m)) - IsOne(handle[c], m) + IsOne(handle'[c], m)
      BY <3>1, HandleDiffers
    <3>4. IsOne(handle[c], m) \in {0, 1}
      BY DEF IsOne
    <3> QED BY <3>2, <3>3, <3>4, PartsAreNaturals
  <2>4. Queuing(m)' = Queuing(m)
    BY <1>0, <2>2 DEF Queuing, ProcessTypes
  <2>5. UNCHANGED <<Queuings(m), Transferring(m), Applying(m)>>
    BY <2>2 DEF Queuings, Transferring, Applying
  <2>6. Users(m)' = Users(m) - (IF n = m THEN 1 ELSE 0)
    BY <2>3, <2>4, <2>5, PartsAreNaturals DEF Users, IsOne
  <2> HIDE DEF n
  <2>7. CASE n = m
    BY <1>0, <2>1, <2>2, <2>6, <2>7, FileReleaseUse DEF Safe
  <2>8. CASE n # m
    BY <1>0, <2>1, <2>2, <2>6, <2>8, FileReleaseUse DEF Safe
  <2> QED BY <2>7, <2>8
<1>5. CASE \/ Backfile(c) \/ PostBackup(c) \/ Write(c) \/ AppendFsync(c) \/ UnlinkCache(c)
           \/ AppendUpdate(c) \/ CreateCache(c) \/ \E p \in Paths : Unlink(c, p) \/ Mknod(c, p)
  <2>1. UNCHANGED <<use, path, queue, handle, cur, apc, apply_m>>
    BY <1>5 DEF Backfile, PostBackup, Write, AppendFsync, UnlinkCache, AppendUpdate, CreateCache,
      Unlink, Mknod, mfile, transfer, thread, applier
  <2>2. \A d \in Clients : cpc'[d] = "queue" <=> cpc[d] = "queue"
    BY <1>0, <1>5 DEF Backfile, PostBackup, Write, AppendFsync, UnlinkCache, AppendUpdate, CreateCache,
      Unlink, Mknod, ProcessTypes
  <2> QED BY <1>0, <2>1, <2>2, SafeUnchanged
<1> QED BY <1>1, <1>2, <1>3, <1>4, <1>5 DEF ClientStep, ClientCall

LEMMA ApplySafe ==
  ASSUME Typing, UseInv, ApplyStart \/ ApplyStep, NEW m \in Mfiles
  PROVE  Safe(m)'
<1> USE NullIsNoFile
<1>0. /\ Safe(m) /\ FileTypes /\ QueueTypes /\ JournalTypes /\ Located
      /\ Users(m) \in Nat /\ use[m] \in Nat
  BY PartsAreNaturals DEF Typing, FileTypes, UseInv
<1>00. UNCHANGED <<handle, cpc, cur>>
  BY DEF ApplyStart, ApplyStep, ApplyNext, ApplyGet, ApplyQueue, ApplyPost, ApplyEnd, client, thread
<1>01. UNCHANGED <<Holders(m), Queuing(m), Transferring(m)>>
  BY <1>00 DEF Holders, Queuing, Transferring
<1>1. CASE ApplyGet /\ Head(todo).path \in exists
  <2> DEFINE p == Head(todo).path
  <2>1. PICK n \in Mfiles : FileidGet(p, n) /\ apply_m' = n
    BY <1>1 DEF ApplyGet
  <2>2. apc = "get" /\ apc' = "queue" /\ UNCHANGED queue
    BY <1>1 DEF ApplyGet, transfer
  <2>3. p \in Paths
    BY <1>0, <1>1 DEF FileTypes
  <2> HIDE DEF p
  <2>4. Queuings(m)' = Queuings(m) /\ Applying(m) = 0 /\ Applying(m)' = IF n = m THEN 1 ELSE 0
    BY <2>1, <2>2 DEF Queuings, Applying
  <2>5. Users(m)' = Users(m) + (IF n = m THEN 1 ELSE 0)
    BY <1>01, <2>4, PartsAreNaturals DEF Users
  <2>6. CASE n = m
    BY <1>0, <2>1, <2>3, <2>5, <2>6, FileidGetUse, PathsAssumption DEF Safe
  <2>7. CASE n # m
    BY <1>0, <2>1, <2>3, <2>5, <2>7, FileidGetUse DEF Safe
  <2> QED BY <2>6, <2>7
<1>2. CASE ApplyQueue
  <2>1. apply_m \in Mfiles /\ WRITEBACK \in Types
    BY <1>0, <1>2 DEF ApplyQueue, JournalTypes, Located, Types
  <2>2. /\ apc = "queue" /\ apc' # "queue" /\ UNCHANGED <<use, path, apply_m>>
        /\ QueueFile(apply_m, WRITEBACK)
    BY <1>2 DEF ApplyQueue, Answered
  <2>3. Queuings(m)' = Queuings(m) + (IF ~Queued(apply_m) /\ apply_m = m THEN 1 ELSE 0)
    BY <1>0, <2>1, <2>2, QueuingsQueueFile DEF QueueTypes
  <2>4. Applying(m)' = 0 /\ Applying(m) = IF apply_m = m THEN 1 ELSE 0
    BY <2>2 DEF Applying
  <2>5. Users(m)' <= Users(m) /\ Users(m)' \in Nat
    BY <1>01, <2>3, <2>4, PartsAreNaturals DEF Users
  <2> QED BY <1>0, <2>2, <2>5 DEF Safe
<1>3. CASE ~(ApplyGet /\ Head(todo).path \in exists) /\ ~ApplyQueue
  <2>1. UNCHANGED <<use, path, queue, apply_m>> /\ (apc' = "queue" <=> apc = "queue")
    BY <1>3 DEF ApplyStart, ApplyStep, ApplyNext, ApplyGet, ApplyPost, ApplyEnd, Answered, mfile, transfer
  <2> QED BY <1>0, <1>00, <2>1, SafeUnchanged
<1> QED BY <1>1, <1>2, <1>3

LEMMA ThreadSafe ==
  ASSUME Typing, UseInv, NEW t \in Threads, ThreadStep(t), NEW m \in Mfiles
  PROVE  Safe(m)'
<1> USE NullIsNoFile DEF TGoto
<1>0. /\ Safe(m) /\ FileTypes /\ QueueTypes /\ ProcessTypes /\ Located
      /\ Users(m) \in Nat /\ use[m] \in Nat
  BY PartsAreNaturals DEF Typing, FileTypes, UseInv
<1>00. UNCHANGED <<handle, cpc, apc, apply_m>>
  BY DEF ThreadStep, SemWait, GetNext, DoTransfer, CreateBacking, Copy, UnlinkBacking,
    NotifySyncEnd, ReleaseTransfer, client, applier
<1>01. UNCHANGED <<Holders(m), Queuing(m), Applying(m)>>
  BY <1>00 DEF Holders, Queuing, Applying
<1>1. CASE GetNext(t) /\ Mine(t) # {}
  <2> DEFINE n == queue[Taken(t)].mfile
  <2>1. /\ queue' = RemoveAt(queue, Taken(t)) /\ cur' = [cur EXCEPT ![t] = n]
        /\ tpc[t] = "get_next" /\ UNCHANGED <<use, path>>
    BY <1>1, Zenon DEF GetNext, Taken
  <2>2. cur[t] = NULL /\ n \in Mfiles
    BY <1>0, <1>1, <2>1, TakenIsMine DEF Located, Waits
  <2>3. Queuings(m)' = Queuings(m) - IsOne(n, m)
    BY <1>1, <2>1, QueuingsTaken DEF IsOne
  <2>4. Cardinality(Transferring(m)') = Cardinality(Transferring(m)) + IsOne(n, m)
    <3> HIDE DEF n
    <3>1. DifferAt(Threads, cur, cur', t) /\ cur'[t] = n
      BY <1>0, <2>1 DEF DifferAt, ProcessTypes
    <3>2. IsOne(cur[t], m) = 0
      BY <2>2 DEF IsOne
    <3>3. Cardinality(Transferring(m)') =
          Cardinality(Transferring(m)) - IsOne(cur[t], m) + IsOne(cur'[t], m)
      BY <3>1, CurDiffers
    <3> QED BY <3>1, <3>2, <3>3, PartsAreNaturals
  <2> HIDE DEF n
  <2>5. IsOne(n, m) \in {0, 1}
    BY DEF IsOne
  <2>6. Users(m)' = Users(m)
    BY <1>01, <2>3, <2>4, <2>5, PartsAreNaturals DEF Users
  <2> QED BY <1>0, <2>1, <2>6 DEF Safe
<1>2. CASE ReleaseTransfer(t)
  <2> DEFINE n == cur[t]
  <2>1. n \in Mfiles /\ Users(n) > 0
    BY <1>0, <1>2, UsersAreThere DEF ReleaseTransfer, ProcessTypes, Located, Waits
  <2>2. UNCHANGED queue /\ cur' = [cur EXCEPT ![t] = NULL] /\ FileRelease(n)
    BY <1>2 DEF ReleaseTransfer, transfer
  <2>3. Cardinality(Transferring(m)') = Cardinality(Transferring(m)) - IsOne(n, m)
    <3>1. DifferAt(Threads, cur, cur', t) /\ cur'[t] = NULL
      BY <1>0, <2>2 DEF DifferAt, ProcessTypes
    <3>2. IsOne(cur'[t], m) = 0
      BY <3>1 DEF IsOne
    <3>3. Cardinality(Transferring(m)') =
          Cardinality(Transferring(m)) - IsOne(cur[t], m) + IsOne(cur'[t], m)
      BY <3>1, CurDiffers
    <3>4. IsOne(cur[t], m) \in {0, 1}
      BY DEF IsOne
    <3> QED BY <3>2, <3>3, <3>4, PartsAreNaturals
  <2>4. Queuings(m)' = Queuings(m)
    BY <2>2 DEF Queuings
  <2>5. Users(m)' = Users(m) - (IF n = m THEN 1 ELSE 0)
    BY <1>01, <2>3, <2>4, PartsAreNaturals DEF Users, IsOne
  <2> HIDE DEF n
  <2>6. CASE n = m
    BY <1>0, <2>1, <2>2, <2>5, <2>6, FileReleaseUse DEF Safe
  <2>7. CASE n # m
    BY <1>0, <2>1, <2>2, <2>5, <2>7, FileReleaseUse DEF Safe
  <2> QED BY <2>6, <2>7
<1>3. CASE ~(GetNext(t) /\ Mine(t) # {}) /\ ~ReleaseTransfer(t)
  <2>1. UNCHANGED <<use, path, queue, cur>>
    BY <1>3 DEF ThreadStep, SemWait, GetNext, DoTransfer, CreateBacking, Copy, UnlinkBacking,
      NotifySyncEnd, mfile, transfer
  <2> QED BY <1>0, <1>00, <2>1, SafeUnchanged
<1> QED BY <1>1, <1>2, <1>3

LEMMA FhStep ==
  ASSUME Typing, UseInv, [Next]_vars
  PROVE  FhIsTheFile'
<1>0. FileTypes /\ ProcessTypes /\ Located /\ FhIsTheFile
  BY DEF Typing, UseInv
<1> USE NullIsNoFile
<1>1. ASSUME NEW p \in Paths, NEW n \in Mfiles, FileidGet(p, n) PROVE FhIsTheFile'
  BY <1>1, FileidGetUse
<1>2. ASSUME NEW n \in Mfiles, Users(n) > 0, FileRelease(n) PROVE FhIsTheFile'
  BY <1>2, FileReleaseUse
<1>3. ASSUME UNCHANGED <<fh, path, linked>> PROVE FhIsTheFile'
  BY <1>0, <1>3 DEF FhIsTheFile
<1>4. ASSUME NEW c \in Clients, ClientStep(c) \/ ClientCall(c) PROVE FhIsTheFile'
  <2>1. ASSUME NEW p \in Paths, Open(c, p) PROVE FhIsTheFile'
    BY <1>1, <2>1 DEF Open
  <2>2. CASE Release(c)
    BY <1>0, <1>2, <2>2, UsersAreThere DEF Release, ProcessTypes
  <2>3. ASSUME NEW p \in Paths, Unlink(c, p) PROVE FhIsTheFile'
    <3>1. /\ fh' = [fh EXCEPT ![p] = NULL] /\ UNCHANGED path
          /\ linked' = IF fh[p] # NULL THEN [linked EXCEPT ![fh[p]] = FALSE] ELSE linked
      BY <2>3 DEF Unlink
    <3> SUFFICES ASSUME NEW q \in Paths, fh'[q] # NULL
                 PROVE  path'[fh'[q]] = q /\ linked'[fh'[q]]
      BY DEF FhIsTheFile
    <3>2. q # p /\ fh'[q] = fh[q]
      BY <1>0, <3>1 DEF FileTypes
    <3>3. fh[q] \in Mfiles /\ path[fh[q]] = q /\ linked[fh[q]]
      BY <1>0, <3>2 DEF FileTypes, FhIsTheFile
    <3>4. fh[p] # NULL => fh[p] # fh[q]
      BY <1>0, <3>2, <3>3 DEF FhIsTheFile
    <3>5. linked'[fh[q]] = linked[fh[q]]
      <4>1. CASE fh[p] # NULL
        BY <1>0, <3>1, <3>3, <3>4, <4>1 DEF FileTypes
      <4>2. CASE fh[p] = NULL
        BY <3>1, <4>2
      <4> QED BY <4>1, <4>2
    <3> QED BY <3>1, <3>2, <3>3, <3>5
  <2>4. CASE \/ ClientStep(c) \/ Write(c) \/ \E p \in Paths : Mknod(c, p)
    <3>1. UNCHANGED <<fh, path, linked>>
      BY <2>4 DEF ClientStep, Backfile, UseIncrement, QueueBackup, PostBackup, AppendFsync,
        UnlinkCache, AppendUpdate, CreateCache, Write, Mknod, meta, mfile
    <3> QED BY <1>3, <3>1
  <2> QED BY <1>4, <2>1, <2>2, <2>3, <2>4 DEF ClientCall
<1>5. ASSUME ApplyStart \/ ApplyStep PROVE FhIsTheFile'
  <2>1. CASE ApplyGet /\ Head(todo).path \in exists
    <3>1. PICK n \in Mfiles : FileidGet(Head(todo).path, n)
      BY <2>1 DEF ApplyGet
    <3> QED BY <1>0, <1>1, <2>1, <3>1 DEF FileTypes
  <2>2. CASE ~(ApplyGet /\ Head(todo).path \in exists)
    <3>1. UNCHANGED <<fh, path, linked>>
      BY <1>5, <2>2 DEF ApplyStart, ApplyStep, ApplyNext, ApplyGet, ApplyQueue, ApplyPost, ApplyEnd,
        meta, mfile
    <3> QED BY <1>3, <3>1
  <2> QED BY <2>1, <2>2
<1>6. ASSUME NEW t \in Threads, ThreadStep(t) PROVE FhIsTheFile'
  <2>1. CASE DoTransfer(t)
    <3>1. UNCHANGED <<fh, path>> /\ (linked' = linked \/ linked' = [linked EXCEPT ![cur[t]] = TRUE])
      BY <2>1, Zenon DEF DoTransfer, meta
    <3> QED BY <1>0, <3>1 DEF FhIsTheFile, FileTypes
  <2>2. CASE ReleaseTransfer(t)
    BY <1>0, <1>2, <2>2, UsersAreThere DEF ReleaseTransfer, ProcessTypes, Located, Waits
  <2>3. CASE ~DoTransfer(t) /\ ~ReleaseTransfer(t)
    <3>1. UNCHANGED <<fh, path, linked>>
      BY <1>6, <2>3 DEF ThreadStep, SemWait, GetNext, CreateBacking, Copy, UnlinkBacking,
        NotifySyncEnd, meta, mfile
    <3> QED BY <1>3, <3>1
  <2> QED BY <2>1, <2>2, <2>3
<1>7. CASE UNCHANGED vars
  BY <1>3, <1>7 DEF vars, meta, mfile
<1> QED BY <1>4, <1>5, <1>6, <1>7 DEF Next

LEMMA PathsStep ==
  ASSUME Typing, UseInv, [Next]_vars
  PROVE  PathsKnown'
<1>0. /\ FileTypes /\ JournalTypes /\ ProcessTypes /\ Located
      /\ incache \subseteq Paths /\ journal \in Seq(Entries) /\ todo \in Seq(Entries)
  BY DEF Typing, UseInv, PathsKnown
<1> USE NullIsNoFile
<1>1. ASSUME NEW c \in Clients, ClientStep(c) \/ ClientCall(c) PROVE PathsKnown'
  <2>0. todo' = todo
    BY <1>1 DEF ClientStep, ClientCall, Backfile, UseIncrement, QueueBackup, PostBackup, AppendFsync,
      UnlinkCache, AppendUpdate, CreateCache, Open, Write, Release, Unlink, Mknod, applier
  <2>1. CASE AppendFsync(c)
    <3>1. handle[c] \in Mfiles /\ Users(handle[c]) > 0
      BY <1>0, <2>1, UsersAreThere DEF AppendFsync, ProcessTypes, Located, WithHandle
    <3>2. [op |-> "fsync", path |-> path[handle[c]]] \in Entries
      BY <3>1, UsersHavePaths DEF Entries
    <3>3. UNCHANGED incache /\ journal' = Append(journal, [op |-> "fsync", path |-> path[handle[c]]])
      BY <2>1 DEF AppendFsync, JournalAppend, meta
    <3> QED BY <1>0, <2>0, <3>2, <3>3 DEF PathsKnown
  <2>2. CASE AppendUpdate(c)
    <3>1. [op |-> "update", path |-> cpath[c]] \in Entries
      BY <1>0, <2>2 DEF AppendUpdate, Located, WithPath, Entries
    <3>2. UNCHANGED incache /\ journal' = Append(journal, [op |-> "update", path |-> cpath[c]])
      BY <2>2 DEF AppendUpdate, JournalAppend, meta
    <3> QED BY <1>0, <2>0, <3>1, <3>2 DEF PathsKnown
  <2>3. CASE UnlinkCache(c) \/ CreateCache(c)
    <3>1. UNCHANGED journal /\ cpath[c] \in Paths /\ incache' \subseteq incache \cup {cpath[c]}
      BY <1>0, <2>3 DEF UnlinkCache, CreateCache, Located, WithPath, jvars
    <3> QED BY <1>0, <2>0, <3>1 DEF PathsKnown
  <2>4. CASE ~AppendFsync(c) /\ ~AppendUpdate(c) /\ ~UnlinkCache(c) /\ ~CreateCache(c)
    <3>1. UNCHANGED <<incache, journal>>
      BY <1>1, <2>4 DEF ClientStep, ClientCall, Backfile, UseIncrement, QueueBackup, PostBackup,
        Open, Write, Release, FileRelease, Unlink, Mknod, jvars, meta
    <3> QED BY <1>0, <2>0, <3>1 DEF PathsKnown
  <2> QED BY <2>1, <2>2, <2>3, <2>4
<1>2. ASSUME ApplyStart \/ ApplyStep PROVE PathsKnown'
  <2>1. incache' = incache
    BY <1>2 DEF ApplyStart, ApplyStep, ApplyNext, ApplyGet, ApplyQueue, ApplyPost, ApplyEnd, meta
  <2>2. CASE ApplyStart
    <3>1. \/ UNCHANGED <<journal, todo>>
          \/ journal' = <<>> /\ todo' = journal
      BY <2>2, Zenon DEF ApplyStart, jvars
    <3>2. <<>> \in Seq(Entries)
      OBVIOUS
    <3> QED BY <1>0, <2>1, <3>1, <3>2, Zenon DEF PathsKnown
  <2>3. CASE ApplyStep
    <3>1. todo' = todo \/ (todo # <<>> /\ todo' = Tail(todo))
      BY <1>0, <2>3 DEF ApplyStep, ApplyNext, ApplyGet, ApplyQueue, ApplyPost, ApplyEnd, Answered, Located
    <3>2. journal' = journal
      BY <2>3 DEF ApplyStep, ApplyNext, ApplyGet, ApplyQueue, ApplyPost, ApplyEnd, Answered, jvars
    <3> QED BY <1>0, <2>1, <3>1, <3>2 DEF PathsKnown
  <2> QED BY <1>2, <2>2, <2>3
<1>3. ASSUME NEW t \in Threads, ThreadStep(t) PROVE PathsKnown'
  <2>1. UNCHANGED <<journal, todo>>
    BY <1>3 DEF ThreadStep, SemWait, GetNext, DoTransfer, CreateBacking, Copy, UnlinkBacking,
      NotifySyncEnd, ReleaseTransfer, jvars, applier
  <2>2. CASE CreateBacking(t) \/ UnlinkBacking(t)
    <3>1. cur[t] \in Mfiles /\ Users(cur[t]) > 0
      BY <1>0, <2>2, UsersAreThere DEF CreateBacking, UnlinkBacking, ProcessTypes, Located, Waits
    <3>2. path[cur[t]] \in Paths
      BY <3>1, UsersHavePaths
    <3>3. incache' \subseteq incache \cup {path[cur[t]]}
      BY <2>2 DEF CreateBacking, UnlinkBacking
    <3> QED BY <1>0, <2>1, <3>2, <3>3 DEF PathsKnown
  <2>3. CASE ~CreateBacking(t) /\ ~UnlinkBacking(t)
    <3>1. incache' = incache
      BY <1>3, <2>3 DEF ThreadStep, SemWait, GetNext, DoTransfer, Copy, NotifySyncEnd,
        ReleaseTransfer, FileRelease, meta
    <3> QED BY <1>0, <2>1, <3>1 DEF PathsKnown
  <2> QED BY <2>2, <2>3
<1>4. CASE UNCHANGED vars
  BY <1>0, <1>4 DEF PathsKnown, vars, meta, jvars, applier
<1> QED BY <1>1, <1>2, <1>3, <1>4 DEF Next

-----------------------------------------------------------------------------
LEMMA UseInvInit == Init => UseInv
<1> SUFFICES ASSUME Init PROVE UseInv
  OBVIOUS
<1>1. ASSUME NEW m \in Mfiles PROVE Safe(m)
  <2>1. Holders(m) = {} /\ Queuing(m) = {} /\ Transferring(m) = {}
    BY NullIsNoFile DEF Init, Holders, Queuing, Transferring, Having
  <2>2. Positions(queue, Of(m)) = {} /\ Applying(m) = 0 /\ use[m] = 0
    BY DEF Init, Positions, Applying
  <2>3. Users(m) = 0
    BY <2>1, <2>2, FS_EmptySet DEF Users, Queuings
  <2> QED BY <2>2, <2>3 DEF Safe
<1>2. FhIsTheFile
  BY DEF Init, FhIsTheFile
<1>3. PathsKnown
  BY PathsAssumption DEF Init, PathsKnown
<1> QED BY <1>1, <1>2, <1>3 DEF UseInv

LEMMA UseInvStep ==
  ASSUME UseIsNotLost, Typing, UseInv, [Next]_vars
  PROVE  UseInv'
<1>1. ASSUME NEW m \in Mfiles PROVE Safe(m)'
  <2>1. CASE Next
    BY <2>1, ClientSafe, ApplySafe, ThreadSafe DEF Next
  <2>2. CASE UNCHANGED vars
    BY <2>2, SafeUnchanged DEF UseInv, vars, mfile, transfer, client, thread, applier
  <2> QED BY <2>1, <2>2
<1> QED BY <1>1, FhStep, PathsStep DEF UseInv

LEMMA UseInvHolds == ASSUME UseIsNotLost PROVE Spec => [](Typing /\ UseInv)
<1>1. Init => Typing /\ UseInv
  BY TypingInit, UseInvInit
<1>2. Typing /\ UseInv /\ [Next]_vars => (Typing /\ UseInv)'
  BY TypingStep, UseInvStep
<1> QED BY <1>1, <1>2, PTL DEF Spec

(* No mcachefs_file_t is freed while a handle, a queue entry, a transfer or
   the applier can still reach it, whatever is opened, released, removed and
   transferred, in any order and with any failure. *)
THEOREM NoUseAfterFreeHolds == ASSUME UseIsNotLost PROVE Spec => []NoUseAfterFree
<1>1. Typing /\ UseInv => NoUseAfterFree
  BY RefsAreUsers DEF UseInv, Typing, QueueTypes
<1> QED BY <1>1, UseInvHolds, PTL

(* Type correctness, which needs the structures not to be freed too early:
   the paths of the journal and of the cache are read from them. *)
THEOREM TypeCorrect == ASSUME UseIsNotLost PROVE Spec => []TypeOK
<1>1. Typing /\ UseInv => TypeOK
  BY DEF Typing, FileTypes, QueueTypes, JournalTypes, ProcessTypes, UseInv, PathsKnown, TypeOK,
    Items, MaybePaths
<1> QED BY <1>1, UseInvHolds, PTL

================================================================================
