--------------------------- MODULE FileSourceProofs ---------------------------
(***************************************************************************)
(* Proofs about FileSource, for any number of threads, any descriptor      *)
(* table and any set of operations.                                        *)
(***************************************************************************)
EXTENDS FileSource, FiniteSetTheorems, TLAPS

(* The code of mcachefs_write_file takes only -1 for an error, so what      *)
(* follows needs an open made by a writer to fail with EPERM (1) only.      *)
WritersSeeErrors == "write" \in Ops => Errno \subseteq {1}

(* What a thread holds is determined by where it is. *)
Acquired(t) == IF stage[t] = 2 THEN {First(op[t])} ELSE {}
Wanted(o) == IF o \in Transfers THEN Sources ELSE {First(o)}

HeldAt(t) ==
  CASE pc[t] \in {"open", "wait"} -> Acquired(t)
    [] pc[t] = "ret" -> Acquired(t) \cup {Current(t)}
    [] pc[t] = "got" -> IF fdv[t][Current(t)] < 0 THEN Acquired(t)
                                                  ELSE Acquired(t) \cup {Current(t)}
    [] pc[t] \in {"io", "put", "put_real", "err_put_real"} -> Wanted(op[t])
    [] pc[t] \in {"put_backing", "err_put_backing"} -> {BACKING}
    [] pc[t] \in {"idle", "ended", "failed"} -> {}

TransferLabels == {"put_real", "put_backing", "err_put_real", "err_put_backing", "ended", "failed"}

ThreadInv ==
  \A t \in Threads :
    /\ held[t] = HeldAt(t)
    /\ stage[t] = 2 /\ pc[t] # "idle" => op[t] \in Transfers
    /\ pc[t] \in TransferLabels => op[t] \in Transfers
    /\ pc[t] = "put" => op[t] \notin Transfers
    /\ pc[t] # "idle" => op[t] \in Ops

(* The table and the sources agree in both directions. *)
SourceOpen ==
  \A s \in Sources : fd[s] # -1 =>
    table[fd[s]] = [file |-> s, wr |-> wr[s]]

(* A held source is open in a sufficient mode, and its holder's local
   descriptor is the source's once the holder has read it. *)
HeldOpen ==
  \A t \in Threads : \A s \in held[t] :
    /\ fd[s] # -1
    /\ AskedWr(op[t], s) <= wr[s]
    /\ ~(pc[t] = "ret" /\ s = Current(t)) => fdv[t][s] = fd[s]

IInv ==
  /\ TypeOK
  /\ UseCountsHolders
  /\ ThreadInv
  /\ SourceOpen
  /\ NoFdLeak
  /\ HeldOpen

-----------------------------------------------------------------------------
(* Small facts *)

LEMMA AskedWrType == \A o, s : AskedWr(o, s) \in {0, 1}
  BY DEF AskedWr

LEMMA FirstType == \A o : First(o) \in Sources /\ Other(First(o)) \in Sources
                         /\ Other(First(o)) # First(o)
                         /\ Sources = {First(o), Other(First(o))}
  BY DEF First, Other, Sources, BACKING, REAL

LEMMA CurrentType == \A t : Current(t) \in Sources
  BY FirstType DEF Current

LEMMA ClosedType ==
  ASSUME NEW f, table \in [FDs -> [file : Sources \cup {-1}, wr : {0, 1}]]
  PROVE  Closed(table, f) \in [FDs -> [file : Sources \cup {-1}, wr : {0, 1}]]
  BY DEF Closed, Free

LEMMA PutfdType ==
  ASSUME TypeOK, NEW t \in Threads, NEW s \in Sources, Putfd(t, s)
  PROVE  use' \in [Sources -> Nat] /\ held' \in [Threads -> SUBSET Sources]
<1>1. (IF use[s] = 0 THEN 0 ELSE use[s] - 1) \in Nat
  BY DEF TypeOK
<1>2. use' \in [Sources -> Nat]
  BY <1>1 DEF TypeOK, Putfd
<1>3. held' \in [Threads -> SUBSET Sources]
  BY DEF TypeOK, Putfd
<1> QED BY <1>2, <1>3

(* No step leaves the types. *)
LEMMA TypeStep == TypeOK /\ [Next]_vars => TypeOK'
<1> SUFFICES ASSUME TypeOK, [Next]_vars PROVE TypeOK'
  OBVIOUS
<1> USE DEF TypeOK, Labels, FdValues, Goto
<1>1. CASE UNCHANGED vars
  BY <1>1 DEF vars
<1>2. CASE Backfile
  BY <1>2 DEF Backfile
<1>3. CASE Writeback
  BY <1>3 DEF Writeback
<1>4. CASE CleanupFile
  <2>1. fd' \in [Sources -> FdValues]
    BY <1>4 DEF CleanupFile
  <2>2. table' \in [FDs -> [file : Sources \cup {-1}, wr : {0, 1}]]
    BY <1>4 DEF CleanupFile, Free
  <2> QED BY <1>4, <2>1, <2>2 DEF CleanupFile
<1>5. ASSUME NEW t \in Threads, NEW o \in Ops, Start(t, o) PROVE TypeOK'
  BY <1>5, OpsAssumption DEF Start
<1>6. ASSUME NEW t \in Threads, Step(t) PROVE TypeOK'
  <2> USE CurrentType, AskedWrType, FirstType
  <2> Current(t) \in Sources
    OBVIOUS
  <2>1. CASE Reuse(t)
    BY <2>1 DEF Reuse
  <2>2. CASE Wait(t)
    BY <2>2 DEF Wait
  <2>3. CASE Open(t)
    <3> PICK f \in FDs :
          /\ fd' = [fd EXCEPT ![Current(t)] = f]
          /\ table' = [Closed(table, fd[Current(t)]) EXCEPT ![f] =
                         [file |-> Current(t), wr |-> AskedWr(op[t], Current(t))]]
      BY <2>3 DEF Open
    <3>1. table' \in [FDs -> [file : Sources \cup {-1}, wr : {0, 1}]]
      BY ClosedType
    <3> QED BY <2>3, <3>1 DEF Open
  <2>4. CASE OpenFails(t)
    <3>1. table' \in [FDs -> [file : Sources \cup {-1}, wr : {0, 1}]]
      BY <2>4, ClosedType DEF OpenFails
    <3> QED BY <2>4, <3>1 DEF OpenFails
  <2>5. CASE ReturnFd(t)
    BY <2>5 DEF ReturnFd
  <2>6. CASE GotFd(t)
    BY <2>6 DEF GotFd
  <2>7. CASE GotError(t)
    <3>1. CASE stage[t] = 2
      <4>1. use' \in [Sources -> Nat] /\ held' \in [Threads -> SUBSET Sources]
        BY <2>7, <3>1, PutfdType DEF GotError
      <4> QED BY <2>7, <4>1 DEF GotError
    <3>2. CASE stage[t] # 2
      BY <2>7, <3>2 DEF GotError
    <3> QED BY <3>1, <3>2
  <2>8. CASE Io(t)
    BY <2>8 DEF Io
  <2>9. CASE Put(t)
    BY <2>9 DEF Put, Putfd
  <2>10. CASE PutReal(t)
    BY <2>10 DEF PutReal, Putfd, Sources
  <2>11. CASE PutBacking(t)
    BY <2>11 DEF PutBacking, Putfd, Sources
  <2>12. CASE TransferEnds(t)
    <3>1. table' \in [FDs -> [file : Sources \cup {-1}, wr : {0, 1}]]
      BY <2>12, ClosedType DEF TransferEnds
    <3> QED BY <2>12, <3>1 DEF TransferEnds, Sources
  <2>13. CASE TransferFails(t)
    BY <2>13 DEF TransferFails
  <2> QED
    BY <1>6, <2>1, <2>2, <2>3, <2>4, <2>5, <2>6, <2>7, <2>8, <2>9, <2>10, <2>11, <2>12, <2>13
    DEF Step
<1> QED
  BY <1>1, <1>2, <1>3, <1>4, <1>5, <1>6 DEF Next, AllDone

(* Every variable keeps its type, whatever the threads do: in particular no
   use count of a source goes below zero. *)
THEOREM TypeCorrect == Spec => []TypeOK
<1>1. Init => TypeOK
  BY DEF Init, TypeOK, Labels, FdValues, Free, AllOps
<1> QED
  BY <1>1, TypeStep, PTL DEF Spec

-----------------------------------------------------------------------------
(* Counting the holders *)

LEMMA HoldersFinite ==
  ASSUME NEW s \in Sources
  PROVE  IsFiniteSet(Holders(s)) /\ Cardinality(Holders(s)) \in Nat
<1>1. IsFiniteSet(Holders(s))
  BY ThreadsAssumption, FS_Subset DEF Holders
<1> QED BY <1>1, FS_CardinalityType

(* A use count is zero exactly when nobody holds the source. *)
LEMMA UnusedUnheld ==
  ASSUME UseCountsHolders, NEW s \in Sources
  PROVE  use[s] = 0 <=> \A t \in Threads : s \notin held[t]
<1>1. use[s] = 0 <=> Holders(s) = {}
  BY HoldersFinite, FS_EmptySet DEF UseCountsHolders
<1> QED BY <1>1 DEF Holders

LEMMA GainHolder ==
  ASSUME TypeOK, UseCountsHolders, NEW t \in Threads, NEW s \in Sources, s \notin held[t],
         held' = [held EXCEPT ![t] = @ \cup {s}], use' = [use EXCEPT ![s] = @ + 1]
  PROVE  UseCountsHolders'
<1> SUFFICES ASSUME NEW r \in Sources PROVE use'[r] = Cardinality(Holders(r)')
  BY DEF UseCountsHolders
<1> USE DEF TypeOK
<1>1. CASE r = s
  <2>1. Holders(r)' = Holders(r) \cup {t} /\ t \notin Holders(r)
    BY <1>1 DEF Holders
  <2>2. Cardinality(Holders(r) \cup {t}) = Cardinality(Holders(r)) + 1
    BY <2>1, HoldersFinite, FS_AddElement
  <2> QED BY <1>1, <2>1, <2>2 DEF UseCountsHolders
<1>2. CASE r # s
  <2>1. Holders(r)' = Holders(r)
    BY <1>2 DEF Holders
  <2> QED BY <1>2, <2>1 DEF UseCountsHolders
<1> QED BY <1>1, <1>2

LEMMA LoseHolder ==
  ASSUME TypeOK, UseCountsHolders, NEW t \in Threads, NEW s \in Sources, s \in held[t], Putfd(t, s)
  PROVE  UseCountsHolders'
<1> SUFFICES ASSUME NEW r \in Sources PROVE use'[r] = Cardinality(Holders(r)')
  BY DEF UseCountsHolders
<1> USE DEF TypeOK
<1>1. CASE r = s
  <2>1. Holders(r)' = Holders(r) \ {t} /\ t \in Holders(r)
    BY <1>1 DEF Holders, Putfd
  <2>2. Cardinality(Holders(r) \ {t}) = Cardinality(Holders(r)) - 1
    BY <2>1, HoldersFinite, FS_RemoveElement
  <2>3. use[s] # 0
    BY UnusedUnheld
  <2>4. use'[s] = use[s] - 1
    BY <2>3 DEF Putfd
  <2> QED BY <1>1, <2>1, <2>2, <2>4 DEF UseCountsHolders
<1>2. CASE r # s
  <2>1. Holders(r)' = Holders(r)
    BY <1>2 DEF Holders, Putfd
  <2>2. use'[r] = use[r]
    BY <1>2 DEF Putfd
  <2> QED BY <2>1, <2>2 DEF UseCountsHolders
<1> QED BY <1>1, <1>2

LEMMA SameHolders ==
  ASSUME UseCountsHolders, UNCHANGED <<held, use>>
  PROVE  UseCountsHolders'
  BY DEF UseCountsHolders, Holders

-----------------------------------------------------------------------------
(* The invariant is inductive *)

(* What one thread's own state says of what it holds. *)
Local(t) ==
  /\ held[t] = HeldAt(t)
  /\ stage[t] = 2 /\ pc[t] # "idle" => op[t] \in Transfers
  /\ pc[t] \in TransferLabels => op[t] \in Transfers
  /\ pc[t] = "put" => op[t] \notin Transfers
  /\ pc[t] # "idle" => op[t] \in Ops

(* A step of t leaves the local state of every other thread alone. *)
OnlyMoves(t) ==
  \A u \in Threads \ {t} :
    /\ pc'[u] = pc[u] /\ op'[u] = op[u] /\ stage'[u] = stage[u]
    /\ fdv'[u] = fdv[u] /\ held'[u] = held[u]

LEMMA StepsAreLocal ==
  ASSUME TypeOK, NEW t \in Threads, Step(t) \/ \E o \in Ops : Start(t, o)
  PROVE  OnlyMoves(t)
<1> USE DEF TypeOK, OnlyMoves, Goto
<1>1. CASE \E o \in Ops : Start(t, o)
  BY <1>1 DEF Start
<1>2. CASE Reuse(t) \/ Wait(t) \/ Open(t) \/ OpenFails(t) \/ ReturnFd(t)
  BY <1>2 DEF Reuse, Wait, Open, OpenFails, ReturnFd
<1>3. CASE GotFd(t) \/ Io(t) \/ TransferEnds(t) \/ TransferFails(t)
  BY <1>3 DEF GotFd, Io, TransferEnds, TransferFails
<1>4. CASE GotError(t) \/ Put(t) \/ PutReal(t) \/ PutBacking(t)
  BY <1>4 DEF GotError, Put, PutReal, PutBacking, Putfd
<1> QED BY <1>1, <1>2, <1>3, <1>4 DEF Step

LEMMA OthersUnmoved ==
  ASSUME TypeOK, ThreadInv, NEW t \in Threads, OnlyMoves(t), Local(t)'
  PROVE  ThreadInv'
<1> SUFFICES ASSUME NEW u \in Threads PROVE Local(u)'
  BY DEF ThreadInv, Local
<1>1. CASE u # t
  <2>1. Local(u)
    BY DEF ThreadInv, Local
  <2>2. Current(u)' = Current(u) /\ Acquired(u)' = Acquired(u)
    BY <1>1 DEF OnlyMoves, Current, Acquired
  <2>3. HeldAt(u)' = HeldAt(u)
    BY <1>1, <2>2 DEF OnlyMoves, HeldAt
  <2> QED BY <1>1, <2>1, <2>3 DEF OnlyMoves, Local
<1> QED BY <1>1

HeldLocal(t) ==
  \A s \in held[t] :
    /\ fd[s] # -1
    /\ AskedWr(op[t], s) <= wr[s]
    /\ ~(pc[t] = "ret" /\ s = Current(t)) => fdv[t][s] = fd[s]

LEMMA OthersHold ==
  ASSUME TypeOK, HeldOpen, NEW t \in Threads, OnlyMoves(t), HeldLocal(t)',
         \A u \in Threads \ {t} : \A s \in held[u] : fd'[s] = fd[s] /\ wr'[s] = wr[s]
  PROVE  HeldOpen'
<1> SUFFICES ASSUME NEW u \in Threads PROVE HeldLocal(u)'
  BY DEF HeldOpen, HeldLocal
<1>1. CASE u # t
  <2>1. HeldLocal(u)
    BY DEF HeldOpen, HeldLocal
  <2>2. Current(u)' = Current(u)
    BY <1>1 DEF OnlyMoves, Current
  <2> QED BY <1>1, <2>1, <2>2 DEF OnlyMoves, HeldLocal, AskedWr
<1> QED BY <1>1

LEMMA DescriptorsKept ==
  ASSUME SourceOpen, NoFdLeak, UNCHANGED <<fd, wr, table>>
  PROVE  SourceOpen' /\ NoFdLeak'
  BY DEF SourceOpen, NoFdLeak

(* Steps that only move a thread, and perhaps set its local descriptor. *)
LEMMA QuietStep ==
  ASSUME IInv, NEW t \in Threads, OnlyMoves(t), Local(t)', HeldLocal(t)',
         UNCHANGED <<fd, wr, table, use, held>>
  PROVE  UseCountsHolders' /\ ThreadInv' /\ SourceOpen' /\ NoFdLeak' /\ HeldOpen'
  BY SameHolders, OthersUnmoved, OthersHold, DescriptorsKept DEF IInv

LEMMA LocalNow ==
  ASSUME IInv, NEW t \in Threads PROVE Local(t) /\ HeldLocal(t)
  BY DEF IInv, ThreadInv, HeldOpen, Local, HeldLocal

LEMMA QuietCases ==
  ASSUME IInv, WritersSeeErrors, NEW t \in Threads,
         \/ Wait(t) \/ ReturnFd(t) \/ GotFd(t) \/ Io(t) \/ TransferFails(t)
         \/ \E o \in Ops : Start(t, o)
  PROVE  Local(t)' /\ HeldLocal(t)'
<1> USE DEF Local, HeldLocal, HeldAt, Acquired, Wanted, Goto, Current, TransferLabels
<1> /\ Local(t) /\ HeldLocal(t) /\ TypeOK
  BY LocalNow DEF IInv
<1> USE DEF TypeOK
<1>1. CASE Wait(t)
  <2>1. Local(t)'
    BY <1>1 DEF Wait
  <2>2. HeldLocal(t)'
    BY <1>1 DEF Wait
  <2> QED BY <2>1, <2>2
<1>2. CASE ReturnFd(t)
  <2> First(op[t]) \in Sources /\ Other(First(op[t])) \in Sources /\ Other(First(op[t])) # First(op[t])
    BY FirstType
  <2>0. Current(t) \in held[t] /\ fd[Current(t)] \in FDs /\ Current(t)' = Current(t)
    BY <1>2 DEF ReturnFd, FdValues
  <2>1. Local(t)'
    <3>1. fdv'[t][Current(t)] = fd[Current(t)] /\ fd[Current(t)] >= 0
      BY <1>2, <2>0, FDsAssumption DEF ReturnFd
    <3>2. ~((fdv[t][Current(t)])' < 0)
      BY <2>0, <3>1, FDsAssumption
    <3>3. HeldAt(t)' = (Acquired(t) \cup {Current(t)})'
      BY <1>2, <3>2 DEF ReturnFd
    <3>4. HeldAt(t) = (Acquired(t) \cup {Current(t)})'
      BY <1>2 DEF ReturnFd
    <3>5. pc'[t] = "got" /\ held' = held /\ op' = op /\ stage' = stage
      BY <1>2 DEF ReturnFd
    <3> HIDE DEF HeldAt, Acquired, Current
    <3> QED BY <1>2, <3>3, <3>4, <3>5 DEF ReturnFd
  <2>2. HeldLocal(t)'
    BY <1>2, <2>0 DEF ReturnFd
  <2> QED BY <2>1, <2>2
<1>3. CASE GotFd(t)
  <2> First(op[t]) \in Sources /\ Sources = {First(op[t]), Other(First(op[t]))}
    BY FirstType
  <2>0. ~(fdv[t][Current(t)] < 0)
    BY <1>3, ErrnoAssumption, FDsAssumption DEF GotFd, SeenAsError, WritersSeeErrors, FdValues
  <2>1. Local(t)'
    BY <1>3, <2>0 DEF GotFd
  <2>2. HeldLocal(t)'
    BY <1>3, <2>0 DEF GotFd
  <2> QED BY <2>1, <2>2
<1>4. CASE Io(t)
  <2>1. Local(t)'
    BY <1>4 DEF Io
  <2>2. HeldLocal(t)'
    BY <1>4 DEF Io
  <2> QED BY <2>1, <2>2
<1>5. CASE TransferFails(t)
  <2>1. Local(t)'
    BY <1>5 DEF TransferFails
  <2>2. HeldLocal(t)'
    BY <1>5 DEF TransferFails
  <2> QED BY <2>1, <2>2
<1>6. CASE \E o \in Ops : Start(t, o)
  <2>1. Local(t)'
    BY <1>6 DEF Start
  <2>2. HeldLocal(t)'
    BY <1>6 DEF Start
  <2> QED BY <2>1, <2>2
<1> QED BY <1>1, <1>2, <1>3, <1>4, <1>5, <1>6

(* A thread that gives a source back: mcachefs_file_putfd. *)
LEMMA PutCases ==
  ASSUME IInv, NEW t \in Threads, NEW s \in Sources, s \in held[t], Putfd(t, s),
         OnlyMoves(t), Local(t)', UNCHANGED <<fd, wr, table, fdv, op, stage>>, pc'[t] # "ret",
         pc[t] # "ret"
  PROVE  UseCountsHolders' /\ ThreadInv' /\ SourceOpen' /\ NoFdLeak' /\ HeldOpen'
<1>1. HeldLocal(t)'
  BY LocalNow DEF HeldLocal, Putfd, IInv, TypeOK, AskedWr
<1> QED
  BY <1>1, LoseHolder, OthersUnmoved, OthersHold, DescriptorsKept DEF IInv

LEMMA ReuseStep ==
  ASSUME IInv, NEW t \in Threads, Reuse(t)
  PROVE  UseCountsHolders' /\ ThreadInv' /\ SourceOpen' /\ NoFdLeak' /\ HeldOpen'
<1> Local(t) /\ HeldLocal(t) /\ TypeOK /\ OnlyMoves(t) /\ Current(t) \in Sources
  BY LocalNow, StepsAreLocal, CurrentType DEF IInv, Step
<1>1. Current(t) \notin held[t]
  BY FirstType DEF Reuse, Local, HeldAt, Acquired, Current
<1>2. UseCountsHolders'
  BY <1>1, GainHolder DEF Reuse, IInv
<1>3. Current(t)' = Current(t) /\ Acquired(t)' = Acquired(t)
  BY DEF Reuse, Current, Acquired
<1>4. held'[t] = held[t] \cup {Current(t)} /\ pc'[t] = "ret"
  BY DEF Reuse, Goto, TypeOK
<1>5. Local(t)'
  BY <1>3, <1>4 DEF Reuse, Local, HeldAt, TransferLabels
<1>6. HeldLocal(t)'
  BY <1>3, <1>4 DEF Reuse, HeldLocal, AskedWr
<1> QED
  BY <1>2, <1>5, <1>6, OthersUnmoved, OthersHold, DescriptorsKept DEF Reuse, IInv

(* Whoever must open a source is alone: nobody holds it. *)
LEMMA MustOpenAlone ==
  ASSUME IInv, NEW t \in Threads, MustOpen(t)
  PROVE  \A u \in Threads : Current(t) \notin held[u]
<1>1. Current(t) \in Sources
  BY CurrentType
<1>2. CASE use[Current(t)] = 0
  BY <1>1, <1>2, UnusedUnheld DEF IInv
<1>3. CASE fd[Current(t)] = -1
  BY <1>3 DEF IInv, HeldOpen
<1> QED BY <1>2, <1>3 DEF MustOpen

(* close(source->fd); source->fd = -1 *)
LEMMA CloseKeeps ==
  ASSUME TypeOK, SourceOpen, NoFdLeak, NEW s \in Sources, wr' = wr,
         table' = Closed(table, fd[s]), fd' = [fd EXCEPT ![s] = -1]
  PROVE  SourceOpen' /\ NoFdLeak'
<1>1. SourceOpen'
  <2> SUFFICES ASSUME NEW r \in Sources, fd'[r] # -1
               PROVE  table'[fd'[r]] = [file |-> r, wr |-> wr[r]]
    BY DEF SourceOpen
  <2>1. r # s /\ fd'[r] = fd[r] /\ fd[r] \in FDs
    BY DEF TypeOK, FdValues
  <2>2. table[fd[r]] = [file |-> r, wr |-> wr[r]]
    BY <2>1 DEF SourceOpen
  <2>3. fd[s] # fd[r]
    <3> SUFFICES ASSUME fd[s] = fd[r] PROVE FALSE
      OBVIOUS
    <3>1. table[fd[s]] = [file |-> s, wr |-> wr[s]]
      BY <2>1 DEF SourceOpen
    <3>2. table[fd[s]].file = s /\ table[fd[s]].file = r
      BY <3>1, <2>2
    <3> QED BY <2>1, <3>2
  <2> QED BY <2>1, <2>2, <2>3 DEF Closed
<1>2. NoFdLeak'
  <2> SUFFICES ASSUME NEW f \in FDs, table'[f] # Free
               PROVE  \E r \in Sources : fd'[r] = f
    BY DEF NoFdLeak, Free
  <2>1. f # fd[s] /\ table'[f] = table[f]
    BY DEF Closed
  <2>2. PICK r \in Sources : fd[r] = f
    BY <2>1 DEF NoFdLeak
  <2> QED BY <2>1, <2>2 DEF TypeOK
<1> QED BY <1>1, <1>2

LEMMA OpenFailsStep ==
  ASSUME IInv, NEW t \in Threads, OpenFails(t)
  PROVE  UseCountsHolders' /\ ThreadInv' /\ SourceOpen' /\ NoFdLeak' /\ HeldOpen'
<1> Local(t) /\ HeldLocal(t) /\ TypeOK /\ OnlyMoves(t) /\ Current(t) \in Sources
  BY LocalNow, StepsAreLocal, CurrentType DEF IInv, Step
<1>1. \A u \in Threads : Current(t) \notin held[u]
  BY MustOpenAlone DEF OpenFails
<1>2. Current(t)' = Current(t) /\ Acquired(t)' = Acquired(t) /\ pc'[t] = "got"
  BY DEF OpenFails, Current, Acquired, Goto, TypeOK
<1>3. (fdv[t][Current(t)])' < 0
  <2> PICK e \in Errno : fdv' = [fdv EXCEPT ![t][Current(t)] = -e]
    BY DEF OpenFails
  <2>1. fdv'[t][Current(t)] = -e
    BY DEF TypeOK
  <2> QED BY <1>2, <2>1, ErrnoAssumption
<1>4. held[t] = Acquired(t)
  BY DEF OpenFails, MustOpen, Local, HeldAt
<1>5. Local(t)'
  <2>1. HeldAt(t)' = Acquired(t)'
    BY <1>2, <1>3 DEF HeldAt
  <2>2. held' = held /\ op' = op /\ stage' = stage /\ pc[t] # "idle"
    BY DEF OpenFails, MustOpen
  <2> QED BY <1>2, <1>4, <2>1, <2>2 DEF Local, TransferLabels
<1>6. \A u \in Threads : \A s \in held[u] : fd'[s] = fd[s] /\ wr'[s] = wr[s]
  BY <1>1 DEF OpenFails, TypeOK
<1>7. HeldLocal(t)'
  <2> SUFFICES ASSUME NEW s \in held[t]
               PROVE  fd'[s] # -1 /\ AskedWr(op[t], s) <= wr'[s] /\ fdv'[t][s] = fd'[s]
    BY <1>2 DEF HeldLocal, OpenFails, AskedWr
  <2>1. s # Current(t) /\ s \in Sources
    BY <1>1 DEF TypeOK
  <2>2. fdv'[t][s] = fdv[t][s]
    BY <2>1 DEF OpenFails, TypeOK
  <2> QED BY <1>6, <2>1, <2>2 DEF HeldLocal
<1>8. SourceOpen' /\ NoFdLeak'
  BY CloseKeeps DEF OpenFails, IInv
<1>9. UseCountsHolders'
  BY SameHolders DEF OpenFails, IInv
<1> QED
  BY <1>5, <1>6, <1>7, <1>8, <1>9, OthersUnmoved, OthersHold DEF IInv

LEMMA OpenStep ==
  ASSUME IInv, NEW t \in Threads, Open(t)
  PROVE  UseCountsHolders' /\ ThreadInv' /\ SourceOpen' /\ NoFdLeak' /\ HeldOpen'
<1> DEFINE c == Current(t)
           w == AskedWr(op[t], c)
<1> Local(t) /\ HeldLocal(t) /\ TypeOK /\ OnlyMoves(t) /\ c \in Sources
  BY LocalNow, StepsAreLocal, CurrentType DEF IInv, Step
<1>1. \A u \in Threads : c \notin held[u]
  BY MustOpenAlone DEF Open
<1>2. Current(t)' = c /\ Acquired(t)' = Acquired(t) /\ pc'[t] = "ret"
      /\ held'[t] = held[t] \cup {c} /\ held[t] = Acquired(t)
  BY DEF Open, MustOpen, Current, Acquired, Goto, TypeOK, Local, HeldAt
<1>3. Local(t)'
  <2>1. HeldAt(t)' = Acquired(t) \cup {c}
    BY <1>2 DEF HeldAt
  <2>2. op' = op /\ stage' = stage /\ pc[t] # "idle"
    BY DEF Open, MustOpen
  <2> QED BY <1>2, <2>1, <2>2 DEF Local, TransferLabels
<1>4. PICK f \in FDs :
        /\ Closed(table, fd[c])[f] = Free
        /\ table' = [Closed(table, fd[c]) EXCEPT ![f] = [file |-> c, wr |-> w]]
        /\ fd' = [fd EXCEPT ![c] = f]
  BY DEF Open
<1>5. f # -1 /\ wr' = [wr EXCEPT ![c] = w] /\ fdv' = fdv /\ op' = op
  BY FDsAssumption DEF Open
<1>6. \A u \in Threads : \A s \in held[u] : s # c /\ fd'[s] = fd[s] /\ wr'[s] = wr[s]
  BY <1>1, <1>4, <1>5 DEF TypeOK
<1>7. HeldLocal(t)'
  <2>0. DOMAIN fd = Sources /\ DOMAIN wr = Sources /\ w \in {0, 1}
    BY AskedWrType DEF TypeOK
  <2>1. fd'[c] = f /\ wr'[c] = w /\ w <= w
    BY <1>4, <1>5, <2>0
  <2>2. AskedWr(op'[t], c) = w
    BY <1>5
  <2> QED BY <1>2, <1>5, <1>6, <2>1, <2>2 DEF HeldLocal
<1>8. UseCountsHolders'
  BY <1>1, GainHolder DEF Open, IInv
<1>9. SourceOpen'
  <2> SUFFICES ASSUME NEW r \in Sources, fd'[r] # -1
               PROVE  table'[fd'[r]] = [file |-> r, wr |-> wr'[r]]
    BY DEF SourceOpen
  <2>1. CASE r = c
    <3>1. table'[f] = [file |-> c, wr |-> w]
      BY <1>4 DEF Closed
    <3> QED BY <2>1, <3>1, <1>4, <1>5 DEF TypeOK
  <2>2. CASE r # c
    <3>1. fd'[r] = fd[r] /\ wr'[r] = wr[r] /\ fd[r] \in FDs
      BY <2>2, <1>4, <1>5 DEF TypeOK, FdValues
    <3>2. table[fd[r]] = [file |-> r, wr |-> wr[r]]
      BY <3>1 DEF IInv, SourceOpen
    <3>3. fd[c] # fd[r]
      <4> SUFFICES ASSUME fd[c] = fd[r] PROVE FALSE
        OBVIOUS
      <4>1. table[fd[c]] = [file |-> c, wr |-> wr[c]]
        BY <3>1 DEF IInv, SourceOpen
      <4>2. table[fd[c]].file = c /\ table[fd[c]].file = r
        BY <4>1, <3>2
      <4> QED BY <2>2, <4>2
    <3>4. Closed(table, fd[c])[fd[r]] = table[fd[r]]
      BY <3>1, <3>3 DEF Closed
    <3>5. table[fd[r]] # Free
      BY <3>2 DEF Free, Sources, BACKING, REAL
    <3>6. f # fd[r]
      BY <1>4, <3>4, <3>5
    <3>7. table'[fd[r]] = Closed(table, fd[c])[fd[r]]
      BY <1>4, <3>1, <3>6 DEF Closed
    <3> QED BY <3>1, <3>2, <3>4, <3>7
  <2> QED BY <2>1, <2>2
<1>10. NoFdLeak'
  <2> SUFFICES ASSUME NEW g \in FDs, table'[g] # Free PROVE \E r \in Sources : fd'[r] = g
    BY DEF NoFdLeak, Free
  <2>1. CASE g = f
    BY <2>1, <1>4 DEF TypeOK
  <2>2. CASE g # f
    <3>1. table'[g] = table[g] /\ g # fd[c]
      BY <2>2, <1>4 DEF Closed
    <3>2. PICK r \in Sources : fd[r] = g
      BY <3>1 DEF IInv, NoFdLeak
    <3> QED BY <3>1, <3>2, <1>4 DEF TypeOK
  <2> QED BY <2>1, <2>2
<1> QED
  BY <1>3, <1>6, <1>7, <1>8, <1>9, <1>10, OthersUnmoved, OthersHold DEF IInv

LEMMA PutSteps ==
  ASSUME IInv, NEW t \in Threads, Put(t) \/ PutReal(t) \/ PutBacking(t)
  PROVE  UseCountsHolders' /\ ThreadInv' /\ SourceOpen' /\ NoFdLeak' /\ HeldOpen'
<1> Local(t) /\ TypeOK /\ OnlyMoves(t) /\ First(op[t]) \in Sources
  BY LocalNow, StepsAreLocal, FirstType DEF IInv, Step
<1> REAL \in Sources /\ BACKING \in Sources /\ Sources = {REAL, BACKING} /\ REAL # BACKING
  BY DEF Sources, REAL, BACKING
<1>1. CASE Put(t)
  <2>1. pc[t] = "put" /\ pc'[t] = "idle" /\ op' = op /\ held[t] = {First(op[t])}
    BY <1>1 DEF Put, Goto, TypeOK, Local, HeldAt, Wanted
  <2>2. held'[t] = {}
    BY <1>1, <2>1 DEF Put, Putfd, TypeOK
  <2>3. Local(t)'
    BY <2>1, <2>2 DEF Local, HeldAt, TransferLabels
  <2> QED BY <1>1, <2>1, <2>3, PutCases DEF Put
<1>2. CASE PutReal(t)
  <2>1. /\ pc[t] \in {"put_real", "err_put_real"} /\ pc'[t] \in {"put_backing", "err_put_backing"}
        /\ op' = op /\ stage' = stage /\ held[t] = Sources
    BY <1>2 DEF PutReal, Goto, TypeOK, Local, HeldAt, Wanted, TransferLabels
  <2>2. held'[t] = {BACKING}
    BY <1>2, <2>1 DEF PutReal, Putfd, TypeOK
  <2>3. Local(t)'
    BY <2>1, <2>2 DEF Local, HeldAt, TransferLabels
  <2> QED BY <1>2, <2>1, <2>3, PutCases DEF PutReal
<1>3. CASE PutBacking(t)
  <2>1. /\ pc[t] \in {"put_backing", "err_put_backing"} /\ pc'[t] \in {"ended", "failed"}
        /\ op' = op /\ stage' = stage /\ held[t] = {BACKING}
    BY <1>3 DEF PutBacking, Goto, TypeOK, Local, HeldAt
  <2>2. held'[t] = {}
    BY <1>3, <2>1 DEF PutBacking, Putfd, TypeOK
  <2>3. Local(t)'
    BY <2>1, <2>2 DEF Local, HeldAt, TransferLabels
  <2> QED BY <1>3, <2>1, <2>3, PutCases DEF PutBacking
<1> QED BY <1>1, <1>2, <1>3

LEMMA GotErrorStep ==
  ASSUME IInv, NEW t \in Threads, GotError(t)
  PROVE  UseCountsHolders' /\ ThreadInv' /\ SourceOpen' /\ NoFdLeak' /\ HeldOpen'
<1> Local(t) /\ HeldLocal(t) /\ TypeOK /\ OnlyMoves(t) /\ First(op[t]) \in Sources
  BY LocalNow, StepsAreLocal, FirstType DEF IInv, Step
<1>1. /\ pc[t] = "got" /\ pc'[t] \in {"failed", "idle"} /\ op' = op /\ stage' = stage
      /\ pc'[t] = "failed" => op[t] \in Transfers
  BY DEF GotError, Goto, TypeOK
<1>2. held[t] = Acquired(t)
  <2>1. fdv[t][Current(t)] < 0
    BY DEF GotError, SeenAsError
  <2> QED BY <1>1, <2>1 DEF Local, HeldAt
<1>3. CASE stage[t] = 2
  <2>1. held[t] = {First(op[t])} /\ Putfd(t, First(op[t]))
    BY <1>2, <1>3 DEF Acquired, GotError
  <2>2. held'[t] = {}
    BY <2>1 DEF Putfd, TypeOK
  <2>3. Local(t)'
    BY <1>1, <2>2 DEF Local, HeldAt, TransferLabels
  <2> QED BY <1>1, <2>1, <2>3, PutCases DEF GotError
<1>4. CASE stage[t] # 2
  <2>1. held[t] = {} /\ held' = held /\ use' = use
    BY <1>2, <1>4 DEF Acquired, GotError
  <2>2. Local(t)' /\ HeldLocal(t)'
    BY <1>1, <2>1 DEF Local, HeldAt, TransferLabels, HeldLocal
  <2> QED BY <2>1, <2>2, QuietStep DEF GotError
<1> QED BY <1>3, <1>4

LEMMA TransferEndsStep ==
  ASSUME IInv, NEW t \in Threads, TransferEnds(t)
  PROVE  UseCountsHolders' /\ ThreadInv' /\ SourceOpen' /\ NoFdLeak' /\ HeldOpen'
<1> Local(t) /\ TypeOK /\ OnlyMoves(t) /\ REAL \in Sources
  BY LocalNow, StepsAreLocal DEF IInv, Step, Sources
<1>1. held'[t] = {} /\ pc'[t] = "idle"
  BY DEF TransferEnds, Local, HeldAt, Goto, TypeOK
<1>2. Local(t)' /\ HeldLocal(t)'
  BY <1>1 DEF Local, HeldAt, TransferLabels, HeldLocal
<1>3. CASE use[REAL] = 0
  <2>1. \A u \in Threads : REAL \notin held[u]
    BY <1>3, UnusedUnheld DEF IInv
  <2>2. \A u \in Threads : \A s \in held[u] : fd'[s] = fd[s] /\ wr'[s] = wr[s]
    BY <1>3, <2>1 DEF TransferEnds, TypeOK
  <2>3. SourceOpen' /\ NoFdLeak'
    BY <1>3, CloseKeeps DEF TransferEnds, IInv
  <2>4. UseCountsHolders'
    BY SameHolders DEF TransferEnds, IInv
  <2> QED BY <1>2, <2>2, <2>3, <2>4, OthersUnmoved, OthersHold DEF IInv
<1>4. CASE use[REAL] # 0
  BY <1>2, <1>4, QuietStep DEF TransferEnds
<1> QED BY <1>3, <1>4

LEMMA CleanupStep ==
  ASSUME IInv, CleanupFile
  PROVE  UseCountsHolders' /\ ThreadInv' /\ SourceOpen' /\ NoFdLeak' /\ HeldOpen'
<1> TypeOK
  BY DEF IInv
<1>1. UseCountsHolders'
  BY SameHolders DEF CleanupFile, IInv
<1>2. ThreadInv'
  BY DEF CleanupFile, IInv, ThreadInv, HeldAt, Acquired, Current
<1>3. HeldOpen'
  <2>1. \A u \in Threads : \A s \in held[u] : fd'[s] = fd[s]
    BY UnusedUnheld DEF IInv, CleanupFile, CleanedUp, TypeOK
  <2> QED BY <2>1 DEF CleanupFile, IInv, HeldOpen, Current
<1>4. SourceOpen'
  <2> SUFFICES ASSUME NEW r \in Sources, fd'[r] # -1
               PROVE  table'[fd'[r]] = [file |-> r, wr |-> wr[r]]
    BY DEF SourceOpen, CleanupFile
  <2>1. ~CleanedUp(r) /\ fd'[r] = fd[r] /\ fd[r] \in FDs
    BY DEF CleanupFile, TypeOK, FdValues
  <2>2. table[fd[r]] = [file |-> r, wr |-> wr[r]]
    BY <2>1 DEF IInv, SourceOpen
  <2>3. ASSUME NEW s \in Sources, CleanedUp(s) PROVE fd[s] # fd[r]
    <3>1. table[fd[s]] = [file |-> s, wr |-> wr[s]]
      BY <2>3 DEF IInv, SourceOpen, CleanedUp
    <3> SUFFICES ASSUME fd[s] = fd[r] PROVE FALSE
      OBVIOUS
    <3>2. table[fd[s]].file = s /\ table[fd[s]].file = r
      BY <3>1, <2>2
    <3> QED BY <2>1, <2>3, <3>2
  <2>4. table'[fd[r]] = table[fd[r]]
    BY <2>1, <2>3 DEF CleanupFile
  <2> QED BY <2>1, <2>2, <2>4
<1>5. NoFdLeak'
  <2> SUFFICES ASSUME NEW f \in FDs, table'[f] # Free PROVE \E r \in Sources : fd'[r] = f
    BY DEF NoFdLeak, Free
  <2>1. table'[f] = table[f] /\ ~(\E s \in Sources : CleanedUp(s) /\ fd[s] = f)
    BY DEF CleanupFile
  <2>2. PICK r \in Sources : fd[r] = f
    BY <2>1 DEF IInv, NoFdLeak
  <2> QED BY <2>1, <2>2 DEF CleanupFile
<1> QED BY <1>1, <1>2, <1>3, <1>4, <1>5

(* IInv is preserved by every step. *)
LEMMA InvStep == ASSUME WritersSeeErrors PROVE IInv /\ [Next]_vars => IInv'
<1> SUFFICES ASSUME IInv, [Next]_vars PROVE IInv'
  OBVIOUS
<1>0. TypeOK'
  BY TypeStep DEF IInv
<1> SUFFICES UseCountsHolders' /\ ThreadInv' /\ SourceOpen' /\ NoFdLeak' /\ HeldOpen'
  BY <1>0 DEF IInv
<1>1. CASE UNCHANGED vars \/ Backfile \/ Writeback
  <2>1. UNCHANGED <<fd, use, wr, table, pc, op, stage, fdv, held>>
    BY <1>1 DEF vars, Backfile, Writeback
  <2>2. UseCountsHolders' /\ SourceOpen' /\ NoFdLeak'
    BY <2>1, SameHolders, DescriptorsKept DEF IInv
  <2>3. ThreadInv'
    BY <2>1 DEF IInv, ThreadInv, HeldAt, Acquired, Current
  <2>4. HeldOpen'
    BY <2>1 DEF IInv, HeldOpen, Current
  <2> QED BY <2>2, <2>3, <2>4
<1>2. CASE CleanupFile
  BY <1>2, CleanupStep
<1>3. ASSUME NEW t \in Threads, \/ Wait(t) \/ ReturnFd(t) \/ GotFd(t) \/ Io(t) \/ TransferFails(t)
                                \/ \E o \in Ops : Start(t, o)
      PROVE UseCountsHolders' /\ ThreadInv' /\ SourceOpen' /\ NoFdLeak' /\ HeldOpen'
  <2>1. Local(t)' /\ HeldLocal(t)'
    BY <1>3, QuietCases
  <2>2. OnlyMoves(t)
    BY <1>3, StepsAreLocal DEF Step, IInv
  <2>3. UNCHANGED <<fd, wr, table, use, held>>
    BY <1>3 DEF Wait, ReturnFd, GotFd, Io, TransferFails, Start
  <2> QED BY <2>1, <2>2, <2>3, QuietStep
<1>4. ASSUME NEW t \in Threads, Step(t)
      PROVE UseCountsHolders' /\ ThreadInv' /\ SourceOpen' /\ NoFdLeak' /\ HeldOpen'
  BY <1>3, <1>4, ReuseStep, OpenStep, OpenFailsStep, GotErrorStep, PutSteps, TransferEndsStep DEF Step
<1> QED
  BY <1>1, <1>2, <1>3, <1>4 DEF Next, AllDone

LEMMA InvInit == Init => IInv
<1> SUFFICES ASSUME Init PROVE IInv
  OBVIOUS
<1>1. TypeOK
  BY DEF Init, TypeOK, Labels, FdValues, Free, AllOps
<1>2. UseCountsHolders
  <2> SUFFICES ASSUME NEW s \in Sources PROVE use[s] = Cardinality(Holders(s))
    BY DEF UseCountsHolders
  <2>1. Holders(s) = {}
    BY DEF Init, Holders
  <2> QED BY <2>1, FS_EmptySet DEF Init
<1>3. ThreadInv
  BY DEF Init, ThreadInv, HeldAt, TransferLabels
<1>4. SourceOpen /\ NoFdLeak /\ HeldOpen
  BY DEF Init, SourceOpen, NoFdLeak, HeldOpen
<1> QED BY <1>1, <1>2, <1>3, <1>4 DEF IInv

LEMMA InvAlways == ASSUME WritersSeeErrors PROVE Spec => []IInv
<1>1. IInv /\ [Next]_vars => IInv'
  BY InvStep
<1> QED
  BY <1>1, InvInit, PTL DEF Spec

-----------------------------------------------------------------------------
(* The theorems *)

(* However reads, writes, backups, write-backs and the garbage collector
   interleave, source->use is the number of threads between their getfd and
   their putfd, provided a writer's failing open yields EPERM only. *)
THEOREM UseIsExact == ASSUME WritersSeeErrors PROVE Spec => []UseCountsHolders
<1>1. IInv => UseCountsHolders
  BY DEF IInv
<1> QED BY <1>1, InvAlways, PTL

(* ... no thread does its I/O on a descriptor that was closed or re-used for
   another file since it got it ... *)
THEOREM IoIsOnRightFile == ASSUME WritersSeeErrors PROVE Spec => []IoOnRightFile
<1>1. IInv => IoOnRightFile
  <2> SUFFICES ASSUME IInv, NEW t \in Threads, pc[t] = "io", NEW s \in held[t]
               PROVE  /\ fdv[t][s] \in FDs
                      /\ table[fdv[t][s]].file = s
                      /\ AskedWr(op[t], s) <= table[fdv[t][s]].wr
    BY DEF IoOnRightFile
  <2>1. s \in Sources /\ fdv[t][s] = fd[s] /\ fd[s] # -1 /\ AskedWr(op[t], s) <= wr[s]
    BY DEF IInv, HeldOpen, TypeOK
  <2>2. fd[s] \in FDs /\ table[fd[s]] = [file |-> s, wr |-> wr[s]]
    BY <2>1 DEF IInv, SourceOpen, TypeOK, FdValues
  <2> QED BY <2>1, <2>2
<1> QED BY <1>1, InvAlways, PTL

(* ... and no descriptor is lost: what is open in the kernel is the current
   descriptor of a source. *)
THEOREM FdsDoNotLeak == ASSUME WritersSeeErrors PROVE Spec => []NoFdLeak
<1>1. IInv => NoFdLeak
  BY DEF IInv
<1> QED BY <1>1, InvAlways, PTL

(* No step closes or replaces the descriptor of a source that is held. *)
THEOREM HeldFdsAreStable == ASSUME WritersSeeErrors PROVE Spec => FdStableWhileHeld
<1>1. ASSUME IInv, Next, NEW s \in Sources, Holders(s) # {}
      PROVE  fd'[s] = fd[s]
  <2>1. PICK u \in Threads : s \in held[u]
    BY <1>1 DEF Holders
  <2>2. use[s] # 0
    BY <1>1, <2>1, UnusedUnheld DEF IInv
  <2>3. fd[s] # -1 /\ TypeOK
    BY <1>1, <2>1 DEF IInv, HeldOpen
  <2>4. CASE CleanupFile
    BY <2>2, <2>4 DEF CleanupFile, CleanedUp
  <2>5. ASSUME NEW t \in Threads, Open(t) \/ OpenFails(t) PROVE fd'[s] = fd[s]
    <3>1. Current(t) # s
      BY <1>1, <2>1, <2>5, MustOpenAlone DEF Open, OpenFails
    <3> QED BY <2>3, <2>5, <3>1 DEF Open, OpenFails, TypeOK
  <2>6. ASSUME NEW t \in Threads, TransferEnds(t) PROVE fd'[s] = fd[s]
    BY <2>2, <2>3, <2>6 DEF TransferEnds, TypeOK
  <2>7. ASSUME NEW t \in Threads,
               \/ Reuse(t) \/ Wait(t) \/ ReturnFd(t) \/ GotFd(t) \/ GotError(t) \/ Io(t)
               \/ Put(t) \/ PutReal(t) \/ PutBacking(t) \/ TransferFails(t)
               \/ \E o \in Ops : Start(t, o)
        PROVE  fd'[s] = fd[s]
    BY <2>7 DEF Reuse, Wait, ReturnFd, GotFd, GotError, Io, Put, PutReal, PutBacking,
                TransferFails, Start
  <2>8. CASE AllDone \/ Backfile \/ Writeback
    BY <2>8 DEF AllDone, vars, Backfile, Writeback
  <2> QED BY <1>1, <2>4, <2>5, <2>6, <2>7, <2>8 DEF Next, Step
<1>2. IInv /\ [Next]_vars =>
        [\A s \in Sources : Holders(s) # {} => fd'[s] = fd[s]]_vars
  BY <1>1
<1>3. Spec => [][Next]_vars
  BY DEF Spec
<1> QED BY <1>2, <1>3, InvAlways, PTL DEF FdStableWhileHeld

-----------------------------------------------------------------------------
(* The refinement of Descriptors *)

OpenAt(f) == [fd |-> f, file |-> table[f].file, wr |-> table[f].wr]

(* The descriptor the kernel has open for a source is the source's. *)
LEMMA OpenOfSource ==
  ASSUME IInv, NEW s \in Sources
  PROVE  /\ \A f \in FDs : table[f] # Free /\ table[f].file = s => f = fd[s]
         /\ fd[s] # -1 => fd[s] \in FDs /\ table[fd[s]] # Free /\ table[fd[s]].file = s /\ table[fd[s]].wr = wr[s]
<1>1. ASSUME NEW r \in Sources, fd[r] # -1
      PROVE  fd[r] \in FDs /\ table[fd[r]] # Free /\ table[fd[r]].file = r /\ table[fd[r]].wr = wr[r]
  <2>1. table[fd[r]] = [file |-> r, wr |-> wr[r]] /\ fd[r] \in FDs
    BY <1>1 DEF IInv, SourceOpen, TypeOK, FdValues
  <2>2. table[fd[r]].file = r /\ table[fd[r]].wr = wr[r] /\ Free.file = -1 /\ r # -1
    BY <2>1 DEF Free, Sources, BACKING, REAL
  <2> QED BY <2>1, <2>2
<1>2. ASSUME NEW f \in FDs, table[f] # Free, table[f].file = s PROVE f = fd[s]
  <2>1. PICK r \in Sources : fd[r] = f
    BY <1>2 DEF IInv, NoFdLeak
  <2>2. f # -1
    BY FDsAssumption
  <2> QED BY <1>1, <1>2, <2>1, <2>2
<1> QED BY <1>1, <1>2

LEMMA OpenIs ==
  ASSUME NEW d
  PROVE  d \in OpenDescriptors <=> \E f \in FDs : table[f] # Free /\ d = OpenAt(f)
  BY DEF OpenDescriptors, OpenAt

LEMMA OpenSame == ASSUME table' = table PROVE OpenDescriptors' = OpenDescriptors
  BY DEF OpenDescriptors

(* To forget the descriptors of some sources is to close theirs, and no others. *)
LEMMA OpenClosed ==
  ASSUME IInv, NEW S \in SUBSET Sources,
         table' = [f \in FDs |-> IF \E s \in S : fd[s] = f THEN Free ELSE table[f]]
  PROVE  OpenDescriptors' = {d \in OpenDescriptors : d.file \notin S}
<1>1. ASSUME NEW f \in FDs, table'[f] # Free
      PROVE  table[f] = table'[f] /\ table[f].file \notin S
  <2>1. table'[f] = table[f] /\ ~ \E s \in S : fd[s] = f
    BY <1>1
  <2> QED BY <1>1, <2>1, OpenOfSource
<1>2. ASSUME NEW f \in FDs, table[f] # Free, table[f].file \notin S PROVE table'[f] = table[f]
  <2>1. ASSUME NEW s \in S, fd[s] = f PROVE FALSE
    <3>1. fd[s] # -1
      BY <2>1, FDsAssumption
    <3> QED BY <1>2, <2>1, <3>1, OpenOfSource
  <2> QED BY <2>1
<1>3. \A f : OpenAt(f).file = table[f].file
  BY DEF OpenAt
<1>4. ASSUME NEW d \in OpenDescriptors' PROVE d \in OpenDescriptors /\ d.file \notin S
  <2>1. PICK f \in FDs : table'[f] # Free /\ d = OpenAt(f)'
    BY <1>4 DEF OpenDescriptors, OpenAt
  <2>2. table[f] = table'[f] /\ table[f].file \notin S
    BY <1>1, <2>1
  <2>3. d = OpenAt(f)
    BY <2>1, <2>2 DEF OpenAt
  <2> QED BY <1>3, <2>1, <2>2, <2>3, OpenIs
<1>5. ASSUME NEW d \in OpenDescriptors, d.file \notin S PROVE d \in OpenDescriptors'
  <2>1. PICK f \in FDs : table[f] # Free /\ d = OpenAt(f)
    BY <1>5, OpenIs
  <2>2. table'[f] = table[f]
    BY <1>2, <1>3, <1>5, <2>1
  <2>3. d = OpenAt(f)' /\ table'[f] # Free
    BY <2>1, <2>2 DEF OpenAt
  <2> QED BY <2>3 DEF OpenDescriptors, OpenAt
<1> QED BY <1>4, <1>5

(* Who holds a source, and with which mode. *)
LEMMA AskersAre ==
  ASSUME NEW s \in Sources
  PROVE  \A u : u \in Askers[s] <=> \E t \in Threads : s \in held[t] /\ u = <<t, AskedWr(op[t], s)>>
  BY DEF Askers, Holders

LEMMA AskersSame ==
  ASSUME UNCHANGED held, \A t \in Threads : held[t] # {} => op'[t] = op[t]
  PROVE  Askers' = Askers
<1>1. ASSUME NEW s \in Sources
      PROVE  {<<t, AskedWr(op[t], s)>> : t \in Holders(s)}' = {<<t, AskedWr(op[t], s)>> : t \in Holders(s)}
  <2>1. Holders(s)' = Holders(s) /\ \A t \in Holders(s) : AskedWr(op[t], s)' = AskedWr(op[t], s)
    BY DEF Holders, AskedWr
  <2> QED BY <2>1
<1> QED BY <1>1 DEF Askers

LEMMA AskersEnter ==
  ASSUME TypeOK, NEW t \in Threads, NEW s \in Sources, held' = [held EXCEPT ![t] = @ \cup {s}], op' = op
  PROVE  Askers' = [Askers EXCEPT ![s] = @ \cup {<<t, AskedWr(op[t], s)>>}]
<1>1. Holders(s)' = Holders(s) \cup {t} /\ \A r \in Sources \ {s} : Holders(r)' = Holders(r)
  BY DEF Holders, TypeOK
<1>2. \A r, u : AskedWr(op[u], r)' = AskedWr(op[u], r)
  BY DEF AskedWr
<1>3. \A r \in Sources \ {s} : Askers'[r] = Askers[r]
  BY <1>1, <1>2 DEF Askers
<1>4. Askers'[s] = Askers[s] \cup {<<t, AskedWr(op[t], s)>>}
  <2>1. Askers'[s] = {<<u, AskedWr(op[u], s)>> : u \in Holders(s) \cup {t}}
    BY <1>1, <1>2 DEF Askers
  <2>2. Askers[s] = {<<u, AskedWr(op[u], s)>> : u \in Holders(s)}
    BY DEF Askers
  <2> QED BY <2>1, <2>2
<1>5. DOMAIN Askers = Sources /\ Askers' = [r \in Sources |-> Askers'[r]]
  BY DEF Askers
<1> QED BY <1>3, <1>4, <1>5

LEMMA AskersLeave ==
  ASSUME TypeOK, NEW t \in Threads, NEW s \in Sources, s \in held[t], Putfd(t, s), op' = op
  PROVE  /\ Askers' = [Askers EXCEPT ![s] = @ \ {<<t, AskedWr(op[t], s)>>}]
         /\ <<t, AskedWr(op[t], s)>> \in Askers[s]
<1>1. /\ Holders(s)' = Holders(s) \ {t} /\ t \in Holders(s)
      /\ \A r \in Sources \ {s} : Holders(r)' = Holders(r)
  BY DEF Holders, TypeOK, Putfd
<1>2. \A r, u : AskedWr(op[u], r)' = AskedWr(op[u], r)
  BY DEF AskedWr
<1>3. \A r \in Sources \ {s} : Askers'[r] = Askers[r]
  BY <1>1, <1>2 DEF Askers
<1>4. Askers'[s] = Askers[s] \ {<<t, AskedWr(op[t], s)>>}
  <2>1. Askers'[s] = {<<u, AskedWr(op[u], s)>> : u \in Holders(s) \ {t}}
    BY <1>1, <1>2 DEF Askers
  <2>2. Askers[s] = {<<u, AskedWr(op[u], s)>> : u \in Holders(s)}
    BY DEF Askers
  <2> QED BY <2>1, <2>2
<1>5. <<t, AskedWr(op[t], s)>> \in Askers[s]
  BY <1>1 DEF Askers
<1>6. DOMAIN Askers = Sources /\ DOMAIN Askers' = Sources /\ Askers' = [r \in Sources |-> Askers'[r]]
  BY DEF Askers
<1> QED BY <1>3, <1>4, <1>5, <1>6

LEMMA NoAskers ==
  ASSUME NEW s \in Sources, \A t \in Threads : s \notin held[t]
  PROVE  Askers[s] = {}
  BY AskersAre

(* Steps of Descriptors *)
LEMMA CloseStep ==
  ASSUME IInv, Askers' = Askers, NEW S \in SUBSET Sources, \A s \in S : use[s] = 0,
         table' = [f \in FDs |-> IF \E s \in S : fd[s] = f THEN Free ELSE table[f]]
  PROVE  D!Next
<1>1. \A s \in S : Askers[s] = {}
  BY UnusedUnheld, NoAskers DEF IInv
<1>2. D!Close(S)
  BY <1>1, OpenClosed DEF D!Close
<1> QED BY <1>2 DEF D!Next

LEMMA NothingStep == ASSUME Askers' = Askers, OpenDescriptors' = OpenDescriptors PROVE D!Next
<1>1. D!Close({})
  BY DEF D!Close
<1> QED BY <1>1 DEF D!Next

LEMMA LeaveStep ==
  ASSUME IInv, NEW t \in Threads, NEW s \in Sources, s \in held[t], Putfd(t, s), UNCHANGED <<op, table>>
  PROVE  D!Next
<1>1. D!Leave(t, s, AskedWr(op[t], s))
  BY AskersLeave, OpenSame DEF IInv, D!Leave
<1> QED BY <1>1, AskedWrType DEF D!Next

LEMMA ShareStep == ASSUME IInv, NEW t \in Threads, Reuse(t) PROVE D!Next
<1> DEFINE s == Current(t)
           w == AskedWr(op[t], s)
           f == fd[s]
<1>1. /\ s \in Sources /\ f # -1 /\ w <= wr[s] /\ op' = op /\ table' = table
      /\ held' = [held EXCEPT ![t] = @ \cup {s}]
  BY CurrentType DEF Reuse
<1> HIDE DEF s
<1>2. f \in FDs /\ table[f] # Free /\ table[f].file = s /\ table[f].wr = wr[s]
  BY <1>1, OpenOfSource
<1>3. OpenAt(f) \in D!Of(s) /\ w <= OpenAt(f).wr
  BY <1>1, <1>2, OpenIs DEF D!Of, OpenAt
<1>4. Askers' = [Askers EXCEPT ![s] = @ \cup {<<t, w>>}]
  BY <1>1, AskersEnter DEF IInv
<1>5. D!Share(t, s, w)
  BY <1>1, <1>3, <1>4, OpenSame DEF D!Share, D!Enter
<1> QED BY <1>1, <1>5, AskedWrType DEF D!Next

LEMMA ReopenStep == ASSUME IInv, NEW t \in Threads, Open(t) PROVE D!Next
<1>0. PICK s : s = Current(t)
  OBVIOUS
<1>1. PICK w : w = AskedWr(op[t], s)
  OBVIOUS
<1> DEFINE tab == Closed(table, fd[s])
<1>2. PICK f \in FDs : tab[f] = Free /\ table' = [tab EXCEPT ![f] = [file |-> s, wr |-> w]]
  BY <1>0, <1>1 DEF Open
<1>3. s \in Sources /\ w \in {0, 1} /\ op' = op /\ held' = [held EXCEPT ![t] = @ \cup {s}]
  BY <1>0, <1>1, CurrentType, AskedWrType DEF Open
<1>4. Askers[s] = {} /\ Askers' = [Askers EXCEPT ![s] = @ \cup {<<t, w>>}]
  BY <1>0, <1>1, <1>3, MustOpenAlone, NoAskers, AskersEnter DEF IInv, Open
<1> DEFINE new == [fd |-> f, file |-> s, wr |-> w]
           rest == OpenDescriptors \ D!Of(s)
<1>5. \A g \in FDs : table'[g] = IF g = f THEN [file |-> s, wr |-> w] ELSE IF g = fd[s] THEN Free ELSE table[g]
  BY <1>2 DEF Closed
<1>6. ASSUME NEW d \in rest
      PROVE  \E g \in FDs : table[g] # Free /\ d = OpenAt(g) /\ g # fd[s] /\ g # f
  <2>1. PICK g \in FDs : table[g] # Free /\ d = OpenAt(g)
    BY <1>6, OpenIs
  <2>2. table[g].file # s
    BY <1>6, <2>1 DEF D!Of, OpenAt
  <2>3. g # fd[s]
    <3>1. fd[s] = g => fd[s] # -1
      BY FDsAssumption
    <3> QED BY <1>3, <2>2, <3>1, OpenOfSource
  <2>4. g # f
    BY <1>2, <2>1, <2>3 DEF Closed
  <2> QED BY <2>1, <2>3, <2>4
<1>7. \A d \in rest : d.fd # f
  BY <1>6 DEF OpenAt
<1>8. ASSUME NEW d \in OpenDescriptors' PROVE d \in rest \cup {new}
  <2>1. PICK g \in FDs : table'[g] # Free /\ d = OpenAt(g)'
    BY <1>8 DEF OpenDescriptors, OpenAt
  <2>2. CASE g = f
    BY <1>5, <2>1, <2>2 DEF OpenAt
  <2>3. CASE g # f
    <3>1. table'[g] = table[g] /\ g # fd[s] /\ table[g] # Free
      BY <1>5, <2>1, <2>3
    <3>2. d = OpenAt(g) /\ table[g].file # s
      BY <1>3, <2>1, <3>1, OpenOfSource DEF OpenAt
    <3>3. d \notin D!Of(s)
      BY <3>2 DEF D!Of, OpenAt
    <3> QED BY <3>1, <3>2, <3>3, OpenIs
  <2> QED BY <2>2, <2>3
<1>9. new \in OpenDescriptors'
  <2>1. table'[f] = [file |-> s, wr |-> w]
    BY <1>5
  <2>2. table'[f] # Free
    <3>1. table'[f].file = s /\ Free.file = -1 /\ s # -1
      BY <1>3, <2>1 DEF Free, Sources, BACKING, REAL
    <3> QED BY <3>1
  <2> QED BY <2>1, <2>2 DEF OpenDescriptors
<1>10. ASSUME NEW d \in rest PROVE d \in OpenDescriptors'
  <2>1. PICK g \in FDs : table[g] # Free /\ d = OpenAt(g) /\ g # fd[s] /\ g # f
    BY <1>6
  <2>2. table'[g] = table[g]
    BY <1>5, <2>1
  <2> QED BY <2>1, <2>2 DEF OpenDescriptors, OpenAt
<1> HIDE DEF rest, new
<1>11. OpenDescriptors' = rest \cup {new}
  BY <1>8, <1>9, <1>10
<1>12. D!Reopen(t, s, w)
  BY <1>4, <1>7, <1>11 DEF D!Reopen, D!Enter, rest, new
<1> QED BY <1>3, <1>12 DEF D!Next

LEMMA DescriptorStep == IInv /\ [Next]_vars => D!Next
<1> SUFFICES ASSUME IInv, [Next]_vars PROVE D!Next
  OBVIOUS
<1>1. ASSUME UNCHANGED <<table, held>>, \A t \in Threads : held[t] # {} => op'[t] = op[t] PROVE D!Next
  BY <1>1, AskersSame, OpenSame, NothingStep
<1>2. CASE UNCHANGED vars \/ AllDone \/ Backfile \/ Writeback
  BY <1>1, <1>2 DEF vars, AllDone, Backfile, Writeback
<1>3. CASE CleanupFile
  <2> DEFINE S == {s \in Sources : CleanedUp(s)}
  <2>1. table' = [f \in FDs |-> IF \E s \in S : fd[s] = f THEN Free ELSE table[f]]
    BY <1>3 DEF CleanupFile
  <2>2. \A s \in S : use[s] = 0
    BY DEF CleanedUp
  <2>3. Askers' = Askers
    BY <1>3, AskersSame DEF CleanupFile
  <2> QED BY <2>1, <2>2, <2>3, CloseStep
<1>4. ASSUME NEW t \in Threads, NEW o \in Ops, Start(t, o) PROVE D!Next
  <2>1. held[t] = {} /\ UNCHANGED <<table, held>>
    BY <1>4 DEF Start, IInv, ThreadInv, HeldAt
  <2>2. \A u \in Threads \ {t} : op'[u] = op[u]
    BY <1>4 DEF Start, IInv, TypeOK
  <2> QED BY <1>1, <2>1, <2>2
<1>5. ASSUME NEW t \in Threads, Wait(t) \/ ReturnFd(t) \/ GotFd(t) \/ Io(t) \/ TransferFails(t) PROVE D!Next
  BY <1>1, <1>5 DEF Wait, ReturnFd, GotFd, Io, TransferFails
<1>6. ASSUME NEW t \in Threads, OpenFails(t) PROVE D!Next
  <2>0. PICK s : s = Current(t)
    OBVIOUS
  <2>1. s \in Sources /\ UNCHANGED <<held, op>> /\ table' = Closed(table, fd[s])
    BY <1>6, <2>0, CurrentType DEF OpenFails
  <2>2. use[s] = 0
    BY <1>6, <2>0, <2>1, MustOpenAlone, UnusedUnheld DEF OpenFails, IInv
  <2>3. PICK S : S = {s}
    OBVIOUS
  <2>4. table' = [f \in FDs |-> IF \E r \in S : fd[r] = f THEN Free ELSE table[f]]
    BY <2>1, <2>3 DEF Closed
  <2>5. Askers' = Askers
    BY <2>1, AskersSame
  <2> QED BY <2>1, <2>2, <2>3, <2>4, <2>5, CloseStep
<1>7. ASSUME NEW t \in Threads, TransferEnds(t) PROVE D!Next
  <2>1. CASE use[REAL] = 0
    <3>1. PICK S : S = {REAL}
      OBVIOUS
    <3>2. table' = [f \in FDs |-> IF \E r \in S : fd[r] = f THEN Free ELSE table[f]]
      BY <1>7, <2>1, <3>1 DEF TransferEnds, Closed
    <3>3. UNCHANGED <<held, op>> /\ S \in SUBSET Sources
      BY <1>7, <3>1 DEF TransferEnds, Sources
    <3>4. Askers' = Askers
      BY <3>3, AskersSame
    <3> QED BY <2>1, <3>1, <3>2, <3>3, <3>4, CloseStep
  <2>2. CASE use[REAL] # 0
    BY <1>1, <1>7, <2>2 DEF TransferEnds
  <2> QED BY <2>1, <2>2
<1>8. ASSUME NEW t \in Threads, Put(t) \/ PutReal(t) \/ PutBacking(t) PROVE D!Next
  <2>1. /\ Put(t) => First(op[t]) \in held[t]
        /\ PutReal(t) => REAL \in held[t]
        /\ PutBacking(t) => BACKING \in held[t]
    BY <1>8, FirstType DEF Put, PutReal, PutBacking, IInv, ThreadInv, HeldAt, Wanted, TransferLabels, Sources
  <2>2. First(op[t]) \in Sources /\ REAL \in Sources /\ BACKING \in Sources
    BY FirstType DEF Sources
  <2> QED BY <1>8, <2>1, <2>2, LeaveStep DEF Put, PutReal, PutBacking
<1>9. ASSUME NEW t \in Threads, GotError(t) PROVE D!Next
  <2>1. CASE stage[t] = 2
    <3>1. First(op[t]) \in held[t] /\ First(op[t]) \in Sources
      BY <1>9, <2>1, FirstType DEF GotError, IInv, ThreadInv, HeldAt, Acquired
    <3> QED BY <1>9, <2>1, <3>1, LeaveStep DEF GotError
  <2>2. CASE stage[t] # 2
    BY <1>1, <1>9, <2>2 DEF GotError
  <2> QED BY <2>1, <2>2
<1> QED
  BY <1>2, <1>3, <1>4, <1>5, <1>6, <1>7, <1>8, <1>9, ShareStep, ReopenStep DEF Next, Step

(* Sharing keeps its promises: FileSource implements Descriptors, for any number
   of threads, any descriptor numbers and any mix of operations. *)
THEOREM DescriptorsAreShared == ASSUME WritersSeeErrors PROVE Spec => ImplementsDescriptors
<1>1. Init => D!Init
  <2> SUFFICES ASSUME Init PROVE D!Init
    OBVIOUS
  <2>1. OpenDescriptors = {}
    BY DEF Init, OpenDescriptors
  <2>2. Askers = [s \in Sources |-> {}]
    BY DEF Init, Askers, Holders
  <2> QED BY <2>1, <2>2 DEF D!Init
<1>2. IInv /\ [Next]_vars => [D!Next]_D!vars
  BY DescriptorStep
<1> QED BY <1>1, <1>2, InvAlways, PTL DEF Spec, ImplementsDescriptors, D!Spec
===============================================================================
