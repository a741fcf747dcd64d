------------------------------ MODULE FileSource ------------------------------
(***************************************************************************)
(* The two file descriptors of one open mcachefs_file_t: sources[BACKING], *)
(* the copy in the cache directory, and sources[REAL], the file on the     *)
(* target filesystem (mcachefs-file.c).                                    *)
(*                                                                         *)
(* Every access goes through mcachefs_file_getfd / mcachefs_file_putfd.    *)
(* A descriptor is shared: a second access takes the one already open when *)
(* its mode is enough, and an access that needs O_RDWR where the           *)
(* descriptor is O_RDONLY waits for every user to leave, closes it and     *)
(* opens it again.  Three others may close it: the garbage collector       *)
(* (mcachefs_file_cleanup_file), the end of a transfer, and the re-open.   *)
(*                                                                         *)
(* A critical section of the file's mutex is one step; what the code does  *)
(* after the unlock (the read of source->fd in the return statement of     *)
(* mcachefs_file_do_open, the I/O, the test of the returned fd) is a step  *)
(* of its own.                                                             *)
(***************************************************************************)
EXTENDS Integers, FiniteSets

CONSTANTS
  Threads,   (* FUSE worker threads and transfer threads                    *)
  FDs,       (* the descriptor numbers the kernel may hand out              *)
  Errno,     (* the errno values an open(2) may fail with                   *)
  Ops,       (* the operations the threads perform, a subset of AllOps      *)
  MaxOps     (* bound: operations started by each thread                    *)

BACKING == 0
REAL == 1
Sources == {BACKING, REAL}

(* mcachefs_read_file on either source, mcachefs_write_file, and
   mcachefs_transfer_file in both directions *)
AllOps == {"read_real", "read_backing", "write", "backup", "writeback"}
Transfers == {"backup", "writeback"}

ASSUME ThreadsAssumption == IsFiniteSet(Threads)
ASSUME FDsAssumption == FDs \subseteq Nat
ASSUME ErrnoAssumption == Errno \subseteq Nat \ {0}
ASSUME OpsAssumption == Ops \subseteq AllOps
ASSUME MaxOpsAssumption == MaxOps \in Nat

VARIABLES
  fd, use, wr,   (* the fields of mfile->sources[]                           *)
  cache_status,  (* mfile->cache_status                                      *)
  table,         (* the kernel's descriptor table: what each number denotes  *)
  pc,            (* where each thread is                                     *)
  op,            (* the operation each thread performs                       *)
  stage,         (* which of its sources the thread is at: 1, or 2           *)
  fdv,           (* the local variable (fd, source_fd, target_fd) per source *)
  held,          (* history: the sources a thread was given and not put back *)
  started        (* operations each thread has started                       *)

vars == <<fd, use, wr, cache_status, table, pc, op, stage, fdv, held, started>>

-----------------------------------------------------------------------------
(* What an operation asks for: a transfer first opens what it reads from,  *)
(* O_RDONLY, and then what it copies to, O_RDWR.                           *)

First(o) == IF o \in {"read_real", "backup"} THEN REAL ELSE BACKING
Other(s) == 1 - s

(* asked_wr = __IS_WRITE(flags) *)
AskedWr(o, s) ==
  IF o = "write" \/ (o \in Transfers /\ s = Other(First(o))) THEN 1 ELSE 0

(* The source the thread opens, waits for or tests: a transfer at its
   second stage is at the target of the copy. *)
Current(t) == IF stage[t] = 1 THEN First(op[t]) ELSE Other(First(op[t]))

Free == [file |-> -1, wr |-> 0]
Closed(tab, d) == [f \in FDs |-> IF f = d THEN Free ELSE tab[f]]

Goto(t, l) == pc' = [pc EXCEPT ![t] = l]

-----------------------------------------------------------------------------
Init ==
  /\ fd = [s \in Sources |-> -1]
  /\ use = [s \in Sources |-> 0]
  /\ wr = [s \in Sources |-> 0]
  /\ cache_status = "none"
  /\ table = [f \in FDs |-> Free]
  /\ pc = [t \in Threads |-> "idle"]
  /\ op = [t \in Threads |-> "read_real"]
  /\ stage = [t \in Threads |-> 1]
  /\ fdv = [t \in Threads |-> [s \in Sources |-> -1]]
  /\ held = [t \in Threads |-> {}]
  /\ started = [t \in Threads |-> 0]

(* mcachefs_transfer_backfile, when the file is opened: it is in the cache *)
(* already, or its copy is asked for.                                      *)
Backfile ==
  /\ cache_status \in {"none", "error"}
  /\ cache_status' \in {"asked", "done"}
  /\ UNCHANGED <<fd, use, wr, table, pc, op, stage, fdv, held, started>>

(* mcachefs_transfer_writeback, called when the journal is applied: a file  *)
(* with a copy in the cache is queued, whatever its status was.            *)
Writeback ==
  /\ "writeback" \in Ops
  /\ cache_status # "done"
  /\ cache_status' = "done"
  /\ UNCHANGED <<fd, use, wr, table, pc, op, stage, fdv, held, started>>

(* The status in which an operation gets as far as its first getfd: the    *)
(* choice of mcachefs_read_wait_accessible, the wait of                    *)
(* mcachefs_write_file, the dequeued transfer.                             *)
MayStart(o) ==
  CASE o = "read_backing" -> cache_status \in {"in_progress", "done"}
    [] o = "read_real" -> cache_status # "done"
    [] o = "write" -> cache_status = "done"
    [] o = "backup" -> cache_status = "asked"
    [] o = "writeback" -> cache_status # "none"

Start(t, o) ==
  /\ pc[t] = "idle"
  /\ started[t] < MaxOps
  /\ MayStart(o)
  /\ op' = [op EXCEPT ![t] = o]
  /\ stage' = [stage EXCEPT ![t] = 1]
  /\ started' = [started EXCEPT ![t] = @ + 1]
  /\ fdv' = [fdv EXCEPT ![t] = [s \in Sources |-> -1]]
  /\ cache_status' = IF o = "backup" THEN "in_progress" ELSE cache_status
  /\ Goto(t, "open")
  /\ UNCHANGED <<fd, use, wr, table, held>>

-----------------------------------------------------------------------------
(* mcachefs_file_do_open.  Each step below is taken with the file's mutex. *)

(* Mistake: no use++ when the descriptor is shared. *)
Bad_Reuse(t) ==
  /\ pc[t] = "open"
  /\ fd[Current(t)] # -1
  /\ AskedWr(op[t], Current(t)) <= wr[Current(t)]
  /\ held' = [held EXCEPT ![t] = @ \cup {Current(t)}]
  /\ Goto(t, "ret")
  /\ UNCHANGED <<fd, use, wr, cache_status, table, op, stage, fdv, started>>

(* Mistake: the mode of the open descriptor is not looked at. *)
Bad_ReuseAnyMode(t) ==
  LET s == Current(t) IN
  /\ pc[t] = "open"
  /\ fd[s] # -1
  /\ use' = [use EXCEPT ![s] = @ + 1]
  /\ held' = [held EXCEPT ![t] = @ \cup {s}]
  /\ Goto(t, "ret")
  /\ UNCHANGED <<fd, wr, cache_status, table, op, stage, fdv, started>>

(* mcachefs_file_may_reuse_source: the open descriptor will do. *)
Reuse(t) ==
  LET s == Current(t) IN
  /\ pc[t] = "open"
  /\ fd[s] # -1
  /\ AskedWr(op[t], s) <= wr[s]
  /\ use' = [use EXCEPT ![s] = @ + 1]
  /\ held' = [held EXCEPT ![t] = @ \cup {s}]
  /\ Goto(t, "ret")
  /\ UNCHANGED <<fd, wr, cache_status, table, op, stage, fdv, started>>

(* ... it is O_RDONLY and in use: unlock, sleep, and look again. *)
Wait(t) ==
  LET s == Current(t) IN
  /\ pc[t] = "open"
  /\ fd[s] # -1
  /\ AskedWr(op[t], s) > wr[s]
  /\ use[s] # 0
  /\ Goto(t, "wait")
  /\ UNCHANGED <<fd, use, wr, cache_status, table, op, stage, fdv, held, started>>

(* Mistake: the re-open does not wait for the users to leave. *)
Bad_MustOpen(t) ==
  /\ pc[t] \in {"open", "wait"}
  /\ fd[Current(t)] = -1 \/ AskedWr(op[t], Current(t)) > wr[Current(t)]

(* No descriptor is open, or the one that is must be re-opened and has no
   user left.  A thread that waited does not look at fd or wr again. *)
MustOpen(t) ==
  LET s == Current(t) IN
  \/ /\ pc[t] = "open"
     /\ \/ fd[s] = -1
        \/ AskedWr(op[t], s) > wr[s] /\ use[s] = 0
  \/ pc[t] = "wait" /\ use[s] = 0

(* Mistake: wr = flags, which is 2 for O_RDWR. *)
Bad_Open(t) ==
  LET s == Current(t)
      tab == Closed(table, fd[s]) IN
  /\ MustOpen(t)
  /\ \E f \in FDs :
       /\ tab[f] = Free
       /\ table' = [tab EXCEPT ![f] = [file |-> s, wr |-> AskedWr(op[t], s)]]
       /\ fd' = [fd EXCEPT ![s] = f]
  /\ use' = [use EXCEPT ![s] = @ + 1]
  /\ wr' = [wr EXCEPT ![s] = 2 * AskedWr(op[t], s)]
  /\ held' = [held EXCEPT ![t] = @ \cup {s}]
  /\ Goto(t, "ret")
  /\ UNCHANGED <<cache_status, op, stage, fdv, started>>

(* close(source->fd); source->fd = open(...); use++; wr = asked_wr *)
Open(t) ==
  LET s == Current(t)
      tab == Closed(table, fd[s]) IN
  /\ MustOpen(t)
  /\ \E f \in FDs :
       /\ tab[f] = Free
       /\ table' = [tab EXCEPT ![f] = [file |-> s, wr |-> AskedWr(op[t], s)]]
       /\ fd' = [fd EXCEPT ![s] = f]
  /\ use' = [use EXCEPT ![s] = @ + 1]
  /\ wr' = [wr EXCEPT ![s] = AskedWr(op[t], s)]
  /\ held' = [held EXCEPT ![t] = @ \cup {s}]
  /\ Goto(t, "ret")
  /\ UNCHANGED <<cache_status, op, stage, fdv, started>>

(* close(source->fd); the open fails: source->fd = -1, return -errno *)
OpenFails(t) ==
  LET s == Current(t) IN
  /\ MustOpen(t)
  /\ \E e \in Errno : fdv' = [fdv EXCEPT ![t][s] = -e]
  /\ table' = Closed(table, fd[s])
  /\ fd' = [fd EXCEPT ![s] = -1]
  /\ Goto(t, "got")
  /\ UNCHANGED <<use, wr, cache_status, op, stage, held, started>>

(* "return source->fd", read after the unlock *)
ReturnFd(t) ==
  LET s == Current(t) IN
  /\ pc[t] = "ret"
  /\ fdv' = [fdv EXCEPT ![t][s] = fd[s]]
  /\ Goto(t, "got")
  /\ UNCHANGED <<fd, use, wr, cache_status, table, op, stage, held, started>>

-----------------------------------------------------------------------------
(* The callers *)

(* Does the caller take the returned value for an error?  All but
   mcachefs_write_file test fd < 0. *)
SeenAsError(o, d) == IF o = "write" THEN d = -1 ELSE d < 0

(* mcachefs_file_source_putfd *)
Putfd(t, s) ==
  /\ use' = [use EXCEPT ![s] = IF @ = 0 THEN 0 ELSE @ - 1]
  /\ held' = [held EXCEPT ![t] = @ \ {s}]

(* The caller tests the descriptor it was returned.  A transfer goes on to
   its target, and gives its source back when it cannot open the target. *)
GotFd(t) ==
  /\ pc[t] = "got"
  /\ ~SeenAsError(op[t], fdv[t][Current(t)])
  /\ IF op[t] \in Transfers /\ stage[t] = 1
       THEN stage' = [stage EXCEPT ![t] = 2] /\ Goto(t, "open")
       ELSE stage' = stage /\ Goto(t, "io")
  /\ UNCHANGED <<fd, use, wr, cache_status, table, op, fdv, held, started>>

GotError(t) ==
  /\ pc[t] = "got"
  /\ SeenAsError(op[t], fdv[t][Current(t)])
  /\ IF stage[t] = 2 THEN Putfd(t, First(op[t])) ELSE UNCHANGED <<use, held>>
  /\ Goto(t, IF op[t] \in Transfers THEN "failed" ELSE "idle")
  /\ UNCHANGED <<fd, wr, cache_status, table, op, stage, fdv, started>>

(* pread and pwrite on the local descriptors; a transfer may meet an error,
   or the quitting state, and take the copyerr path. *)
Io(t) ==
  /\ pc[t] = "io"
  /\ IF op[t] \in Transfers
       THEN Goto(t, "put_real") \/ Goto(t, "err_put_real")
       ELSE Goto(t, "put")
  /\ UNCHANGED <<fd, use, wr, cache_status, table, op, stage, fdv, held, started>>

(* Mistake: a read that fails returns without mcachefs_file_putfd. *)
Bad_Put(t) ==
  /\ pc[t] = "put"
  /\ Goto(t, "idle")
  /\ UNCHANGED <<fd, use, wr, held, cache_status, table, op, stage, fdv, started>>

(* mcachefs_file_putfd at the end of a read or of a write *)
Put(t) ==
  /\ pc[t] = "put"
  /\ Putfd(t, First(op[t]))
  /\ Goto(t, "idle")
  /\ UNCHANGED <<fd, wr, cache_status, table, op, stage, fdv, started>>

(* A transfer gives back the real source, then the backing one. *)
PutReal(t) ==
  /\ pc[t] \in {"put_real", "err_put_real"}
  /\ Putfd(t, REAL)
  /\ Goto(t, IF pc[t] = "put_real" THEN "put_backing" ELSE "err_put_backing")
  /\ UNCHANGED <<fd, wr, cache_status, table, op, stage, fdv, started>>

PutBacking(t) ==
  /\ pc[t] \in {"put_backing", "err_put_backing"}
  /\ Putfd(t, BACKING)
  /\ Goto(t, IF pc[t] = "put_backing" THEN "ended" ELSE "failed")
  /\ UNCHANGED <<fd, wr, cache_status, table, op, stage, fdv, started>>

(* Mistake: the descriptor is forgotten without close(2). *)
Bad_TransferEnds(t) ==
  /\ pc[t] = "ended"
  /\ cache_status' = IF op[t] = "backup" THEN "done" ELSE cache_status
  /\ fd' = IF use[REAL] = 0 THEN [fd EXCEPT ![REAL] = -1] ELSE fd
  /\ Goto(t, "idle")
  /\ UNCHANGED <<use, wr, table, op, stage, fdv, held, started>>

(* The last critical section of mcachefs_transfer_file: the copy is done,
   and the real descriptor is closed unless someone uses it. *)
TransferEnds(t) ==
  /\ pc[t] = "ended"
  /\ cache_status' = IF op[t] = "backup" THEN "done" ELSE cache_status
  /\ IF use[REAL] = 0
       THEN /\ table' = Closed(table, fd[REAL])
            /\ fd' = [fd EXCEPT ![REAL] = -1]
       ELSE UNCHANGED <<table, fd>>
  /\ Goto(t, "idle")
  /\ UNCHANGED <<use, wr, op, stage, fdv, held, started>>

(* mcachefs_transfer_do_backing after a failed copy *)
TransferFails(t) ==
  /\ pc[t] = "failed"
  /\ cache_status' = IF op[t] = "backup" THEN "error" ELSE cache_status
  /\ Goto(t, "idle")
  /\ UNCHANGED <<fd, use, wr, table, op, stage, fdv, held, started>>

(* Mistake: the garbage collector does not look at use. *)
Bad_CleanedUp(s) == fd[s] # -1 /\ (s = BACKING => cache_status = "done")

(* mcachefs_file_cleanup_file, called by the file thread on files not used
   for file_ttl slices: closes the unused descriptors. *)
CleanedUp(s) ==
  /\ use[s] = 0
  /\ fd[s] # -1
  /\ s = BACKING => cache_status = "done"

CleanupFile ==
  /\ \E s \in Sources : CleanedUp(s)
  /\ fd' = [s \in Sources |-> IF CleanedUp(s) THEN -1 ELSE fd[s]]
  /\ table' = [f \in FDs |->
                  IF \E s \in Sources : CleanedUp(s) /\ fd[s] = f
                  THEN Free ELSE table[f]]
  /\ UNCHANGED <<use, wr, cache_status, pc, op, stage, fdv, held, started>>

Step(t) ==
  \/ Reuse(t) \/ Wait(t) \/ Open(t) \/ OpenFails(t) \/ ReturnFd(t)
  \/ GotFd(t) \/ GotError(t) \/ Io(t) \/ Put(t) \/ PutReal(t)
  \/ PutBacking(t) \/ TransferEnds(t) \/ TransferFails(t)

(* Every thread is idle and has used up its bound: nothing is left to run. *)
AllDone ==
  /\ \A t \in Threads : pc[t] = "idle" /\ started[t] = MaxOps
  /\ UNCHANGED vars

Next ==
  \/ AllDone
  \/ Backfile
  \/ Writeback
  \/ CleanupFile
  \/ \E t \in Threads : Step(t) \/ \E o \in Ops : Start(t, o)

Spec == Init /\ [][Next]_vars

(* A started operation goes on: its thread is scheduled, and the sleep of
   the re-open loop ends.  Nothing obliges a client to start one. *)
FairSpec == Spec /\ \A t \in Threads : WF_vars(Step(t))

-----------------------------------------------------------------------------
(* Properties *)

FdValues == FDs \cup {-1}
Labels == {"idle", "open", "wait", "ret", "got", "io", "put", "put_real", "put_backing",
           "err_put_real", "err_put_backing", "ended", "failed"}

(* Every variable has its type: descriptors are numbers of FDs or -1, a use
   count is never negative, a returned error is the negation of an errno. *)
TypeOK ==
  /\ fd \in [Sources -> FdValues]
  /\ use \in [Sources -> Nat]
  /\ wr \in [Sources -> {0, 1}]
  /\ cache_status \in {"none", "asked", "in_progress", "done", "error"}
  /\ table \in [FDs -> [file : Sources \cup {-1}, wr : {0, 1}]]
  /\ pc \in [Threads -> Labels]
  /\ op \in [Threads -> AllOps]
  /\ stage \in [Threads -> {1, 2}]
  /\ fdv \in [Threads -> [Sources -> FdValues \cup {-e : e \in Errno}]]
  /\ held \in [Threads -> SUBSET Sources]
  /\ started \in [Threads -> Nat]

Holders(s) == {t \in Threads : s \in held[t]}

(* source->use is what mcachefs-types.h says of it, the "number of concurrent
   accesses to this fd": the threads that got the descriptor and have not put
   it back, on every path of every caller. *)
UseCountsHolders == \A s \in Sources : use[s] = Cardinality(Holders(s))

(* No thread reads or writes through a descriptor that was closed, or closed
   and handed out again, after the thread got it: during its I/O each local
   descriptor still denotes the source it was asked for, in a mode that is
   enough, though others share, re-open, clean up and close. *)
IoOnRightFile ==
  \A t \in Threads : pc[t] = "io" =>
    \A s \in held[t] :
      /\ fdv[t][s] \in FDs
      /\ table[fdv[t][s]].file = s
      /\ AskedWr(op[t], s) <= table[fdv[t][s]].wr

(* No descriptor leaks: each one open in the kernel is the current one of its
   source, whichever of the closing paths ran and in whatever order. *)
NoFdLeak ==
  \A f \in FDs : table[f] # Free => \E s \in Sources : fd[s] = f

(* A source's descriptor is never closed nor replaced by a step taken while
   some thread holds it. *)
FdStableWhileHeld ==
  [][\A s \in Sources : Holders(s) # {} => fd'[s] = fd[s]]_vars

(* The source's fields and the kernel's table together are what Descriptors
   promises: the users of a source are the threads between their getfd and putfd,
   its descriptor is the one the kernel has open for it. *)
OpenDescriptors ==
  {[fd |-> f, file |-> table[f].file, wr |-> table[f].wr] : f \in {g \in FDs : table[g] # Free}}
Askers == [s \in Sources |-> {<<t, AskedWr(op[t], s)>> : t \in Holders(s)}]

D == INSTANCE Descriptors WITH open <- OpenDescriptors, users <- Askers,
                               Users <- Threads, Files <- Sources, Numbers <- FDs
ImplementsDescriptors == D!Spec

(* Every operation a thread started ends: the wait for the users of a
   descriptor to leave, before it is re-opened O_RDWR, is not for ever. *)
OperationsEnd == \A t \in Threads : pc[t] # "idle" ~> pc[t] = "idle"

================================================================================
