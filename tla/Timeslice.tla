------------------------------- MODULE Timeslice -------------------------------
(***************************************************************************)
(* The lists of open files (mcachefs-file-ts.c): a ring of time slices, one *)
(* of which is current, a garbage list for what falls off the ring, and a  *)
(* list of freed structures.  The lists are linked by hand through         *)
(* timeslice_next and timeslice_previous; the file thread turns the ring   *)
(* and closes the descriptors of the files last touched file_ttl ticks     *)
(* ago.  Everything but the test of mcachefs_file_timeslice_freshen is     *)
(* under the file lock, so a step here is a critical section of it.        *)
(***************************************************************************)
EXTENDS Integers, FiniteSets

CONSTANTS
  Clients,   (* threads with at most one open handle each                    *)
  Files,     (* addresses of mcachefs_file_t structures                      *)
  NULL,
  NB,        (* MCACHEFS_FILE_TIMESLICE_NB                                   *)
  TTL0,      (* file_ttl at first                                            *)
  Ops        (* optional behaviours: "backup_fails"                          *)

ASSUME SlicesAssumption == NB \in Nat /\ NB >= 2 /\ TTL0 \in 1..NB - 1
ASSUME NullAssumption == NULL \notin Files
ASSUME FilesAssumption == IsFiniteSet(Files)

Ring == 0..NB - 1
Garbage == NB
Freed == NB + 1
Lists == Ring \cup {Garbage, Freed}
None == -1
Sources == {"real", "backing"}
InUse == [real |-> {"io_real"}, backing |-> {"io_backing", "backup"}]

VARIABLES
  ts,        (* head of every list, and next, previous, slice of every file  *)
  current,   (* mcachefs_file_timeslice_current                              *)
  ttl,       (* config file_ttl                                              *)
  alloced,   (* structures in memory                                         *)
  type,      (* mfile->type                                                  *)
  fd,        (* the sources of the file that have an open descriptor         *)
  done,      (* cache_status = MCACHEFS_FILE_BACKING_DONE                    *)
  pc, handle,
  bug,       (* a Bug() was reached                                          *)
  touched,   (* history: ticks since the file was last inserted or freshened *)
  escaped    (* history: the collector will miss it, for a reason given at
                OpenedLate, InUseAtItsTick and TtlLowered                   *)

files == <<alloced, type, fd, done>>
client == <<pc, handle>>
history == <<touched, escaped>>
vars == <<ts, current, ttl, files, client, bug, history>>

Goto(c, l) == pc' = [pc EXCEPT ![c] = l]

-----------------------------------------------------------------------------
(* The lists *)

EmptyLists ==
  [head |-> [s \in Lists |-> NULL], next |-> [f \in Files |-> NULL],
   previous |-> [f \in Files |-> NULL], slice |-> [f \in Files |-> None]]

(* The n-th file of list s, from 0, and the files of the list. *)
Nth(L, s) ==
  LET at[n \in 0..Cardinality(Files)] ==
        IF n = 0 THEN L.head[s]
        ELSE IF at[n - 1] = NULL THEN NULL ELSE L.next[at[n - 1]]
  IN at
Members(L, s) == LET at == Nth(L, s) IN {at[n] : n \in DOMAIN at} \ {NULL}
Tail(L, s) == CHOOSE f \in Members(L, s) : L.next[f] = NULL

(* mcachefs_file_timeslice_insert_in_ts, at the head of list s; its Bugs *)
Insert(L, f, s) ==
  [head |-> [L.head EXCEPT ![s] = f],
   next |-> [L.next EXCEPT ![f] = L.head[s]],
   previous |-> [g \in Files |-> IF g = L.head[s] THEN f ELSE L.previous[g]],
   slice |-> [L.slice EXCEPT ![f] = s]]

InsertBug(L, f, s) ==
  \/ L.slice[f] # None \/ L.previous[f] # NULL \/ L.next[f] # NULL
  \/ LET n == L.head[s] IN n # NULL /\ L.next[n] # NULL /\ L.previous[L.next[n]] # n

(* Mistake: the next file is not told the slice of the list it now heads. *)
Bad_Remove(L, f) ==
  [head |-> IF L.previous[f] = NULL THEN [L.head EXCEPT ![L.slice[f]] = L.next[f]] ELSE L.head,
   next |-> [g \in Files |-> IF g = f THEN NULL ELSE IF g = L.previous[f] THEN L.next[f] ELSE L.next[g]],
   previous |-> [g \in Files |-> IF g = f THEN NULL ELSE IF g = L.next[f] THEN L.previous[f] ELSE L.previous[g]],
   slice |-> [L.slice EXCEPT ![f] = None]]

(* mcachefs_file_timeslice_remove, and its Bugs *)
Remove(L, f) ==
  [head |-> IF L.previous[f] = NULL THEN [L.head EXCEPT ![L.slice[f]] = L.next[f]] ELSE L.head,
   next |-> [g \in Files |-> IF g = f THEN NULL ELSE IF g = L.previous[f] THEN L.next[f] ELSE L.next[g]],
   previous |-> [g \in Files |-> IF g = f THEN NULL ELSE IF g = L.next[f] THEN L.previous[f] ELSE L.previous[g]],
   slice |-> [g \in Files |-> IF g = f THEN None ELSE IF g = L.next[f] THEN L.slice[f] ELSE L.slice[g]]]

RemoveBug(L, f) ==
  \/ L.previous[f] = NULL /\ (L.slice[f] = None \/ L.head[L.slice[f]] # f)
  \/ L.previous[f] # NULL /\ L.next[L.previous[f]] # f
  \/ L.next[f] # NULL /\ L.previous[L.next[f]] # f

(* mcachefs_file_timeslice_update: slice s goes to the garbage, in front of
   what is there; only its head is told. *)
ToGarbage(L, s) ==
  IF L.head[s] = NULL THEN L
  ELSE [head |-> [L.head EXCEPT ![Garbage] = L.head[s], ![s] = NULL],
        next |-> [L.next EXCEPT ![Tail(L, s)] = L.head[Garbage]],
        previous |-> [g \in Files |-> IF g = L.head[Garbage] THEN Tail(L, s) ELSE L.previous[g]],
        slice |-> [L.slice EXCEPT ![L.head[s]] = Garbage]]

ToGarbageBug(L, s) ==
  L.head[s] # NULL /\ L.head[Garbage] # NULL /\ L.previous[L.head[Garbage]] # NULL

(* mcachefs_file_timeslice_cleanup_freed *)
DropFreed(L) ==
  [head |-> [L.head EXCEPT ![Freed] = NULL],
   next |-> [g \in Files |-> IF g \in Members(L, Freed) THEN NULL ELSE L.next[g]],
   previous |-> [g \in Files |-> IF g \in Members(L, Freed) THEN NULL ELSE L.previous[g]],
   slice |-> [g \in Files |-> IF g \in Members(L, Freed) THEN None ELSE L.slice[g]]]

-----------------------------------------------------------------------------
Back(n) == (current + NB - n) % NB
Users(f) == {c \in Clients : handle[c] = f}

(* The sources of f with source->use > 0 *)
Busy(f) == {s \in Sources : \E c \in Users(f) : pc[c] \in InUse[s]}

Init ==
  /\ ts = EmptyLists
  /\ current = 0 /\ ttl = TTL0
  /\ alloced = {} /\ type = [f \in Files |-> "none"] /\ fd = [f \in Files |-> {}]
  /\ done = [f \in Files |-> FALSE]
  /\ pc = [c \in Clients |-> "idle"] /\ handle = [c \in Clients |-> NULL]
  /\ bug = FALSE
  /\ touched = [f \in Files |-> 0] /\ escaped = [f \in Files |-> FALSE]

(* mcachefs_fileid_get of an entry whose fh is set *)
OpenAgain(c, f) ==
  /\ pc[c] = "idle" /\ handle[c] = NULL
  /\ f \in alloced /\ type[f] # "none"
  /\ handle' = [handle EXCEPT ![c] = f]
  /\ UNCHANGED <<ts, current, ttl, files, pc, bug, history>>

(* mcachefs_fileid_get of another: mcachefs_file_add takes a freed structure
   (mcachefs_file_timeslice_get_freed), or allocates one; f is cleared
   (mcachefs_file_init) and inserted in the current slice. *)
Start(L, f) ==
  Insert([head |-> L.head, next |-> [L.next EXCEPT ![f] = NULL],
          previous |-> [L.previous EXCEPT ![f] = NULL], slice |-> [L.slice EXCEPT ![f] = None]],
         f, current)

Open(c, f, t, incache) ==
  /\ pc[c] = "idle" /\ handle[c] = NULL
  /\ IF ts.head[Freed] = NULL
     THEN /\ f \notin alloced
          /\ ts' = Start(ts, f)
          /\ UNCHANGED bug
     ELSE /\ f = ts.head[Freed]
          /\ bug' = (bug \/ RemoveBug(ts, f))
          /\ ts' = Start(Remove(ts, f), f)
  /\ alloced' = alloced \cup {f}
  /\ type' = [type EXCEPT ![f] = t]
  /\ fd' = [fd EXCEPT ![f] = {}]
  /\ done' = [done EXCEPT ![f] = incache]
  /\ handle' = [handle EXCEPT ![c] = f]
  /\ touched' = [touched EXCEPT ![f] = 0]
  /\ escaped' = [escaped EXCEPT ![f] = FALSE]
  /\ UNCHANGED <<current, ttl, pc>>

(* Mistake: a file whose copy is not complete is not looked at. *)
Bad_Closable(f) == IF type[f] = "file" /\ done[f] THEN Sources \ Busy(f) ELSE {}

(* mcachefs_file_cleanup_file, mcachefs_file_cleanup_file_source: the sources
   it closes, if open *)
Closable(f) ==
  IF type[f] # "file" THEN {}
  ELSE (IF done[f] THEN Sources ELSE {"real"}) \ Busy(f)

(* mcachefs_file_release: mfile->use came down to 0 *)
LastUser(c) == Users(handle[c]) = {c}

(* mcachefs_release, mcachefs_file_release: the last user of a file closes its
   descriptors (mcachefs_file_cleanup_file) and frees it (mcachefs_file_remove);
   a virtual file stays. *)
Release(c) ==
  LET f == handle[c] IN
  /\ pc[c] = "idle" /\ f # NULL
  /\ handle' = [handle EXCEPT ![c] = NULL]
  /\ IF LastUser(c) /\ type[f] # "vops"
     THEN /\ bug' = (bug \/ RemoveBug(ts, f) \/ InsertBug(Remove(ts, f), f, Freed))
          /\ ts' = Insert(Remove(ts, f), f, Freed)
          /\ fd' = [fd EXCEPT ![f] = @ \ Closable(f)]
          /\ type' = [type EXCEPT ![f] = "none"]
          /\ escaped' = [escaped EXCEPT ![f] = FALSE]
     ELSE UNCHANGED <<ts, fd, type, bug, escaped>>
  /\ UNCHANGED <<current, ttl, alloced, done, pc, touched>>

-----------------------------------------------------------------------------
(* mcachefs_file_timeslice_freshen, by a read or a write: the test, without
   the lock, and what is done with it. *)
FreshenTest(c) ==
  LET f == handle[c] IN
  /\ pc[c] = "idle" /\ f # NULL
  /\ IF ts.slice[f] = current
     THEN Goto(c, "getfd") /\ touched' = [touched EXCEPT ![f] = 0]
     ELSE Goto(c, "freshen") /\ UNCHANGED touched
  /\ UNCHANGED <<ts, current, ttl, files, handle, bug, escaped>>

(* mcachefs_file_timeslice_do_freshen *)
DoFreshen(c) ==
  LET f == handle[c] IN
  /\ pc[c] = "freshen"
  /\ bug' = (bug \/ RemoveBug(ts, f) \/ InsertBug(Remove(ts, f), f, current))
  /\ ts' = Insert(Remove(ts, f), f, current)
  /\ touched' = [touched EXCEPT ![f] = 0]
  /\ escaped' = [escaped EXCEPT ![f] = FALSE]
  /\ Goto(c, "getfd")
  /\ UNCHANGED <<current, ttl, files, handle>>

(* The ways for a descriptor to escape the collector: it is opened when the
   file is past its tick already (a transfer, a call that lasted, a file that
   only looked fresh), it is in use at its tick, or file_ttl is lowered under
   the age of the file. *)
Awaited(L, now, t, f) == \E n \in 0..t : f \in Members(L, (now + NB - n) % NB)
OpenedLate(f) == ~Awaited(ts, current, ttl, f)
InUseAtItsTick(f) == fd[f] \ Closable(f) # {} /\ f \in Members(ts, Back(ttl))
TtlLowered(f, n) == fd[f] # {} /\ ~Awaited(ts, current, n, f)

(* mcachefs_file_getfd and mcachefs_file_putfd (FileSource): a call uses the
   copy if it is complete; a transfer does not freshen the file. *)
Opens(c, s, l) ==
  LET f == handle[c] IN
  /\ f # NULL /\ pc[c] \in {"getfd", "idle"}
  /\ type[f] = "file"
  /\ fd' = [fd EXCEPT ![f] = @ \cup {s}]
  /\ escaped' = [escaped EXCEPT ![f] = @ \/ OpenedLate(f)]
  /\ Goto(c, l)
  /\ UNCHANGED <<ts, current, ttl, alloced, type, done, handle, bug, touched>>

GetFd(c) ==
  \/ handle[c] # NULL /\ ~done[handle[c]] /\ Opens(c, "real", "io_real")
  \/ handle[c] # NULL /\ done[handle[c]] /\ Opens(c, "backing", "io_backing")

PutFd(c) ==
  /\ \/ pc[c] \in {"io_real", "io_backing"}
     \/ pc[c] = "getfd" /\ type[handle[c]] # "file"
  /\ Goto(c, "idle")
  /\ UNCHANGED <<ts, current, ttl, files, handle, bug, history>>

(* mcachefs_transfer_file to the cache, by a transfer thread: one at a time
   for a file. *)
Backup(c) ==
  /\ pc[c] = "idle" /\ handle[c] # NULL
  /\ ~done[handle[c]] /\ "backing" \notin Busy(handle[c])
  /\ Opens(c, "backing", "backup")

BackupEnds(c) ==
  /\ pc[c] = "backup"
  /\ \/ done' = [done EXCEPT ![handle[c]] = TRUE]
     \/ "backup_fails" \in Ops /\ UNCHANGED done
  /\ Goto(c, "idle")
  /\ UNCHANGED <<ts, current, ttl, alloced, type, fd, handle, bug, history>>

(* Mistake: zero is let through. *)
Bad_TtlAllowed(n) == n < NB

(* mcachefs_config_set_file_ttl *)
TtlAllowed(n) == 0 < n /\ n < NB

SetFileTtl(n) ==
  /\ TtlAllowed(n)
  /\ ttl' = n
  /\ escaped' = [f \in Files |-> escaped[f] \/ TtlLowered(f, n)]
  /\ UNCHANGED <<ts, current, files, client, bug, touched>>

-----------------------------------------------------------------------------
(* mcachefs_file_thread *)

(* Mistake: the age counts from the next slice. *)
Bad_Collected == Members(ts, (current + NB + 1 - ttl) % NB)

(* The files mcachefs_file_timeslice_cleanup_list visits. *)
Collected == Members(ts, Back(ttl))

(* mcachefs_file_timeslice_cleanup: close what is unused
   (mcachefs_file_cleanup_file), free the freed list once a turn; then
   mcachefs_file_timeslice_update. *)
FreesFreed == current = 0
AfterCleanup == IF FreesFreed THEN DropFreed(ts) ELSE ts

(* Mistake: the slice after the last one is thrown away. *)
Bad_Last == (current + NB + 2) % NB

Last == (current + NB + 1) % NB

Tick ==
  /\ fd' = [f \in Files |-> IF f \in Collected THEN fd[f] \ Closable(f) ELSE fd[f]]
  /\ alloced' = IF FreesFreed THEN alloced \ Members(ts, Freed) ELSE alloced
  /\ bug' = (bug \/ ToGarbageBug(AfterCleanup, Last))
  /\ ts' = ToGarbage(AfterCleanup, Last)
  /\ current' = (current + 1) % NB
  /\ touched' = [f \in Files |-> IF touched[f] < NB - 1 THEN touched[f] + 1 ELSE NB - 1]
  /\ escaped' = [f \in Files |-> escaped[f] \/ InUseAtItsTick(f)]
  /\ UNCHANGED <<ttl, type, done, client>>

-----------------------------------------------------------------------------
Call(c) ==
  \/ \E f \in Files : OpenAgain(c, f) \/ \E d \in BOOLEAN : Open(c, f, "file", d)
                      \/ Open(c, f, "vops", FALSE)
  \/ Release(c) \/ FreshenTest(c) \/ Backup(c)
Step(c) == DoFreshen(c) \/ GetFd(c) \/ PutFd(c) \/ BackupEnds(c)

Next ==
  \/ \E c \in Clients : Call(c) \/ Step(c)
  \/ Tick
  \/ \E n \in Ring : SetFileTtl(n)

Spec == Init /\ [][Next]_vars

-----------------------------------------------------------------------------
(* Properties *)

(* Every variable has its type. *)
TypeOK ==
  /\ ts.head \in [Lists -> Files \cup {NULL}]
  /\ ts.next \in [Files -> Files \cup {NULL}] /\ ts.previous \in [Files -> Files \cup {NULL}]
  /\ ts.slice \in [Files -> Lists \cup {None}]
  /\ current \in Ring /\ ttl \in 1..NB - 1
  /\ alloced \subseteq Files
  /\ type \in [Files -> {"none", "file", "vops"}] /\ fd \in [Files -> SUBSET Sources] /\ done \in [Files -> BOOLEAN]
  /\ pc \in [Clients -> {"idle", "freshen", "getfd", "io_real", "io_backing", "backup"}]
  /\ handle \in [Clients -> Files \cup {NULL}]
  /\ touched \in [Files -> 0..NB - 1] /\ escaped \in [Files -> BOOLEAN]

(* The hand-made lists are lists: every structure in memory is in exactly one,
   the freed ones in the freed list, and both links agree.  The slice a file
   believes to be in is the one it is in; only behind the head of the garbage
   it may be another.  Memory is given back only when nobody has a handle, and
   no operation meets a Bug(). *)
ListsAreSound ==
  /\ \A f \in alloced : Cardinality({s \in Lists : f \in Members(ts, s)}) = 1
  /\ \A f \in Files : f \notin alloced => \A s \in Lists : f \notin Members(ts, s)
  /\ \A f \in alloced : f \in Members(ts, Freed) <=> type[f] = "none"
  /\ \A f, g \in alloced : ts.next[f] = g <=> ts.previous[g] = f
  /\ \A s \in Lists : \A f \in Members(ts, s) :
       ts.slice[f] = s \/ (s = Garbage /\ ts.head[s] # f)
  /\ \A c \in Clients : handle[c] # NULL => handle[c] \in alloced /\ type[handle[c]] # "none"
  /\ ~bug

(* Whoever is last to leave a file leaves no descriptor behind: nobody would
   know it any more. *)
DescriptorsDieWithFiles == \A f \in Files : type[f] = "none" => fd[f] = {}

(* A descriptor that was opened in time, and put back in time, belongs to a
   file the collector has yet to visit: nothing else escapes it, wherever the
   ring is and whichever files were freshened, freed or thrown away since. *)
DescriptorsAreAwaited ==
  \A f \in Files : fd[f] # {} /\ ~escaped[f] => Awaited(ts, current, ttl, f)

(* The collector does not close a descriptor of a file touched less than
   file_ttl ticks ago. *)
FreshFilesAreSpared ==
  [][\A f \in Files : type'[f] = "file" /\ ~(fd[f] \subseteq fd'[f]) => touched[f] >= ttl]_vars

================================================================================
