------------------------------- MODULE Journal --------------------------------
(***************************************************************************)
(* The life of an open file (mcachefs_file_t), the transfer queue with its *)
(* threads, and the application of the journal.                            *)
(*                                                                         *)
(* A client's open may queue a BACKUP of the file; its first write puts an *)
(* fsync entry in the journal; mcachefs_journal_apply, called from the     *)
(* .mcachefs/apply_journal vops file, queues a WRITEBACK for every fsync   *)
(* entry and counts them; each transfer thread reports the end of a        *)
(* write-back with mcachefs_notify_sync_end, and the last one to report    *)
(* ends the application.                                                   *)
(*                                                                         *)
(* A step is a critical section of one of the locks (metadata, file,       *)
(* transfer, journal), or what the code does between two of them.  File    *)
(* contents are left out: see CacheCoherence.                              *)
(***************************************************************************)
EXTENDS Naturals, Sequences, FiniteSets, SequencesExt

CONSTANTS
  Paths,       (* the regular files of the mounted tree                     *)
  Cached,      (* those of Paths that have a copy in the cache at first     *)
  Clients,     (* FUSE worker threads, each with at most one open handle    *)
  Threads,     (* transfer threads                                          *)
  Type,        (* the type each transfer thread serves                      *)
  Mfiles,      (* addresses of mcachefs_file_t structures                   *)
  Ops,         (* optional behaviours, a subset of AllOps                   *)
  MaxOpens,    (* bound: opens per client                                   *)
  MaxApplies   (* bound: applications of the journal                        *)

BACKUP == "BACKUP"
WRITEBACK == "WRITEBACK"
Types == {BACKUP, WRITEBACK}
NULL == 0
None == "none"

(* unlink: clients also remove and create files; apply_empty: the journal
   may be applied when there is no journal file; backup_fails and
   writeback_fails: a copy of that type may meet an I/O error; create_fails:
   so may the creation of the file in the cache; use_race: the increment of
   mfile->use in mcachefs_transfer_backfile, which shares no lock with the
   decrement in mcachefs_file_release, may be lost or undo it. *)
AllOps == {"unlink", "apply_empty", "backup_fails", "writeback_fails", "create_fails", "use_race"}

MayFail(type) == (type = BACKUP /\ "backup_fails" \in Ops)
              \/ (type = WRITEBACK /\ "writeback_fails" \in Ops)

ASSUME TypeAssumption == Type \in [Threads -> Types]
ASSUME MfilesAssumption == Mfiles \subseteq Nat \ {NULL} /\ IsFiniteSet(Mfiles)
ASSUME OpsAssumption == Ops \subseteq AllOps
ASSUME PathsAssumption == Cached \subseteq Paths /\ None \notin Paths
ASSUME ProcessesAssumption == IsFiniteSet(Clients) /\ IsFiniteSet(Threads)
ASSUME BoundsAssumption == MaxOpens \in Nat /\ MaxApplies \in Nat

VARIABLES
  (* the metadata and the cache directory *)
  exists,        (* the paths that have a metadata entry                     *)
  fh,            (* mdata->fh of each path                                   *)
  incache,       (* the paths that have a file in the cache directory        *)
  (* mcachefs_file_t, by address *)
  path,          (* mfile->path; None when not allocated                     *)
  use,           (* mfile->use                                               *)
  cache_status,  (* mfile->cache_status                                      *)
  dirty,         (* mfile->dirty                                             *)
  linked,        (* mfile->metadata_id # 0                                   *)
  (* the transfer queue *)
  queue,         (* mcachefs_transfer_queue_head .. tail                     *)
  sem,           (* mcachefs_transfer_sem[]                                  *)
  (* the journal *)
  journal,       (* the entries of the journal file                          *)
  jfile,         (* the journal file exists                                  *)
  fsyncfile,     (* the .fsync file exists                                   *)
  jlock,         (* the journal is locked by a running mcachefs_journal_apply*)
  action,        (* mcachefs_journal_action                                  *)
  total, ok, error,  (* mcachefs_journal_fsync                               *)
  (* the processes *)
  cpc, handle, cpath, opens,  (* clients                                     *)
  loaded,        (* mfile->use as read by the unprotected mfile->use++       *)
  tpc, cur, success,          (* transfer threads: me->currentfile           *)
  apc, todo, apply_m, applies,  (* the applier                               *)
  bug            (* the Bug() the process died of                            *)

meta == <<exists, fh, incache>>
mfile == <<path, use, cache_status, dirty, linked>>
transfer == <<queue, sem>>
counts == <<total, ok, error>>
jvars == <<journal, jfile, fsyncfile, jlock, action, counts>>
client == <<cpc, handle, cpath, opens, loaded>>
thread == <<tpc, cur, success>>
applier == <<apc, todo, apply_m, applies>>
vars == <<meta, mfile, transfer, jvars, client, thread, applier, bug>>

-----------------------------------------------------------------------------
(* Shared operations *)

Allocated == {m \in Mfiles : path[m] # None}

(* The mutex of the open file is held by a client about to increment use. *)
Incrementing(m) == \E c \in Clients : cpc[c] = "use" /\ handle[c] = m

(* mcachefs_fileid_get, under the metadata lock, the file lock and, for an
   open file that exists, its mutex: the open file of the path gets one more
   user, or a new one is initialised. *)
FileidGet(p, m) ==
  IF fh[p] # NULL
  THEN /\ m = fh[p]
       /\ ~Incrementing(m)
       /\ use' = [use EXCEPT ![m] = @ + 1]
       /\ UNCHANGED <<fh, path, cache_status, dirty, linked>>
  ELSE /\ m \in Mfiles \ Allocated
       /\ fh' = [fh EXCEPT ![p] = m]
       /\ path' = [path EXCEPT ![m] = p]
       /\ use' = [use EXCEPT ![m] = 1]
       /\ cache_status' = [cache_status EXCEPT ![m] = "none"]
       /\ dirty' = [dirty EXCEPT ![m] = FALSE]
       /\ linked' = [linked EXCEPT ![m] = TRUE]

(* mcachefs_file_release, under the metadata and the file lock: the last
   user frees the structure and clears the fh of its metadata. *)
FileRelease(m) ==
  /\ UNCHANGED <<exists, incache, cache_status, dirty>>
  /\ IF use[m] > 1
     THEN /\ use' = [use EXCEPT ![m] = @ - 1]
          /\ UNCHANGED <<fh, path, linked, bug>>
     ELSE /\ use' = [use EXCEPT ![m] = 0]
          /\ path' = [path EXCEPT ![m] = None]
          /\ linked' = [linked EXCEPT ![m] = FALSE]
          /\ fh' = IF linked[m] THEN [fh EXCEPT ![path[m]] = NULL] ELSE fh
          /\ bug' = IF use[m] = 0 THEN "Zero use" ELSE bug

Queued(m) == \E i \in 1..Len(queue) : queue[i].mfile = m

(* mcachefs_transfer_queue_file, up to the sem_post: one transfer per file,
   whatever its type. *)
QueueFile(m, type) ==
  queue' = IF Queued(m) THEN queue ELSE Append(queue, [mfile |-> m, type |-> type])

SemPost(type) == sem' = [sem EXCEPT ![type] = @ + 1]

(* mcachefs_journal_append *)
JournalAppend(entry) ==
  /\ ~jlock
  /\ journal' = Append(journal, entry)
  /\ jfile' = TRUE
  /\ UNCHANGED <<fsyncfile, jlock, action, counts>>

-----------------------------------------------------------------------------
Init ==
  /\ exists = Paths
  /\ fh = [p \in Paths |-> NULL]
  /\ incache = Cached
  /\ path = [m \in Mfiles |-> None]
  /\ use = [m \in Mfiles |-> 0]
  /\ cache_status = [m \in Mfiles |-> "none"]
  /\ dirty = [m \in Mfiles |-> FALSE]
  /\ linked = [m \in Mfiles |-> FALSE]
  /\ queue = <<>>
  /\ sem = [type \in Types |-> 0]
  /\ journal = <<>> /\ jfile = FALSE /\ fsyncfile = FALSE /\ jlock = FALSE
  /\ action = "none"
  /\ total = 0 /\ ok = 0 /\ error = 0
  /\ cpc = [c \in Clients |-> "idle"]
  /\ handle = [c \in Clients |-> NULL]
  /\ cpath = [c \in Clients |-> None]
  /\ opens = [c \in Clients |-> 0]
  /\ loaded = [c \in Clients |-> 0]
  /\ tpc = [t \in Threads |-> "sem_wait"]
  /\ cur = [t \in Threads |-> NULL]
  /\ success = [t \in Threads |-> FALSE]
  /\ apc = "idle" /\ todo = <<>> /\ apply_m = NULL /\ applies = 0
  /\ bug = None

-----------------------------------------------------------------------------
(* Clients: mcachefs_open, mcachefs_write, mcachefs_release, mcachefs_unlink
   and mcachefs_mknod *)

CGoto(c, l) == cpc' = [cpc EXCEPT ![c] = l]

Open(c, p) ==
  /\ cpc[c] = "idle" /\ handle[c] = NULL /\ opens[c] < MaxOpens
  /\ p \in exists
  /\ \E m \in Mfiles : FileidGet(p, m) /\ handle' = [handle EXCEPT ![c] = m]
  /\ opens' = [opens EXCEPT ![c] = @ + 1]
  /\ CGoto(c, "backfile")
  /\ UNCHANGED <<exists, incache, transfer, jvars, cpath, loaded, thread, applier, bug>>

(* mcachefs_transfer_backfile, under the file's own mutex *)
Backfile(c) ==
  LET m == handle[c] IN
  /\ cpc[c] = "backfile"
  /\ \/ /\ cache_status[m] \in {"asked", "in_progress", "done"}
        /\ CGoto(c, "idle")
        /\ UNCHANGED <<cache_status, loaded>>
     \/ /\ cache_status[m] \in {"none", "error"} /\ path[m] \in incache
        /\ cache_status' = [cache_status EXCEPT ![m] = "done"]
        /\ CGoto(c, "idle")
        /\ UNCHANGED loaded
     \/ /\ cache_status[m] \in {"none", "error"} /\ path[m] \notin incache
        /\ cache_status' = [cache_status EXCEPT ![m] = "asked"]
        /\ loaded' = [loaded EXCEPT ![c] = use[m]]
        /\ CGoto(c, "use")
  /\ UNCHANGED <<meta, path, use, dirty, linked, transfer, jvars, handle, cpath, opens, thread, applier, bug>>

(* Mistake: the transfer queue's own use of the file is not counted. *)
Bad_UseIncrement(c) ==
  /\ cpc[c] = "use"
  /\ loaded' = [loaded EXCEPT ![c] = 0]
  /\ CGoto(c, "queue")
  /\ UNCHANGED <<meta, mfile, transfer, jvars, handle, cpath, opens, thread, applier, bug>>

(* mfile->use++ under the file's own mutex.  mcachefs_file_release decrements
   use with the metadata and the file lock instead: when that comes between
   the load and the store, either store may be the last. *)
UseIncrement(c) ==
  LET m == handle[c] IN
  /\ cpc[c] = "use"
  /\ \E u \in {use[m] + 1}
             \cup (IF "use_race" \in Ops /\ use[m] # loaded[c] THEN {loaded[c] + 1, use[m]} ELSE {}) :
       use' = [use EXCEPT ![m] = u]
  /\ loaded' = [loaded EXCEPT ![c] = 0]
  /\ CGoto(c, "queue")
  /\ UNCHANGED <<meta, path, cache_status, dirty, linked, transfer, jvars, handle, cpath, opens, thread, applier, bug>>

(* Mistake: no sem_post for the queued file. *)
Bad_QueueBackup(c) ==
  /\ cpc[c] = "queue"
  /\ QueueFile(handle[c], BACKUP)
  /\ CGoto(c, "idle")
  /\ UNCHANGED <<meta, mfile, sem, jvars, handle, cpath, opens, loaded, thread, applier, bug>>

(* ... which ignores the answer of mcachefs_transfer_queue_file. *)
QueueBackup(c) ==
  /\ cpc[c] = "queue"
  /\ QueueFile(handle[c], BACKUP)
  /\ CGoto(c, IF Queued(handle[c]) THEN "idle" ELSE "post")
  /\ UNCHANGED <<meta, mfile, sem, jvars, handle, cpath, opens, loaded, thread, applier, bug>>

PostBackup(c) ==
  /\ cpc[c] = "post"
  /\ SemPost(BACKUP)
  /\ CGoto(c, "idle")
  /\ UNCHANGED <<meta, mfile, queue, jvars, handle, cpath, opens, loaded, thread, applier, bug>>

(* mcachefs_write_file once the copy is there: the first write of this open
   file makes it dirty, then appends the fsync entry, outside the mutex. *)
Write(c) ==
  LET m == handle[c] IN
  /\ cpc[c] = "idle" /\ m # NULL
  /\ cache_status[m] = "done"
  /\ ~dirty[m]
  /\ dirty' = [dirty EXCEPT ![m] = TRUE]
  /\ CGoto(c, "append_fsync")
  /\ UNCHANGED <<meta, path, use, cache_status, linked, transfer, jvars, handle, cpath, opens, loaded, thread, applier, bug>>

AppendFsync(c) ==
  /\ cpc[c] = "append_fsync"
  /\ JournalAppend([op |-> "fsync", path |-> path[handle[c]]])
  /\ CGoto(c, "idle")
  /\ UNCHANGED <<meta, mfile, transfer, handle, cpath, opens, loaded, thread, applier, bug>>

Release(c) ==
  /\ cpc[c] = "idle" /\ handle[c] # NULL
  /\ FileRelease(handle[c])
  /\ handle' = [handle EXCEPT ![c] = NULL]
  /\ UNCHANGED <<transfer, jvars, cpc, cpath, opens, loaded, thread, applier>>

(* mcachefs_unlink: the metadata entry goes, and the open file forgets it
   (mcachefs_metadata_remove); then the copy; then the journal entry. *)
Unlink(c, p) ==
  /\ "unlink" \in Ops
  /\ cpc[c] = "idle" /\ opens[c] < MaxOpens
  /\ p \in exists
  /\ exists' = exists \ {p}
  /\ fh' = [fh EXCEPT ![p] = NULL]
  /\ linked' = IF fh[p] # NULL THEN [linked EXCEPT ![fh[p]] = FALSE] ELSE linked
  /\ cpath' = [cpath EXCEPT ![c] = p]
  /\ opens' = [opens EXCEPT ![c] = @ + 1]
  /\ CGoto(c, "unlink_cache")
  /\ UNCHANGED <<incache, path, use, cache_status, dirty, transfer, jvars, handle, loaded, thread, applier, bug>>

UnlinkCache(c) ==
  /\ cpc[c] = "unlink_cache"
  /\ incache' = incache \ {cpath[c]}
  /\ CGoto(c, "append_unlink")
  /\ UNCHANGED <<exists, fh, mfile, transfer, jvars, handle, cpath, opens, loaded, thread, applier, bug>>

(* mcachefs_mknod of a path that does not exist: metadata, journal, copy. *)
Mknod(c, p) ==
  /\ "unlink" \in Ops
  /\ cpc[c] = "idle" /\ opens[c] < MaxOpens
  /\ p \notin exists
  /\ exists' = exists \cup {p}
  /\ cpath' = [cpath EXCEPT ![c] = p]
  /\ opens' = [opens EXCEPT ![c] = @ + 1]
  /\ CGoto(c, "append_mknod")
  /\ UNCHANGED <<fh, incache, mfile, transfer, jvars, handle, loaded, thread, applier, bug>>

AppendUpdate(c) ==
  /\ cpc[c] \in {"append_unlink", "append_mknod"}
  /\ JournalAppend([op |-> "update", path |-> cpath[c]])
  /\ CGoto(c, IF cpc[c] = "append_mknod" THEN "create_cache" ELSE "idle")
  /\ UNCHANGED <<meta, mfile, transfer, handle, cpath, opens, loaded, thread, applier, bug>>

CreateCache(c) ==
  /\ cpc[c] = "create_cache"
  /\ incache' = incache \cup {cpath[c]}
  /\ CGoto(c, "idle")
  /\ UNCHANGED <<exists, fh, mfile, transfer, jvars, handle, cpath, opens, loaded, thread, applier, bug>>

-----------------------------------------------------------------------------
(* mcachefs_journal_apply, which holds the journal lock throughout.  Called  *)
(* while an application is under way it only says so, and changes nothing.  *)

IsFsync(entry) == entry.op = "fsync"

(* A non-zero total is a Bug; the updates are applied to the target (here
   they change nothing); the journal becomes the .fsync file.  Without a
   journal file the function returns with the action it has just set. *)
ApplyStart ==
  /\ apc = "idle" /\ ~jlock /\ applies < MaxApplies
  /\ action = "none"
  /\ jfile \/ "apply_empty" \in Ops
  /\ applies' = applies + 1
  /\ IF total # 0
     THEN bug' = "Already have pending fsync files" /\ UNCHANGED <<jvars, apc, todo>>
     ELSE /\ total' = 0 /\ ok' = 0 /\ error' = 0
          /\ bug' = bug
          /\ IF jfile
             THEN /\ action' = "sync"
                  /\ jlock' = TRUE
                  /\ todo' = journal
                  /\ journal' = <<>> /\ jfile' = FALSE /\ fsyncfile' = TRUE
                  /\ apc' = "next"
             ELSE /\ action' = "update"
                  /\ UNCHANGED <<jlock, todo, journal, jfile, fsyncfile, apc>>
  /\ UNCHANGED <<meta, mfile, transfer, client, thread, apply_m>>

(* One fsync entry has its answer: the loop of mcachefs_journal_apply_fsync. *)
Answered(oks, errors) ==
  /\ total' = total + 1 /\ ok' = ok + oks /\ error' = error + errors
  /\ todo' = Tail(todo)
  /\ apc' = "next"
  /\ UNCHANGED <<journal, jfile, fsyncfile, jlock, action>>

(* Updates are skipped.  mcachefs_transfer_writeback: no copy, -EIO *)
ApplyNext ==
  /\ apc = "next" /\ todo # <<>>
  /\ \/ /\ ~IsFsync(Head(todo))
        /\ todo' = Tail(todo)
        /\ UNCHANGED <<apc, jvars>>
     \/ /\ IsFsync(Head(todo)) /\ Head(todo).path \in incache
        /\ apc' = "get"
        /\ UNCHANGED <<todo, jvars>>
     \/ /\ IsFsync(Head(todo)) /\ Head(todo).path \notin incache
        /\ Answered(0, 1)
  /\ UNCHANGED <<meta, mfile, transfer, client, thread, apply_m, applies, bug>>

(* ... no metadata, -ENOENT; else one more use of the open file *)
ApplyGet ==
  LET p == Head(todo).path IN
  /\ apc = "get"
  /\ IF p \in exists
     THEN /\ \E m \in Mfiles : FileidGet(p, m) /\ apply_m' = m
          /\ apc' = "queue"
          /\ UNCHANGED <<todo, jvars>>
     ELSE Answered(0, 1) /\ UNCHANGED <<fh, mfile, apply_m>>
  /\ UNCHANGED <<exists, incache, transfer, client, thread, applies, bug>>

(* ... already queued, -EEXIST, which counts as a success *)
ApplyQueue ==
  /\ apc = "queue"
  /\ cache_status' = [cache_status EXCEPT ![apply_m] = "done"]
  /\ QueueFile(apply_m, WRITEBACK)
  /\ IF Queued(apply_m)
     THEN Answered(1, 0)
     ELSE apc' = "post" /\ UNCHANGED <<todo, jvars>>
  /\ UNCHANGED <<meta, path, use, dirty, linked, sem, client, thread, apply_m, applies, bug>>

ApplyPost ==
  /\ apc = "post"
  /\ SemPost(WRITEBACK)
  /\ Answered(0, 0)
  /\ UNCHANGED <<meta, mfile, queue, client, thread, apply_m, applies, bug>>

(* The end: when every file has its answer already, the application is over,
   but the counts are left as they are. *)
ApplyEnd ==
  /\ apc = "next" /\ todo = <<>>
  /\ IF ok + error = total
     THEN action' = "none" /\ fsyncfile' = FALSE
     ELSE UNCHANGED <<action, fsyncfile>>
  /\ jlock' = FALSE
  /\ apc' = "idle"
  /\ UNCHANGED <<meta, mfile, transfer, journal, jfile, counts, client, thread, todo, apply_m, applies, bug>>

-----------------------------------------------------------------------------
(* mcachefs_transfer_thread *)

TGoto(t, l) == tpc' = [tpc EXCEPT ![t] = l]

(* Mistake: sem_trywait, and its failure ignored. *)
Bad_SemWait(t) ==
  /\ tpc[t] = "sem_wait"
  /\ sem' = [sem EXCEPT ![Type[t]] = @ - 1]
  /\ TGoto(t, "get_next")
  /\ UNCHANGED <<meta, mfile, queue, jvars, client, cur, success, applier, bug>>

SemWait(t) ==
  /\ tpc[t] = "sem_wait"
  /\ sem[Type[t]] > 0
  /\ sem' = [sem EXCEPT ![Type[t]] = @ - 1]
  /\ TGoto(t, "get_next")
  /\ UNCHANGED <<meta, mfile, queue, jvars, client, cur, success, applier, bug>>

Mine(t) == {i \in 1..Len(queue) : queue[i].type = Type[t]}

(* Mistake: the head of the queue, whatever its type. *)
Bad_GetNext(t) ==
  /\ tpc[t] = "get_next"
  /\ queue # <<>>
  /\ queue' = Tail(queue)
  /\ cur' = [cur EXCEPT ![t] = Head(queue).mfile]
  /\ cache_status' = [cache_status EXCEPT ![Head(queue).mfile] = IF @ = "asked" THEN "in_progress" ELSE @]
  /\ TGoto(t, "do_transfer")
  /\ UNCHANGED <<meta, path, use, dirty, linked, sem, jvars, client, success, applier, bug>>

(* mcachefs_transfer_get_next_file_to_back_locked: the first entry of the
   thread's type, and there must be one. *)
GetNext(t) ==
  /\ tpc[t] = "get_next"
  /\ IF Mine(t) = {}
     THEN bug' = "No transfer set for type" /\ UNCHANGED <<queue, cache_status, tpc, cur>>
     ELSE LET i == CHOOSE k \in Mine(t) : \A j \in Mine(t) : k <= j
              m == queue[i].mfile IN
          /\ queue' = RemoveAt(queue, i)
          /\ cur' = [cur EXCEPT ![t] = m]
          /\ cache_status' = [cache_status EXCEPT ![m] = IF @ = "asked" THEN "in_progress" ELSE @]
          /\ TGoto(t, "do_transfer")
          /\ UNCHANGED bug
  /\ UNCHANGED <<meta, path, use, dirty, linked, sem, jvars, client, success, applier>>

(* mcachefs_transfer_do_transfer: a file whose metadata is gone, by id and
   by path, is not transferred at all. *)
DoTransfer(t) ==
  LET m == cur[t] IN
  /\ tpc[t] = "do_transfer"
  /\ IF linked[m] \/ path[m] \in exists
     THEN /\ linked' = [linked EXCEPT ![m] = TRUE]
          /\ TGoto(t, IF Type[t] = BACKUP THEN "create" ELSE "copy")
     ELSE TGoto(t, "release") /\ UNCHANGED linked
  /\ UNCHANGED <<meta, path, use, cache_status, dirty, transfer, jvars, client, cur, success, applier, bug>>

(* mcachefs_transfer_do_backing: a copy that is there already ends it, and
   so does the failure to create one; the status stays as it is. *)
CreateBacking(t) ==
  LET p == path[cur[t]] IN
  /\ tpc[t] = "create"
  /\ \/ /\ p \notin incache
        /\ incache' = incache \cup {p}
        /\ TGoto(t, "copy")
     \/ /\ p \in incache \/ "create_fails" \in Ops
        /\ TGoto(t, "release")
        /\ UNCHANGED incache
  /\ UNCHANGED <<exists, fh, mfile, transfer, jvars, client, cur, success, applier, bug>>

(* mcachefs_transfer_file, whose success sets the status of a BACKUP *)
Copy(t) ==
  LET m == cur[t] IN
  /\ tpc[t] = "copy"
  /\ \E s \in BOOLEAN :
       /\ s \/ MayFail(Type[t])
       /\ success' = [success EXCEPT ![t] = s]
       /\ cache_status' = [cache_status EXCEPT ![m] =
             IF Type[t] = BACKUP THEN (IF s THEN "done" ELSE "error") ELSE @]
       /\ TGoto(t, IF Type[t] = WRITEBACK THEN "notify" ELSE IF s THEN "release" ELSE "unlink")
  /\ UNCHANGED <<meta, path, use, dirty, linked, transfer, jvars, client, cur, applier, bug>>

(* ... whose failure removes the partial copy *)
UnlinkBacking(t) ==
  /\ tpc[t] = "unlink"
  /\ incache' = incache \ {path[cur[t]]}
  /\ TGoto(t, "release")
  /\ UNCHANGED <<exists, fh, mfile, transfer, jvars, client, cur, success, applier, bug>>

(* Mistake: a failed write-back is not counted. *)
Bad_NotifySyncEnd(t) ==
  LET ok1 == IF success[t] THEN ok + 1 ELSE ok IN
  /\ tpc[t] = "notify"
  /\ ~jlock
  /\ IF ok1 + error = total
     THEN /\ fsyncfile' = FALSE /\ action' = "none"
          /\ total' = 0 /\ ok' = 0 /\ error' = 0
     ELSE ok' = ok1 /\ UNCHANGED <<total, error, fsyncfile, action>>
  /\ TGoto(t, "release")
  /\ UNCHANGED <<meta, mfile, transfer, journal, jfile, jlock, client, cur, success, applier, bug>>

(* Mistake: the counts are not reset at the end. *)
Bad_NotifyKeepsCounts(t) ==
  /\ tpc[t] = "notify"
  /\ ~jlock
  /\ ok' = (IF success[t] THEN ok + 1 ELSE ok)
  /\ error' = (IF success[t] THEN error ELSE error + 1)
  /\ IF ok + error + 1 = total
     THEN fsyncfile' = FALSE /\ action' = "none"
     ELSE UNCHANGED <<fsyncfile, action>>
  /\ TGoto(t, "release")
  /\ UNCHANGED <<meta, mfile, transfer, journal, jfile, jlock, total, client, cur, success, applier, bug>>

(* mcachefs_notify_sync_end, with the journal lock *)
NotifySyncEnd(t) ==
  LET ok1 == IF success[t] THEN ok + 1 ELSE ok
      error1 == IF success[t] THEN error ELSE error + 1 IN
  /\ tpc[t] = "notify"
  /\ ~jlock
  /\ IF ok1 + error1 = total
     THEN /\ bug' = IF fsyncfile THEN bug ELSE "Could not unlink"
          /\ fsyncfile' = FALSE
          /\ total' = 0 /\ ok' = 0 /\ error' = 0
          /\ action' = "none"
     ELSE ok' = ok1 /\ error' = error1 /\ UNCHANGED <<total, fsyncfile, action, bug>>
  /\ TGoto(t, "release")
  /\ UNCHANGED <<meta, mfile, transfer, journal, jfile, jlock, client, cur, success, applier>>

ReleaseTransfer(t) ==
  /\ tpc[t] = "release"
  /\ FileRelease(cur[t])
  /\ cur' = [cur EXCEPT ![t] = NULL]
  /\ TGoto(t, "sem_wait")
  /\ UNCHANGED <<transfer, jvars, client, success, applier>>

-----------------------------------------------------------------------------
ClientStep(c) ==
  \/ Backfile(c) \/ UseIncrement(c) \/ QueueBackup(c) \/ PostBackup(c) \/ AppendFsync(c)
  \/ UnlinkCache(c) \/ AppendUpdate(c) \/ CreateCache(c)

ClientCall(c) ==
  \/ Write(c)
  \/ Release(c)
  \/ \E p \in Paths : Open(c, p) \/ Unlink(c, p) \/ Mknod(c, p)

ApplyStep == ApplyNext \/ ApplyGet \/ ApplyQueue \/ ApplyPost \/ ApplyEnd

ThreadStep(t) ==
  \/ SemWait(t) \/ GetNext(t) \/ DoTransfer(t) \/ CreateBacking(t) \/ Copy(t)
  \/ UnlinkBacking(t) \/ NotifySyncEnd(t) \/ ReleaseTransfer(t)

(* Bug() stops the process. *)
Next ==
  /\ bug = None
  /\ \/ \E c \in Clients : ClientStep(c) \/ ClientCall(c)
     \/ ApplyStart \/ ApplyStep
     \/ \E t \in Threads : ThreadStep(t)

Spec == Init /\ [][Next]_vars

(* The threads run; nothing obliges a client to make another call. *)
FairSpec ==
  /\ Spec
  /\ \A c \in Clients : WF_vars(bug = None /\ ClientStep(c))
  /\ WF_vars(bug = None /\ ApplyStep)
  /\ \A t \in Threads : WF_vars(bug = None /\ ThreadStep(t))

-----------------------------------------------------------------------------
(* Properties *)

Statuses == {"none", "asked", "in_progress", "done", "error"}

ClientLabels == {"idle", "backfile", "use", "queue", "post", "append_fsync",
                 "unlink_cache", "append_unlink", "append_mknod", "create_cache"}
ThreadLabels == {"sem_wait", "get_next", "do_transfer", "create", "copy", "unlink",
                 "notify", "release"}
Entries == [op : {"fsync", "update"}, path : Paths]

(* Every variable has its type. *)
TypeOK ==
  /\ exists \subseteq Paths /\ incache \subseteq Paths
  /\ fh \in [Paths -> Mfiles \cup {NULL}]
  /\ path \in [Mfiles -> Paths \cup {None}]
  /\ use \in [Mfiles -> Nat]
  /\ cache_status \in [Mfiles -> Statuses]
  /\ dirty \in [Mfiles -> BOOLEAN] /\ linked \in [Mfiles -> BOOLEAN]
  /\ queue \in Seq([mfile : Mfiles, type : Types])
  /\ sem \in [Types -> Nat]
  /\ journal \in Seq(Entries) /\ todo \in Seq(Entries)
  /\ {jfile, fsyncfile, jlock} \subseteq BOOLEAN
  /\ action \in {"none", "update", "sync"}
  /\ {total, ok, error} \subseteq Nat
  /\ cpc \in [Clients -> ClientLabels] /\ cpath \in [Clients -> Paths \cup {None}]
  /\ handle \in [Clients -> Mfiles \cup {NULL}]
  /\ opens \in [Clients -> Nat] /\ loaded \in [Clients -> Nat]
  /\ tpc \in [Threads -> ThreadLabels] /\ success \in [Threads -> BOOLEAN]
  /\ cur \in [Threads -> Mfiles \cup {NULL}]
  /\ apc \in {"idle", "next", "get", "queue", "post"}
  /\ apply_m \in Mfiles \cup {NULL} /\ applies \in Nat

(* How many of the structures' users can still reach m: open handles, a
   backfile about to queue it, queue entries, running transfers, the applier. *)
Refs(m) ==
  Cardinality({c \in Clients : handle[c] = m})
  + Cardinality({c \in Clients : handle[c] = m /\ cpc[c] = "queue"})
  + Cardinality({i \in 1..Len(queue) : queue[i].mfile = m})
  + Cardinality({t \in Threads : cur[t] = m})
  + (IF apc = "queue" /\ apply_m = m THEN 1 ELSE 0)

(* No mcachefs_file_t is freed while a handle, a queue entry, a transfer or
   the applier can still reach it, through every order of release and
   transfer ("may not be destroyed if use is non-zero"). *)
NoUseAfterFree ==
  \A m \in Mfiles : Refs(m) <= use[m] /\ (Refs(m) > 0 => path[m] # None)

(* mfile->use is exactly the number of its users, so that the structure and
   its metadata link are given back once they have all left. *)
UseIsExact == \A m \in Mfiles : use[m] = Refs(m)

(* The semaphore of each type, the threads that it has woken and the posts
   still to come account for the queue entries of that type: a thread that
   wakes up finds an entry, and no entry stays behind. *)
QueueMatchesSem ==
  \A type \in Types :
    Cardinality({i \in 1..Len(queue) : queue[i].type = type}) =
      sem[type]
      + Cardinality({t \in Threads : Type[t] = type /\ tpc[t] = "get_next"})
      + (IF type = BACKUP THEN Cardinality({c \in Clients : cpc[c] = "post"})
         ELSE IF apc = "post" THEN 1 ELSE 0)

(* The write-backs queued or running, and not yet reported. *)
Unreported ==
  Cardinality({i \in 1..Len(queue) : queue[i].type = WRITEBACK})
  + Cardinality({t \in Threads : Type[t] = WRITEBACK /\ tpc[t] \in {"do_transfer", "copy", "notify"}})

(* Whenever the journal is unlocked: an application is under way, with its
   .fsync file, exactly as long as some write-back has not reported, and
   total counts the reported and the unreported ones. *)
SyncAccounting ==
  ~jlock =>
    /\ action = "sync" <=> Unreported > 0
    /\ fsyncfile <=> action = "sync"
    /\ action = "sync" => total = ok + error + Unreported

(* An open file whose cache_status says DONE has its copy in the cache, where
   every later read and write goes. *)
DoneMeansCached ==
  \A m \in Allocated : cache_status[m] = "done" => path[m] \in incache

(* None of the Bug() assertions of the code modelled here is reached. *)
NoBug == bug = None

(* Only a running mcachefs_journal_apply is applying updates. *)
UpdateOnlyWhileApplying == action = "update" => jlock

(* An application of the journal ends, and the next one may start. *)
ApplyEnds == action = "sync" ~> action = "none"

(* A backup that was asked for is answered, so that the writers that wait
   for it in mcachefs_write_file go on. *)
BackupsAnswered ==
  \A m \in Mfiles : cache_status[m] = "asked" ~> cache_status[m] \in {"done", "error"}

================================================================================
