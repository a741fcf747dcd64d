---------------------------- MODULE CacheCoherence ----------------------------
(***************************************************************************)
(* The contents of one file while it is opened, read, written, copied into *)
(* the cache (BACKUP) and copied back to the target (WRITEBACK).           *)
(*                                                                         *)
(* A file is a function from blocks to versions: 0 is what the target held *)
(* at first, n > 0 the n-th write, Hole what is beyond the end.  A block   *)
(* stands for the window mcachefs_transfer_file copies at a time.  The     *)
(* cache path names an inode or nothing; a descriptor denotes the inode    *)
(* that was there when it was opened, which the path may have lost since.  *)
(*                                                                         *)
(* Left to the other modules: the two descriptors' use counts and modes    *)
(* against each other (FileSource; here the backing one only), mfile->use, *)
(* the transfer queue and the journal's counts (Journal; here one file,    *)
(* one queue slot, and the open file lives as long as somebody has it).    *)
(***************************************************************************)
EXTENDS Integers, FiniteSets

CONSTANTS
  Clients,     (* FUSE worker threads, each with at most one open handle    *)
  Inodes,      (* inodes of the cache directory                             *)
  NBlocks,     (* bound: length of the file, in blocks                      *)
  Size0,       (* its length on the target at first                         *)
  Ops,         (* optional behaviours, a subset of AllOps                   *)
  MaxOpens,    (* bound: opens per client                                   *)
  MaxWrites,   (* bound: writes altogether                                  *)
  MaxApplies   (* bound: applications of the journal                        *)

Blocks == 1..NBlocks
BACKUP == "BACKUP"
WRITEBACK == "WRITEBACK"
Types == {BACKUP, WRITEBACK}
NULL == 0
Hole == -1

(* grow: writes may extend the file; backup_fails, create_fails: the copy into
   the cache, the creation of its file, may fail; writeback_fails; cleanup_cache:
   mcachefs_cleanup_backing may remove the copy. *)
AllOps == {"grow", "backup_fails", "create_fails", "writeback_fails", "cleanup_cache"}

ASSUME ClientsAssumption == IsFiniteSet(Clients)
ASSUME BlocksAssumption == NBlocks \in Nat /\ Size0 \in 0..NBlocks
ASSUME InodesAssumption == Inodes \subseteq Nat \ {NULL}
ASSUME OpsAssumption == Ops \subseteq AllOps
ASSUME BoundsAssumption == {MaxOpens, MaxWrites, MaxApplies} \subseteq Nat

VARIABLES
  real,        (* contents of the file on the target                        *)
  inode,       (* contents of each inode of the cache directory             *)
  cachefile,   (* the inode at the file's path in the cache, or NULL        *)
  size,        (* mdata->st.st_size                                         *)
  (* mcachefs_file_t *)
  cache_status, dirty, transfered, total,
  bfd, buse, bwr,  (* sources[BACKING]: the inode open, use, wr             *)
  (* transfer queue, journal *)
  queued,      (* type of the queued transfer of the file, or "none"        *)
  entry,       (* the fsync entry in the journal: versions when appended    *)
  applying,    (* the fsync entry being applied                             *)
  applies,
  (* transfer threads, one per type *)
  tpc, tfd, toff, tsize, window,
  (* clients *)
  cpc, handle, opens, blk, cfd,
  got, fresh,  (* what the read returns; history: what it may return        *)
  latest, writes   (* history: the version of each block last written       *)

files == <<real, inode, cachefile, size>>
mfile == <<cache_status, dirty, transfered, total>>
source == <<bfd, buse, bwr>>
journal == <<entry, applying, applies>>
thread == <<tpc, tfd, toff, tsize, window>>
history == <<latest, writes>>
client == <<cpc, handle, opens, blk, cfd, got, fresh>>
vars == <<files, mfile, source, queued, journal, thread, history, client>>

Contents == [Blocks -> 0..MaxWrites \cup {Hole}]
NoEntry == [b \in Blocks |-> Hole]
Empty == [b \in Blocks |-> Hole]
Initial == [b \in Blocks |-> IF b <= Size0 THEN 0 ELSE Hole]

SizeOf(contents) == Cardinality({b \in Blocks : contents[b] # Hole})
Smaller(a, b) == IF a < b THEN a ELSE b

Goto(c, l) == cpc' = [cpc EXCEPT ![c] = l]
TGoto(t, l) == tpc' = [tpc EXCEPT ![t] = l]

-----------------------------------------------------------------------------
Init ==
  /\ real = Initial
  /\ inode = [i \in Inodes |-> Empty]
  /\ cachefile = NULL
  /\ size = Size0
  /\ cache_status = "none" /\ dirty = FALSE /\ transfered = 0 /\ total = 0
  /\ bfd = NULL /\ buse = 0 /\ bwr = 0
  /\ queued = "none"
  /\ entry = NoEntry /\ applying = NoEntry /\ applies = 0
  /\ tpc = [t \in Types |-> "idle"]
  /\ tfd = [t \in Types |-> NULL]
  /\ toff = [t \in Types |-> 0]
  /\ tsize = [t \in Types |-> 0]
  /\ window = [t \in Types |-> Hole]
  /\ cpc = [c \in Clients |-> "idle"]
  /\ handle = [c \in Clients |-> FALSE]
  /\ opens = [c \in Clients |-> 0]
  /\ blk = [c \in Clients |-> 1]
  /\ cfd = [c \in Clients |-> NULL]
  /\ got = [c \in Clients |-> Hole]
  /\ fresh = [c \in Clients |-> {}]
  /\ latest = Initial
  /\ writes = 0

(* Somebody has the open file: a handle, the queue, a transfer thread. *)
InUse == \/ \E c \in Clients : handle[c]
         \/ queued # "none"
         \/ \E t \in Types : tpc[t] # "idle"

(* The last user of the open file leaves (mcachefs_file_release) and the
   descriptors are closed (mcachefs_file_remove); else nothing changes. *)
ReleaseFile(last) ==
  IF last
  THEN /\ cache_status' = "none" /\ dirty' = FALSE /\ transfered' = 0 /\ total' = 0
       /\ bfd' = NULL /\ buse' = 0 /\ bwr' = 0
  ELSE UNCHANGED <<mfile, source>>

-----------------------------------------------------------------------------
(* mcachefs_file_getfd on the backing source (see FileSource): share the open
   descriptor, or open the file that is at the path now, waiting for the users
   of a read-only one to leave.  waited: after the wait it is always opened. *)

Shares(asked_wr, waited) == bfd # NULL /\ asked_wr <= bwr /\ ~waited
MustWait(asked_wr, waited) ==
  buse # 0 /\ (waited \/ (bfd # NULL /\ asked_wr > bwr))
MustOpen(asked_wr, waited) == ~Shares(asked_wr, waited) /\ ~MustWait(asked_wr, waited)

(* i is the inode got, or NULL for an error (-ENOENT) *)
Getfd(asked_wr, waited, i) ==
  \/ /\ Shares(asked_wr, waited)
     /\ i = bfd
     /\ buse' = buse + 1
     /\ UNCHANGED <<bfd, bwr>>
  \/ /\ MustOpen(asked_wr, waited)
     /\ i = cachefile
     /\ bfd' = cachefile
     /\ IF cachefile # NULL
        THEN buse' = buse + 1 /\ bwr' = asked_wr
        ELSE UNCHANGED <<buse, bwr>>

Putfd == buse' = (IF buse = 0 THEN 0 ELSE buse - 1) /\ UNCHANGED <<bfd, bwr>>

(* mcachefs_file_cleanup_file, by the file thread *)
CleanupFile ==
  /\ InUse
  /\ bfd # NULL /\ buse = 0 /\ cache_status = "done"
  /\ bfd' = NULL
  /\ UNCHANGED <<files, mfile, buse, bwr, queued, journal, thread, history, client>>

(* mcachefs_cleanup_backing, of a file old enough: it looks at the age of
   the file only. *)
CleanupBacking ==
  /\ "cleanup_cache" \in Ops
  /\ cachefile # NULL
  /\ cachefile' = NULL
  /\ UNCHANGED <<real, inode, size, mfile, source, queued, journal, thread, history, client>>

-----------------------------------------------------------------------------
(* mcachefs_open, mcachefs_release *)

Open(c) ==
  /\ cpc[c] = "idle" /\ ~handle[c] /\ opens[c] < MaxOpens
  /\ handle' = [handle EXCEPT ![c] = TRUE]
  /\ opens' = [opens EXCEPT ![c] = @ + 1]
  /\ Goto(c, "backfile")
  /\ UNCHANGED <<files, mfile, source, queued, journal, thread, history, blk, cfd, got, fresh>>

(* mcachefs_transfer_backfile *)
Backfile(c) ==
  /\ cpc[c] = "backfile"
  /\ Goto(c, "idle")
  /\ \/ /\ cache_status \notin {"none", "error"}
        /\ UNCHANGED <<cache_status, queued>>
     \/ /\ cache_status \in {"none", "error"} /\ cachefile # NULL
        /\ cache_status' = "done"
        /\ UNCHANGED queued
     \/ /\ cache_status \in {"none", "error"} /\ cachefile = NULL
        /\ cache_status' = "asked"
        /\ queued' = IF queued = "none" THEN BACKUP ELSE queued
  /\ UNCHANGED <<files, dirty, transfered, total, source, journal, thread, history, handle, opens, blk, cfd, got, fresh>>

Release(c) ==
  /\ cpc[c] = "idle" /\ handle[c]
  /\ handle' = [handle EXCEPT ![c] = FALSE]
  /\ ReleaseFile(/\ \A d \in Clients \ {c} : ~handle[d]
                 /\ queued = "none"
                 /\ \A t \in Types : tpc[t] = "idle")
  /\ UNCHANGED <<files, queued, journal, thread, history, cpc, opens, blk, cfd, got, fresh>>

-----------------------------------------------------------------------------
(* mcachefs_read_file, of one block *)

Read(c, b) ==
  /\ cpc[c] = "idle" /\ handle[c]
  /\ b <= size
  /\ blk' = [blk EXCEPT ![c] = b]
  /\ fresh' = [fresh EXCEPT ![c] = {latest[b]}]
  /\ Goto(c, "choose")
  /\ UNCHANGED <<files, mfile, source, queued, journal, thread, history, handle, opens, cfd, got>>

(* mcachefs_read_wait_accessible: the real file may be chosen whenever the
   copy is not complete, because no copy has begun, or the reader is "sick of
   waiting", or the read state is NOCACHE. *)
ReadWaitAccessible(c) ==
  /\ cpc[c] = "choose"
  /\ \/ cache_status # "done" /\ Goto(c, "pread_real")
     \/ /\ \/ cache_status = "done"
           \/ cache_status = "in_progress" /\ transfered >= blk[c]
        /\ Goto(c, "read_getfd")
  /\ UNCHANGED <<files, mfile, source, queued, journal, thread, history, handle, opens, blk, cfd, got, fresh>>

ReadGetfd(c) ==
  /\ cpc[c] = "read_getfd"
  /\ \E i \in Inodes \cup {NULL} :
       /\ Getfd(0, FALSE, i)
       /\ cfd' = [cfd EXCEPT ![c] = i]
       /\ fresh' = [fresh EXCEPT ![c] = IF i = NULL THEN {} ELSE @]
       /\ Goto(c, IF i = NULL THEN "idle" ELSE "pread")
  /\ UNCHANGED <<files, mfile, queued, journal, thread, history, handle, opens, blk, got>>

Pread(c) ==
  /\ cpc[c] \in {"pread", "pread_real"}
  /\ IF cpc[c] = "pread"
     THEN got' = [got EXCEPT ![c] = inode[cfd[c]][blk[c]]] /\ Putfd
     ELSE got' = [got EXCEPT ![c] = real[blk[c]]] /\ UNCHANGED source
  /\ cfd' = [cfd EXCEPT ![c] = NULL]
  /\ Goto(c, "return")
  /\ UNCHANGED <<files, mfile, queued, journal, thread, history, handle, opens, blk, fresh>>

Return(c) ==
  /\ cpc[c] = "return"
  /\ got' = [got EXCEPT ![c] = Hole]
  /\ fresh' = [fresh EXCEPT ![c] = {}]
  /\ Goto(c, "idle")
  /\ UNCHANGED <<files, mfile, source, queued, journal, thread, history, handle, opens, blk, cfd>>

-----------------------------------------------------------------------------
(* mcachefs_write_file, of one block *)

Writing == {"write_wait", "write_getfd", "write_getfd_waited", "pwrite"}

Write(c, b) ==
  /\ cpc[c] = "idle" /\ handle[c]
  /\ b <= (IF "grow" \in Ops THEN size + 1 ELSE size)
  /\ writes + Cardinality({d \in Clients : cpc[d] \in Writing}) < MaxWrites
  /\ blk' = [blk EXCEPT ![c] = b]
  /\ Goto(c, "write_wait")
  /\ UNCHANGED <<files, mfile, source, queued, journal, thread, history, handle, opens, cfd, got, fresh>>

(* The wait for the backing to complete; -EIO when it failed. *)
WriteWait(c) ==
  /\ cpc[c] = "write_wait"
  /\ \/ cache_status = "done" /\ Goto(c, "write_getfd")
     \/ cache_status = "error" /\ Goto(c, "idle")
  /\ UNCHANGED <<files, mfile, source, queued, journal, thread, history, handle, opens, blk, cfd, got, fresh>>

(* The error -ENOENT is not taken for one: the write fails on it, and a use
   is put back that was not taken. *)
WriteGetfd(c) ==
  LET waited == cpc[c] = "write_getfd_waited" IN
  /\ cpc[c] \in {"write_getfd", "write_getfd_waited"}
  /\ \/ /\ MustWait(1, waited)
        /\ ~waited
        /\ Goto(c, "write_getfd_waited")
        /\ UNCHANGED <<source, cfd>>
     \/ \E i \in Inodes :
          /\ Getfd(1, waited, i)
          /\ cfd' = [cfd EXCEPT ![c] = i]
          /\ Goto(c, "pwrite")
     \/ /\ MustOpen(1, waited) /\ cachefile = NULL
        /\ bfd' = NULL
        /\ buse' = (IF buse = 0 THEN 0 ELSE buse - 1)
        /\ Goto(c, "idle")
        /\ UNCHANGED <<bwr, cfd>>
  /\ UNCHANGED <<files, mfile, queued, journal, thread, history, handle, opens, blk, got, fresh>>

Pwrite(c) ==
  LET b == blk[c] IN
  /\ cpc[c] = "pwrite"
  /\ writes' = writes + 1
  /\ inode' = [inode EXCEPT ![cfd[c]][b] = writes + 1]
  /\ latest' = [latest EXCEPT ![b] = writes + 1]
  /\ fresh' = [d \in Clients |-> IF fresh[d] # {} /\ blk[d] = b THEN fresh[d] \cup {writes + 1} ELSE fresh[d]]
  /\ Putfd
  /\ cfd' = [cfd EXCEPT ![c] = NULL]
  /\ Goto(c, "dirty")
  /\ UNCHANGED <<real, cachefile, size, mfile, queued, journal, thread, handle, opens, blk, got>>

MarkDirty(c) ==
  /\ cpc[c] = "dirty"
  /\ dirty' = TRUE
  /\ Goto(c, IF dirty THEN "update_metadata" ELSE "append")
  /\ UNCHANGED <<files, cache_status, transfered, total, source, queued, journal, thread, history, handle, opens, blk, cfd, got, fresh>>

(* mcachefs_journal_append(mcachefs_journal_op_fsync, ...) *)
AppendFsync(c) ==
  /\ cpc[c] = "append"
  /\ entry' = latest
  /\ Goto(c, "update_metadata")
  /\ UNCHANGED <<files, mfile, source, queued, applying, applies, thread, history, handle, opens, blk, cfd, got, fresh>>

(* mcachefs_file_update_metadata *)
UpdateMetadata(c) ==
  /\ cpc[c] = "update_metadata"
  /\ size' = IF size < blk[c] THEN blk[c] ELSE size
  /\ Goto(c, "idle")
  /\ UNCHANGED <<real, inode, cachefile, mfile, source, queued, journal, thread, history, handle, opens, blk, cfd, got, fresh>>

-----------------------------------------------------------------------------
(* mcachefs_journal_apply and mcachefs_transfer_writeback: a file that is not
   in the cache is counted as an error, and its entry is gone. *)
Apply ==
  /\ applies < MaxApplies
  /\ entry # NoEntry /\ applying = NoEntry
  /\ applies' = applies + 1
  /\ entry' = NoEntry
  /\ IF cachefile # NULL
     THEN /\ cache_status' = "done"
          /\ queued' = IF queued = "none" THEN WRITEBACK ELSE queued
          /\ applying' = IF queued = "none" THEN entry ELSE NoEntry
     ELSE UNCHANGED <<cache_status, queued, applying>>
  /\ UNCHANGED <<files, dirty, transfered, total, source, thread, history, client>>

-----------------------------------------------------------------------------
(* mcachefs_transfer_thread *)

Dequeue(t) ==
  /\ tpc[t] = "idle"
  /\ queued = t
  /\ queued' = "none"
  /\ cache_status' = IF cache_status = "asked" THEN "in_progress" ELSE cache_status
  /\ TGoto(t, "do_transfer")
  /\ UNCHANGED <<files, dirty, transfered, total, source, journal, tfd, toff, tsize, window, history, client>>

DoTransfer(t) ==
  /\ tpc[t] = "do_transfer"
  /\ total' = size
  /\ transfered' = 0
  /\ TGoto(t, IF t = BACKUP THEN "create" ELSE "getfd")
  /\ UNCHANGED <<files, cache_status, dirty, source, queued, journal, tfd, toff, tsize, window, history, client>>

(* mcachefs_transfer_do_backing: the file is in the cache already, or cannot
   be created: the status stays as it is.  Else it is created, empty. *)
InodeFree(i) ==
  /\ i # cachefile /\ i # bfd
  /\ \A c \in Clients : cfd[c] # i
  /\ \A t \in Types : tfd[t] # i

CreateBacking ==
  /\ tpc[BACKUP] = "create"
  /\ \/ /\ cachefile # NULL \/ "create_fails" \in Ops
        /\ TGoto(BACKUP, "release")
        /\ UNCHANGED <<inode, cachefile>>
     \/ /\ cachefile = NULL
        /\ \E i \in Inodes :
             InodeFree(i) /\ cachefile' = i /\ inode' = [inode EXCEPT ![i] = Empty]
        /\ TGoto(BACKUP, "getfd")
  /\ UNCHANGED <<real, size, mfile, source, queued, journal, tfd, toff, tsize, window, history, client>>

(* mcachefs_transfer_file: the backing descriptor, to write for a BACKUP, to
   read for a WRITEBACK; the size to copy is the smaller of the metadata's
   and the one of the file to read from. *)
AskedWr(t) == IF t = BACKUP THEN 1 ELSE 0

TransferGetfd(t) ==
  LET waited == tpc[t] = "getfd_waited" IN
  /\ tpc[t] \in {"getfd", "getfd_waited"}
  /\ \/ /\ MustWait(AskedWr(t), waited)
        /\ ~waited
        /\ TGoto(t, "getfd_waited")
        /\ UNCHANGED <<source, tfd, toff, tsize>>
     \/ \E i \in Inodes \cup {NULL} :
          /\ Getfd(AskedWr(t), waited, i)
          /\ tfd' = [tfd EXCEPT ![t] = i]
          /\ toff' = [toff EXCEPT ![t] = 0]
          /\ tsize' = [tsize EXCEPT ![t] =
                IF i = NULL THEN 0
                ELSE Smaller(total, SizeOf(IF t = BACKUP THEN real ELSE inode[i]))]
          /\ TGoto(t, IF i = NULL THEN "failed" ELSE "copy")
  /\ UNCHANGED <<files, mfile, queued, journal, window, history, client>>

(* Mistake: transfered_size counts the window before it is in the cache. *)
Bad_CopyRead(t) ==
  LET b == toff[t] + 1 IN
  /\ tpc[t] = "copy"
  /\ toff[t] < tsize[t]
  /\ window' = [window EXCEPT ![t] = IF t = BACKUP THEN real[b] ELSE inode[tfd[t]][b]]
  /\ transfered' = b
  /\ TGoto(t, "copy_write")
  /\ UNCHANGED <<files, cache_status, dirty, total, source, queued, journal, tfd, toff, tsize, history, client>>

(* pread of a window, and its pwrite; between two windows transfered_size *)
CopyRead(t) ==
  LET b == toff[t] + 1 IN
  /\ tpc[t] = "copy"
  /\ toff[t] < tsize[t]
  /\ window' = [window EXCEPT ![t] = IF t = BACKUP THEN real[b] ELSE inode[tfd[t]][b]]
  /\ TGoto(t, "copy_write")
  /\ UNCHANGED <<files, mfile, source, queued, journal, tfd, toff, tsize, history, client>>

(* Mistake: the offset advances twice. *)
Bad_CopyWrite(t) ==
  LET b == toff[t] + 1 IN
  /\ tpc[t] = "copy_write"
  /\ IF t = BACKUP
     THEN inode' = [inode EXCEPT ![tfd[t]][b] = window[t]] /\ UNCHANGED real
     ELSE real' = [real EXCEPT ![b] = window[t]] /\ UNCHANGED inode
  /\ toff' = [toff EXCEPT ![t] = b + 1]
  /\ window' = [window EXCEPT ![t] = Hole]
  /\ TGoto(t, "copy")
  /\ UNCHANGED <<cachefile, size, mfile, source, queued, journal, tfd, tsize, history, client>>

CopyWrite(t) ==
  LET b == toff[t] + 1 IN
  /\ tpc[t] = "copy_write"
  /\ IF t = BACKUP
     THEN inode' = [inode EXCEPT ![tfd[t]][b] = window[t]] /\ UNCHANGED real
     ELSE real' = [real EXCEPT ![b] = window[t]] /\ UNCHANGED inode
  /\ toff' = [toff EXCEPT ![t] = b]
  /\ window' = [window EXCEPT ![t] = Hole]
  /\ TGoto(t, IF b = tsize[t] THEN "copy" ELSE "publish")
  /\ UNCHANGED <<cachefile, size, mfile, source, queued, journal, tfd, tsize, history, client>>

Publish(t) ==
  /\ tpc[t] = "publish"
  /\ transfered' = toff[t]
  /\ TGoto(t, "copy")
  /\ UNCHANGED <<files, cache_status, dirty, total, source, queued, journal, tfd, toff, tsize, window, history, client>>

(* Mistake: the copy stops one window short. *)
Bad_CopyEnds(t) ==
  /\ tpc[t] = "copy"
  /\ toff[t] + 1 >= tsize[t]
  /\ TGoto(t, "succeeded")
  /\ Putfd
  /\ tfd' = [tfd EXCEPT ![t] = NULL]
  /\ UNCHANGED <<files, mfile, queued, journal, toff, tsize, window, history, client>>

(* The end of the copy, or the copyerr path: the descriptor is put back. *)
CopyEnds(t) ==
  /\ tpc[t] = "copy"
  /\ \/ toff[t] = tsize[t] /\ TGoto(t, "succeeded")
     \/ /\ (IF t = BACKUP THEN "backup_fails" ELSE "writeback_fails") \in Ops
        /\ TGoto(t, "failed")
  /\ Putfd
  /\ tfd' = [tfd EXCEPT ![t] = NULL]
  /\ UNCHANGED <<files, mfile, queued, journal, toff, tsize, window, history, client>>

(* Mistake: a failed BACKUP leaves the status IN_PROGRESS. *)
Bad_TransferEnds(t) ==
  /\ tpc[t] \in {"succeeded", "failed"}
  /\ cache_status' = IF t = BACKUP /\ tpc[t] = "succeeded" THEN "done" ELSE cache_status
  /\ applying' = IF t = BACKUP THEN applying ELSE NoEntry
  /\ TGoto(t, IF t = BACKUP /\ tpc[t] = "failed" THEN "unlink" ELSE "release")
  /\ UNCHANGED <<files, dirty, transfered, total, source, queued, entry, applies, tfd, toff, tsize, window, history, client>>

(* A BACKUP sets the status; a WRITEBACK calls mcachefs_notify_sync_end,
   which ends the application of the journal. *)
TransferEnds(t) ==
  /\ tpc[t] \in {"succeeded", "failed"}
  /\ IF t = BACKUP
     THEN /\ cache_status' = IF tpc[t] = "succeeded" THEN "done" ELSE "error"
          /\ transfered' = IF tpc[t] = "succeeded" THEN transfered ELSE 0
          /\ UNCHANGED applying
     ELSE applying' = NoEntry /\ UNCHANGED <<cache_status, transfered>>
  /\ TGoto(t, IF t = BACKUP /\ tpc[t] = "failed" THEN "unlink" ELSE "release")
  /\ UNCHANGED <<files, dirty, total, source, queued, entry, applies, tfd, toff, tsize, window, history, client>>

UnlinkBacking ==
  /\ tpc[BACKUP] = "unlink"
  /\ cachefile' = NULL
  /\ TGoto(BACKUP, "release")
  /\ UNCHANGED <<real, inode, size, mfile, source, queued, journal, tfd, toff, tsize, window, history, client>>

ReleaseTransfer(t) ==
  /\ tpc[t] = "release"
  /\ TGoto(t, "idle")
  /\ toff' = [toff EXCEPT ![t] = 0]
  /\ tsize' = [tsize EXCEPT ![t] = 0]
  /\ ReleaseFile(/\ \A c \in Clients : ~handle[c]
                 /\ queued = "none"
                 /\ \A u \in Types \ {t} : tpc[u] = "idle")
  /\ UNCHANGED <<files, queued, journal, tfd, window, history, client>>

-----------------------------------------------------------------------------
ClientStep(c) ==
  \/ Backfile(c) \/ ReadWaitAccessible(c) \/ ReadGetfd(c) \/ Pread(c) \/ Return(c)
  \/ WriteWait(c) \/ WriteGetfd(c) \/ Pwrite(c)
  \/ MarkDirty(c) \/ AppendFsync(c) \/ UpdateMetadata(c)

ClientCall(c) ==
  \/ Open(c) \/ Release(c)
  \/ \E b \in Blocks : Read(c, b) \/ Write(c, b)

ThreadStep(t) ==
  \/ Dequeue(t) \/ DoTransfer(t) \/ TransferGetfd(t) \/ CopyRead(t) \/ CopyWrite(t)
  \/ Publish(t) \/ CopyEnds(t) \/ TransferEnds(t) \/ ReleaseTransfer(t)

Next ==
  \/ \E c \in Clients : ClientStep(c) \/ ClientCall(c)
  \/ \E t \in Types : ThreadStep(t)
  \/ CreateBacking \/ UnlinkBacking
  \/ Apply
  \/ CleanupFile \/ CleanupBacking

Spec == Init /\ [][Next]_vars

(* The threads run, and an operation a client has begun goes on. *)
FairSpec ==
  /\ Spec
  /\ \A c \in Clients : WF_vars(ClientStep(c))
  /\ \A t \in Types : WF_vars(ThreadStep(t))
  /\ WF_vars(CreateBacking \/ UnlinkBacking)

-----------------------------------------------------------------------------
(* Properties *)

(* Every variable has its type. *)
TypeOK ==
  /\ real \in Contents /\ inode \in [Inodes -> Contents]
  /\ cachefile \in Inodes \cup {NULL} /\ bfd \in Inodes \cup {NULL}
  /\ size \in 0..NBlocks /\ total \in 0..NBlocks /\ transfered \in 0..NBlocks
  /\ cache_status \in {"none", "asked", "in_progress", "done", "error"}
  /\ dirty \in BOOLEAN
  /\ buse \in Nat /\ bwr \in {0, 1}
  /\ queued \in Types \cup {"none"}
  /\ entry \in Contents /\ applying \in Contents
  /\ tfd \in [Types -> Inodes \cup {NULL}] /\ cfd \in [Clients -> Inodes \cup {NULL}]
  /\ \A t \in Types : 0 <= toff[t] /\ toff[t] <= tsize[t] /\ tsize[t] <= NBlocks

(* A read returns the version that was the last written when it began, or one
   written while it ran: never what the target held before a completed write,
   never a part of the copy that is not there yet, whichever of the two files
   mcachefs_read_wait_accessible chose and whatever the transfers did since. *)
ReadsAreFresh == \A c \in Clients : cpc[c] = "return" => got[c] \in fresh[c]

(* Once cache_status says DONE the copy in the cache is complete and has the
   last written version of every block, and a descriptor open on it is open
   on that file. *)
DoneMeansComplete ==
  cache_status = "done" =>
    /\ cachefile # NULL
    /\ bfd \in {NULL, cachefile}
    /\ \A b \in 1..size : inode[cachefile][b] = latest[b]

(* When a write-back succeeds, the target has every write that was made before
   the fsync entry it answers was appended, or a later one.  The blocks a write
   adds to the file may be missed (Departures, item 9). *)
WritebackIsComplete ==
  tpc[WRITEBACK] = "succeeded" => \A b \in 1..Size0 : real[b] >= applying[b]

(* The same of every block; it does not hold when the file grows (Departures,
   item 9). *)
GrowthIsWrittenBack ==
  tpc[WRITEBACK] = "succeeded" => \A b \in Blocks : real[b] >= applying[b]

(* Every modification not on the target is notified in the journal, is being
   written back, or is about to be notified. *)
ModificationsAreJournaled ==
  \/ real = latest
  \/ entry # NoEntry
  \/ applying # NoEntry
  \/ \E c \in Clients : cpc[c] \in {"dirty", "append"}

(* A backup that succeeded has left a complete copy at the path in the cache,
   where later requests look for it. *)
BackupReachesCache ==
  tpc[BACKUP] = "succeeded" =>
    cachefile # NULL /\ \A b \in 1..tsize[BACKUP] : inode[cachefile][b] # Hole

(* A write does not wait for the backing for ever: it is answered with a copy
   to write to or with the error of the backup. *)
WritesAreAnswered ==
  \A c \in Clients : cpc[c] = "write_wait" ~> cpc[c] # "write_wait"

================================================================================
