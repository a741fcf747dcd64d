--------------------------------- MODULE Replay ---------------------------------
(***************************************************************************)
(* Changes of names and the journal (mcachefs-lowlevel.c,                   *)
(* mcachefs-journal.c): a call changes the metafile, the cache directory    *)
(* and the journal in three steps, one after the other, and                 *)
(* mcachefs_journal_apply replays the journal on the target: first the      *)
(* changes of names, then the write-backs, under the names the fsync        *)
(* entries have by then.  A rename rewrites the fsync entries that are in   *)
(* the journal (mcachefs_journal_rebuild).                                  *)
(*                                                                          *)
(* Users, cache and target are namespaces: a path has nothing, a directory, *)
(* or a file with a version of its data.                                    *)
(***************************************************************************)
EXTENDS Integers, Sequences, SequencesExt, FiniteSets, FiniteSetsExt

CONSTANTS
  Clients,
  Names,
  Depth2,       (* the paths <<d, n>>; the others are <<n>>                   *)
  NamePrefix,   (* pairs of names, the first a proper prefix of the second    *)
  Nodes,        (* identities of files                                        *)
  NONE, DIR,    (* nothing, a directory                                       *)
  Starts,       (* the namespaces to start from                               *)
  Ops,          (* optional behaviours: "rename_applying", "rename_syncing",
                   "dirty_synced", "backup_other"                             *)
  MaxCalls, MaxApplies, MaxVer

ASSUME PathsAssumption ==
  \A p \in Depth2 : Len(p) = 2 /\ p = <<p[1], p[2]>> /\ p[1] \in Names
ASSUME NodesAssumption == NONE \notin Nodes /\ DIR \notin Nodes /\ NONE # DIR
ASSUME BoundsAssumption ==
  IsFiniteSet(Clients) /\ {MaxCalls, MaxApplies, MaxVer} \subseteq Nat

Paths == {<<n>> : n \in Names} \cup Depth2
LOST == <<>>    (* a path that names nothing *)
Up(p) == Front(p)

Empty == [node |-> NONE, ver |-> 0]
Dir == [node |-> DIR, ver |-> 0]
File(n) == [node |-> n, ver |-> 0]
Entries == [node : Nodes \cup {NONE, DIR}, ver : 0..MaxVer]
IsFile(x) == x.node \in Nodes

Quiet == [op |-> "none", path |-> LOST, to |-> LOST, node |-> NONE]
Entry(o, p, t, n) == [op |-> o, path |-> p, to |-> t, node |-> n]

VARIABLES
  view,      (* the metafile, with the data users wrote                       *)
  cache,     (* the cache directory; its directories are not represented      *)
  target,    (* the source filesystem                                         *)
  journal,   (* the entries of the journal file                               *)
  phase,     (* mcachefs_journal_apply: idle, update, queue, or sync, when it
                returned and write-backs are pending                          *)
  todo,      (* the entries it has yet to read in its pass                    *)
  pending,   (* files in the write-back queue                                 *)
  open,      (* files somebody keeps open                                     *)
  dirty,     (* files with an mcachefs_file_t that has dirty set              *)
  call,      (* the entry a client's call is about                            *)
  pc,        (* the next step of the call                                     *)
  calls, applies

dirs == <<view, cache, target>>
apply == <<phase, todo, pending, applies>>
client == <<call, pc, calls>>
files == <<open, dirty>>
vars == <<dirs, journal, apply, files, client>>

-----------------------------------------------------------------------------
(* Namespaces *)

Namespaces == [Paths -> Entries]

Below(p, q) == IsPrefix(p, q)
Moved(q, from, to) == to \o SubSeq(q, Len(from) + 1, Len(q))
HasParent(ns, p) == Len(p) > 1 => ns[Up(p)].node = DIR
IsEmptyDir(ns, p) == \A q \in Paths : Below(p, q) /\ q # p => ns[q].node = NONE

(* What is there is in a directory, a file has one name, and nothing else has
   data. *)
WellFormed(ns) ==
  /\ ns \in Namespaces
  /\ \A p \in Paths : /\ ns[p].node # NONE => HasParent(ns, p)
                      /\ ~IsFile(ns[p]) => ns[p].ver = 0
                      /\ \A q \in Paths : IsFile(ns[p]) /\ ns[q].node = ns[p].node => q = p

ASSUME StartsAssumption == \A ns \in Starts : WellFormed(ns)

Move(ns, from, to) ==
  [q \in Paths |->
     IF Below(to, q) /\ Moved(q, to, from) \in Paths THEN ns[Moved(q, to, from)]
     ELSE IF Below(from, q) \/ Below(to, q) THEN Empty ELSE ns[q]]

(* Whether a namespace can take the change, and what it is then: the users'
   (make_entry, rmdir_unlink, rename_entry, which refuses an existing name)
   and the target's (mknod, mkdir, unlink, rmdir, rename). *)
Possible(ns, e) ==
  CASE e.op \in {"mknod", "mkdir"} -> ns[e.path].node = NONE /\ HasParent(ns, e.path)
    [] e.op = "unlink" -> IsFile(ns[e.path])
    [] e.op = "rmdir" -> ns[e.path].node = DIR /\ IsEmptyDir(ns, e.path)
    [] e.op = "rename" -> /\ ns[e.path].node # NONE /\ ns[e.to].node = NONE
                          /\ HasParent(ns, e.to) /\ ~Below(e.path, e.to)
                          /\ \A q \in Paths : Below(e.path, q) /\ ns[q].node # NONE
                                                => Moved(q, e.path, e.to) \in Paths

Do(ns, e) ==
  CASE e.op = "mknod" -> [ns EXCEPT ![e.path] = File(e.node)]
    [] e.op = "mkdir" -> [ns EXCEPT ![e.path] = Dir]
    [] e.op \in {"unlink", "rmdir"} -> [ns EXCEPT ![e.path] = Empty]
    [] e.op = "rename" -> Move(ns, e.path, e.to)

IsUpdate(e) == e.op # "fsync"
IsFsync(e) == e.op = "fsync"

(* mcachefs_journal_apply_entry: an error is logged.  The pass over the changes
   of names skips the fsync entries. *)
ApplyEntry(ns, e) == IF IsUpdate(e) /\ Possible(ns, e) THEN Do(ns, e) ELSE ns

-----------------------------------------------------------------------------
(* The journal *)

(* strncmp(path, rename_path, strlen(rename_path)) == 0 *)
StringPrefix(from, p) ==
  \/ Below(from, p)
  \/ /\ Len(from) <= Len(p) /\ Up(from) = SubSeq(p, 1, Len(from) - 1)
     /\ <<Last(from), p[Len(from)]>> \in NamePrefix

(* Mistake: only the renamed file itself is looked for. *)
Bad_Rewritten(e, from, to) ==
  IF IsFsync(e) /\ e.path = from THEN [e EXCEPT !.path = to] ELSE e

(* A path that is too long for the instance, of a file removed before, names
   nothing either. *)
Rewritten(e, from, to) ==
  IF ~(IsFsync(e) /\ StringPrefix(from, e.path)) THEN e
  ELSE [e EXCEPT !.path = IF Below(from, e.path) /\ Moved(e.path, from, to) \in Paths
                          THEN Moved(e.path, from, to) ELSE LOST]

(* Mistake: the rename comes before the entries it was found with. *)
Bad_Appended(j, e) ==
  IF e.op = "rename" THEN <<e>> \o [i \in DOMAIN j |-> Rewritten(j[i], e.path, e.to)]
  ELSE Append(j, e)

(* mcachefs_journal_append, mcachefs_journal_rebuild *)
Appended(j, e) ==
  IF e.op = "rename" THEN Append([i \in DOMAIN j |-> Rewritten(j[i], e.path, e.to)], e)
  ELSE Append(j, e)

-----------------------------------------------------------------------------
(* The kernel holds the directory of a name that is changed; libfuse the path
   of every call, against the calls that change a name on it. *)
Touched(e) == IF e.op = "rename" THEN {e.path, e.to} ELSE {e.path}
Conflict(e, g) ==
  /\ IsUpdate(e) \/ IsUpdate(g)
  /\ \E p \in Touched(e), q \in Touched(g) :
      \/ Below(p, q) \/ Below(q, p)
      \/ IsUpdate(e) /\ IsUpdate(g) /\ Up(p) = Up(q)

Underway == {c \in Clients : pc[c] # "idle"}
MayCall(c, e) ==
  /\ pc[c] = "idle" /\ calls < MaxCalls
  /\ \A d \in Underway : ~Conflict(e, call[d])
PathOf(n) == CHOOSE p \in Paths : view[p].node = n
InView(n) == \E p \in Paths : view[p].node = n
NodesBelow(p) == {view[q].node : q \in {r \in Paths : Below(p, r)}} \cap Nodes
UsersOf(n) == {c \in Underway : call[c].op = "fsync" /\ call[c].node = n}
Kept(n) == n \in open \/ n \in pending

Init ==
  /\ view \in Starts /\ target = view /\ cache = [p \in Paths |-> Empty]
  /\ journal = <<>> /\ phase = "idle" /\ todo = <<>> /\ pending = {}
  /\ open = {} /\ dirty = {}
  /\ call = [c \in Clients |-> Quiet] /\ pc = [c \in Clients |-> "idle"]
  /\ calls = 0 /\ applies = 0

Goto(c, l) == pc' = [pc EXCEPT ![c] = l]
Return(c) == Goto(c, "idle") /\ call' = [call EXCEPT ![c] = Quiet]

(* Departure 20: a file is moved while its write-back is waiting, or while an
   application reads the journal. *)
Overtakes(e) ==
  \/ e.op = "rename" /\ phase \in {"update", "queue"} /\ "rename_applying" \notin Ops
  \/ e.op = "rename" /\ NodesBelow(e.path) \cap pending # {} /\ "rename_syncing" \notin Ops

(* mcachefs_metadata_make_entry, mcachefs_metadata_rmdir_unlink or
   mcachefs_metadata_rename_entry *)
Change(c, e) ==
  /\ MayCall(c, e) /\ Possible(view, e) /\ ~Overtakes(e)
  /\ view' = Do(view, e)
  /\ call' = [call EXCEPT ![c] = e]
  /\ Goto(c, IF e.op = "unlink" THEN "cache" ELSE "append")
  /\ calls' = calls + 1
  /\ LET gone == IF e.op = "unlink" THEN {view[e.path].node} ELSE {} IN
     open' = open \ gone /\ dirty' = dirty \ gone
  /\ UNCHANGED <<cache, target, journal, apply>>

(* The identity of a new file is none that is still known. *)
New(n) ==
  /\ ~InView(n) /\ n \notin pending /\ \A p \in Paths : target[p].node # n /\ cache[p].node # n
  /\ \A e \in Range(journal \o todo) \cup Range(call) : e.node # n
Changes ==
  {Entry(o, p, LOST, DIR) : o \in {"mkdir", "rmdir"}, p \in Paths}
  \cup {Entry("unlink", p, LOST, NONE) : p \in Paths}
  \cup {Entry("mknod", p, LOST, n) : p \in Paths, n \in {m \in Nodes : New(m)}}
  \cup {Entry("rename", p, q, NONE) : p, q \in Paths}

(* The end of mcachefs_journal_append: unlink has removed the copy by then,
   mknod and rename have it to do. *)
AppendEntry(c) ==
  LET e == call[c] IN
  /\ pc[c] = "append" /\ phase \in {"idle", "sync"}
  /\ journal' = Appended(journal, e)
  /\ IF e.op \in {"mknod", "rename"} THEN Goto(c, "cache") /\ UNCHANGED call ELSE Return(c)
  /\ dirty' = IF IsFsync(e) /\ UsersOf(e.node) = {c} /\ ~Kept(e.node)
              THEN dirty \ {e.node} ELSE dirty
  /\ UNCHANGED <<dirs, apply, open, calls>>

(* Mistake: a directory is not renamed in the cache. *)
Bad_CacheRename(e) == [cache EXCEPT ![e.path] = Empty, ![e.to] = cache[e.path]]

(* The rename in the cache directory, if the path is there, with what is below *)
CacheRename(e) ==
  IF \A q \in Paths : Below(e.path, q) => cache[q].node = NONE THEN cache
  ELSE Move(cache, e.path, e.to)

(* mcachefs_createfile_cache, the unlink or the rename of the copy *)
CacheStep(c) ==
  LET e == call[c] IN
  /\ pc[c] = "cache"
  /\ cache' = CASE e.op = "mknod" -> [cache EXCEPT ![e.path] = File(e.node)]
                [] e.op = "unlink" -> [cache EXCEPT ![e.path] = Empty]
                [] e.op = "rename" -> CacheRename(e)
  /\ IF e.op = "unlink" THEN Goto(c, "append") /\ UNCHANGED call ELSE Return(c)
  /\ UNCHANGED <<view, target, journal, apply, files, calls>>

(* A backup of the file users see at p, from the target's file of that path *)
Backup(p) ==
  /\ IsFile(view[p]) /\ cache[p].node = NONE /\ IsFile(target[p])
  /\ \A c \in Underway : ~\E q \in Touched(call[c]) : Below(q, p)
  /\ target[p].node = view[p].node \/ "backup_other" \in Ops
  /\ cache' = [cache EXCEPT ![p] = target[p]]
  /\ UNCHANGED <<view, target, journal, apply, files, client>>

(* mcachefs_open and mcachefs_release of somebody who stays *)
Open(n) ==
  /\ InView(n) /\ n \notin open /\ ~\E c \in Underway : Below(call[c].path, PathOf(n))
  /\ open' = open \cup {n}
  /\ UNCHANGED <<dirs, journal, apply, dirty, client>>
Close(n) ==
  /\ n \in open
  /\ open' = open \ {n}
  /\ dirty' = IF UsersOf(n) = {} /\ n \notin pending THEN dirty \ {n} ELSE dirty
  /\ UNCHANGED <<dirs, journal, apply, client>>

(* Departure 18: dirty is set, and the entry it stands for was replayed. *)
Recorded(n, p) == n \in dirty => \E i \in DOMAIN journal : journal[i] = Entry("fsync", p, LOST, n)

(* mcachefs_write_file on a complete copy, by somebody who keeps the file open
   or opens and releases it for that.  The first write appends an fsync entry. *)
Write(c, p) ==
  LET n == view[p].node  e == Entry("fsync", p, LOST, n) IN
  /\ IsFile(view[p]) /\ cache[p].node # NONE
  /\ view[p].ver < MaxVer
  /\ MayCall(c, e)
  /\ Recorded(n, p) \/ "dirty_synced" \in Ops
  /\ view' = [view EXCEPT ![p].ver = @ + 1]
  /\ cache' = [cache EXCEPT ![p].ver = view[p].ver + 1]
  /\ IF n \in dirty
     THEN UNCHANGED <<files, pc, call>>
     ELSE /\ dirty' = dirty \cup {n} /\ UNCHANGED open
          /\ Goto(c, "append") /\ call' = [call EXCEPT ![c] = e]
  /\ calls' = calls + 1
  /\ UNCHANGED <<target, journal, apply>>

-----------------------------------------------------------------------------
(* mcachefs_journal_apply, under the journal lock *)

Renaming == \E c \in Underway : call[c].op = "rename"

ApplyStart ==
  /\ phase = "idle" /\ journal # <<>> /\ applies < MaxApplies
  /\ ~Renaming \/ "rename_applying" \in Ops
  /\ phase' = "update" /\ todo' = journal /\ applies' = applies + 1
  /\ UNCHANGED <<dirs, journal, pending, files, client>>

(* mcachefs_journal_apply_updates *)
ApplyUpdate ==
  /\ phase = "update" /\ todo # <<>>
  /\ todo' = Tail(todo)
  /\ target' = ApplyEntry(target, Head(todo))
  /\ UNCHANGED <<view, cache, journal, phase, pending, applies, files, client>>

(* The journal becomes the .fsync file. *)
ApplyRename ==
  /\ phase = "update" /\ todo = <<>>
  /\ phase' = "queue"
  /\ todo' = journal /\ journal' = <<>>
  /\ UNCHANGED <<dirs, pending, applies, files, client>>

(* mcachefs_transfer_writeback: in the cache, and in the metafile *)
Found(e) == e.path \in Paths /\ cache[e.path].node # NONE /\ IsFile(view[e.path])

(* mcachefs_journal_apply_fsync, which skips the changes of names *)
ApplyFsync ==
  /\ phase = "queue" /\ todo # <<>>
  /\ todo' = Tail(todo)
  /\ pending' = IF IsFsync(Head(todo)) /\ Found(Head(todo))
                THEN pending \cup {view[Head(todo).path].node} ELSE pending
  /\ UNCHANGED <<dirs, journal, phase, applies, files, client>>

(* Mistake: the application has ended when the write-backs are queued. *)
Bad_Ended(waited) == "idle"

(* ... which ends the application when no write-back is waited for. *)
Ended(waited) == IF waited = {} THEN "idle" ELSE "sync"

ApplyEnd ==
  /\ phase = "queue" /\ todo = <<>>
  /\ phase' = Ended(pending)
  /\ UNCHANGED <<dirs, journal, todo, pending, applies, files, client>>

(* mcachefs_transfer_do_writeback, by the path the file has now, and
   mcachefs_notify_sync_end.  That of a file without metadata does not report
   (departure 17): it is waited for ever. *)
WriteBack(n) ==
  LET p == PathOf(n)  ok == IsFile(cache[p]) /\ IsFile(target[p]) IN
  /\ n \in pending /\ phase = "sync" /\ InView(n)
  /\ target' = IF ok THEN [target EXCEPT ![p] = cache[p]] ELSE target
  /\ pending' = pending \ {n}
  /\ phase' = Ended(pending \ {n})
  /\ dirty' = IF UsersOf(n) = {} /\ n \notin open THEN dirty \ {n} ELSE dirty
  /\ UNCHANGED <<view, cache, journal, todo, applies, open, client>>

-----------------------------------------------------------------------------
Next ==
  \/ \E c \in Clients :
       \/ \E e \in Changes : Change(c, e)
       \/ AppendEntry(c) \/ CacheStep(c)
       \/ \E p \in Paths : Write(c, p)
  \/ \E p \in Paths : Backup(p)
  \/ ApplyStart \/ ApplyUpdate \/ ApplyRename \/ ApplyFsync \/ ApplyEnd
  \/ \E n \in Nodes : Open(n) \/ Close(n) \/ WriteBack(n)

Spec == Init /\ [][Next]_vars

-----------------------------------------------------------------------------
(* Properties *)

(* Every variable has its type; entries are read in the passes only, and
   write-backs wait for nobody but the application that queued them. *)
TypeOK ==
  /\ {view, cache, target} \subseteq Namespaces
  /\ \A j \in {journal, todo} : \A e \in Range(j) :
       /\ e.op \in {"mknod", "mkdir", "unlink", "rmdir", "rename", "fsync"}
       /\ e.path \in Paths \cup {LOST} /\ e.to \in Paths \cup {LOST}
  /\ phase \in {"idle", "update", "queue", "sync"}
  /\ todo # <<>> => phase \in {"update", "queue"}
  /\ pending # {} => phase \in {"queue", "sync"}
  /\ pending \subseteq Nodes /\ open \subseteq Nodes /\ dirty \subseteq Nodes
  /\ pc \in [Clients -> {"idle", "append", "cache"}]
  /\ \A c \in Clients : pc[c] = "idle" <=> call[c] = Quiet
  /\ calls \in 0..MaxCalls /\ applies \in 0..MaxApplies

NamesOf(ns) == [p \in Paths |-> ns[p].node]
Unapplied == IF phase = "update" THEN todo ELSE journal

(* The calls that have changed the metafile and not yet the journal *)
ToAppend == {c \in Underway : IsUpdate(call[c]) /\ (pc[c] = "append" \/ call[c].op = "unlink")}

(* A namespace before each of the entries es, and after the last *)
Run(start, es) ==
  LET ns[i \in 1..Len(es) + 1] ==
        IF i = 1 THEN start ELSE ApplyEntry(ns[i - 1], es[i - 1])
  IN ns
Final(start, es) == Run(start, es)[Len(es) + 1]
Replayed == Final(target, Unapplied \o SetToSeq({call[c] : c \in ToAppend}))

InCall(p) == \E c \in Underway : \E q \in Touched(call[c]) : Below(q, p)

(* Replaying what the journal holds, and will hold when the calls under way
   return, gives the target the names the users see: at any moment, in the
   middle of an application too, whatever the calls and however they overlap. *)
ReplayGivesTheView == NamesOf(Replayed) = NamesOf(view)

(* A file in the cache directory is the one users see under its name, with what
   they last wrote: renames of files and of directories above them, removals,
   and names used again, move the copies along. *)
CopiesAreOwn ==
  \A p \in Paths : cache[p].node # NONE /\ ~InCall(p) => cache[p] = view[p]

(* Data that is not on the target is in the cache, and an fsync entry under the
   name the file has now, or a queued write-back, will bring it: a rename after
   the write does not hide it. *)
DataIsOwed ==
  \A p \in Paths : IsFile(view[p]) /\ ~InCall(p) =>
    \/ Replayed[p] = view[p]
    \/ /\ cache[p] = view[p]
       /\ \/ view[p].node \in pending
          \/ \E e \in Range(journal \o todo) : IsFsync(e) /\ e.path = p

(* Every step of the target is one the users' namespace made, in that order, and
   data goes to it only for files whose data it lacks. *)
Past == LET ns == Run(target, Unapplied) IN [i \in DOMAIN ns |-> NamesOf(ns[i])]
OnTarget(n) == {target[q].ver : q \in {r \in Paths : target[r].node = n}}
Stale == {n \in Nodes : InView(n) /\ OnTarget(n) \cup {0} # {view[PathOf(n)].ver, 0}}
M == INSTANCE Mirror WITH past <- Past, stale <- Stale, Files <- Nodes,
                          Namespaces <- [Paths -> Nodes \cup {NONE, DIR}]
ImplementsMirror == M!Spec

================================================================================
