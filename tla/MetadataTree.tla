---------------------------- MODULE MetadataTree -----------------------------
(***************************************************************************)
(* The metafile (mcachefs-metadata.c): its records, the list of the free   *)
(* ones, the tree of directories that is read from the source directory by *)
(* directory when it is first needed, and what the journal keeps of its    *)
(* changes.                                                                *)
(*                                                                         *)
(* A path is the sequence of its names; the namespace of a file system is  *)
(* a function from paths to kinds.  A hash is the sequence of what was     *)
(* hashed, so that only the same string has the same hash; the red-black   *)
(* tree, with the collisions, is module HashTree, and here `hashed` is the *)
(* set of the entries in it.  A directory with no `child` has not been     *)
(* read; EMPTY stands for one that was read and has no entry.              *)
(*                                                                         *)
(* Every function holds the metadata lock from end to end and is one step; *)
(* the entry in the journal is appended after the lock is released.        *)
(***************************************************************************)
EXTENDS Naturals, Sequences, FiniteSets, SequencesExt

CONSTANTS
  Names,       (* the names users give                                       *)
  Cut,         (* each name without its first character; "" when it has one  *)
  MaxDepth,    (* bound: names in a path                                     *)
  Source,      (* the namespace of the source when it is first mounted       *)
  Records,     (* bound: records of the metafile                             *)
  Block,       (* records added when the free list is empty                  *)
  Ops,         (* optional behaviours, a subset of AllOps                    *)
  MaxChanges,  (* bound: changes made by users                               *)
  MaxLinks     (* bound: hard links among them                               *)

(* flush: metadata_flush.  deep_lookup: the kernel, which keeps what it looked
   up before a flush, may ask for a path whose parent the metafile does not
   hold.  flush_window: calls may come between the two parts of a flush.
   flush_race: a flush may come between a change and its entry in the
   journal.  third_link: a file that has two links may get another.
   flush_links: a flush may come after a hard link was made.
   handsup: users may forbid reading the source for a while.
   handsup_changes: the tree may be changed or flushed meanwhile. *)
AllOps == {"flush", "deep_lookup", "flush_window", "flush_race", "third_link", "flush_links",
           "handsup", "handsup_changes"}

DIR == "dir"
FILE == "file"
LINKED == "linked"                  \* on the source: a file with another name somewhere
VOPS == ".mcachefs"                 \* MCACHEFS_VOPS_DIR
VopsList == <<"action", "journal">> \* two of mcachefs_vops_get_vops_list()
Paths == UNION {[1..n -> Names] : n \in 1..MaxDepth}
Ids == 1..Records
Root == 1
EMPTY == Records + 1
None == "none"

ASSUME CutAssumption == Cut \in [Names -> Names \cup {""}] /\ {"", VOPS} \cap Names = {}
ASSUME SourceAssumption ==
  /\ DOMAIN Source \subseteq Paths
  /\ \A p \in DOMAIN Source : Source[p] \in {DIR, FILE, LINKED} /\ (Len(p) > 1 => Source[Front(p)] = DIR)
ASSUME OpsAssumption == Ops \subseteq AllOps
ASSUME BoundsAssumption == {MaxDepth, Records, Block, MaxChanges} \subseteq Nat \ {0} /\ Block > 1 /\ MaxLinks \in Nat

VARIABLES
  meta,      (* [entry, hashed, first_free, alloced_nb, bug]                  *)
  source,    (* the namespace of the source                                  *)
  journal,   (* the entries of the journal                                   *)
  inflight,  (* the change whose entry is still to be appended, if any       *)
  flush,     (* "never"; "populate" until populate_vops is called; "done"    *)
  handsup,   (* read_state is HANDSUP                                        *)
  absent,    (* the path last looked up in vain, <<>> if none since a change *)
  view,      (* history: the namespace as users have made it                 *)
  changes, links  (* bounds                                                  *)

vars == <<meta, source, journal, inflight, flush, handsup, absent, view, changes, links>>

Blank == [name |-> "", kind |-> None, father |-> 0, child |-> 0, next |-> 0, hash |-> <<>>,
          nlink |-> 0, hardlink |-> 0]
Bug(m, what) == [m EXCEPT !.bug = what]
RealChild(m, id) == IF m.entry[id].child = EMPTY THEN 0 ELSE m.entry[id].child

-----------------------------------------------------------------------------
(* Namespaces, and the change each entry of the journal makes to one *)

Under(p) == {q \in Paths : IsPrefix(p, q)}
ParentExists(ns, p) == Len(p) = 1 \/ (Front(p) \in DOMAIN ns /\ ns[Front(p)] = DIR)
Children(ns, p) == {q \in DOMAIN ns : Len(q) = Len(p) + 1 /\ IsPrefix(p, q)}

With(ns, p, kind) == [q \in DOMAIN ns \cup {p} |-> IF q = p THEN kind ELSE ns[q]]
Without(ns, p) == [q \in DOMAIN ns \ {p} |-> ns[q]]

(* The path below q of what is below p *)
Rebased(r, p, q) == q \o SubSeq(r, Len(p) + 1, Len(r))
Moved(ns, p, q) ==
  LET gone == DOMAIN ns \cap Under(p)
      arrived == {Rebased(r, p, q) : r \in gone} IN
  [r \in (DOMAIN ns \ gone) \cup arrived |->
     IF r \in arrived THEN ns[Rebased(r, q, p)] ELSE ns[r]]

(* mcachefs_journal_apply_entry: a call that fails on the source is logged, and
   so is a hard link, always. *)
ApplyEntry(ns, e) ==
  CASE e.op = "make" /\ e.path \notin DOMAIN ns /\ ParentExists(ns, e.path) -> With(ns, e.path, e.kind)
    [] e.op = "remove" /\ e.path \in DOMAIN ns /\ Children(ns, e.path) = {} -> Without(ns, e.path)
    [] e.op = "rename" /\ e.path \in DOMAIN ns /\ e.to \notin DOMAIN ns /\ ParentExists(ns, e.to) ->
         Moved(ns, e.path, e.to)
    [] OTHER -> ns

ApplyEntries(ns, entries) == FoldLeft(ApplyEntry, ns, entries)

-----------------------------------------------------------------------------
(* Records *)

(* mcachefs_metadata_extend_free_entries *)
ExtendFree(m, first, last) ==
  [m EXCEPT !.entry = [i \in Ids |-> IF i \in first..(last - 1)
                                     THEN [Blank EXCEPT !.next = IF i < last - 1 THEN i + 1 ELSE 0]
                                     ELSE @[i]]]

(* mcachefs_metadata_format *)
Formatted ==
  LET m == [entry |-> [i \in Ids |-> IF i = Root THEN [Blank EXCEPT !.kind = DIR, !.hash = <<"/">>] ELSE Blank],
            hashed |-> {Root}, first_free |-> IF Block > 2 THEN 2 ELSE 0, alloced_nb |-> Block, bug |-> None] IN
  ExtendFree(m, 2, Block)

(* mcachefs_metadata_allocate.  There are enough records: see Fits. *)
Grown(m) ==
  IF m.first_free # 0 THEN m
  ELSE IF m.alloced_nb + Block > Records + 1 THEN Bug(m, "out of records")
  ELSE [ExtendFree(m, m.alloced_nb, m.alloced_nb + Block) EXCEPT
          !.first_free = m.alloced_nb, !.alloced_nb = @ + Block]
TakeFree(m) ==
  IF m.bug # None THEN [meta |-> m, id |-> 0]
  ELSE [meta |-> [m EXCEPT !.first_free = m.entry[m.first_free].next], id |-> m.first_free]
Allocate(m) == TakeFree(Grown(m))

(* Mistake: the record is cleared after it was linked to the free list. *)
Bad_FreeRecord(m, id) == [m EXCEPT !.entry[id] = Blank, !.first_free = id]

(* mcachefs_metadata_remove *)
FreeRecord(m, id) ==
  [m EXCEPT !.entry[id] = [Blank EXCEPT !.next = m.first_free], !.first_free = id]

(* mcachefs_metadata_get_path, and the comparison of mcachefs_metadata_equals *)
RECURSIVE PathOf(_, _)
PathOf(m, id) ==
  IF m.entry[id].father = 0 THEN <<>>
  ELSE Append(PathOf(m, m.entry[id].father), m.entry[id].name)

(* doHash: what is hashed of a path *)
DoHash(p) == <<"/">> \o [i \in 1..(2 * Len(p) - 1) |-> IF i % 2 = 0 THEN "/" ELSE p[(i + 1) \div 2]]

(* mcachefs_metadata_build_hash *)
BuildHash(m, father, id) ==
  LET f == m.entry[father] IN
  [m EXCEPT !.entry[id].hash = (IF f.father # 0 THEN f.hash \o <<"/">> ELSE f.hash) \o <<m.entry[id].name>>]

InsertHash(m, id) == [m EXCEPT !.hashed = @ \cup {id}]
RemoveHash(m, id) == [m EXCEPT !.hashed = @ \ {id}]

(* mcachefs_metadata_find_hash, without the search *)
FindHash(m, p) ==
  LET hash == DoHash(p)
      found == {i \in m.hashed : m.entry[i].hash = hash /\ PathOf(m, i) = p} IN
  IF found = {} THEN 0 ELSE CHOOSE i \in found : TRUE

(* Mistake: the value EMPTY is taken for a link. *)
Bad_LinkEntry(m, father, id) ==
  [m EXCEPT !.entry[id].father = father, !.entry[id].next = m.entry[father].child,
            !.entry[father].child = id]

(* mcachefs_metadata_link_entry *)
LinkEntry(m, father, id) ==
  [m EXCEPT !.entry[id].father = father,
            !.entry[id].next = IF m.entry[father].child # EMPTY THEN m.entry[father].child ELSE 0,
            !.entry[father].child = id]

(* mcachefs_metadata_unlink_entry *)
RECURSIVE UnlinkAfter(_, _, _)
UnlinkAfter(m, prev, id) ==
  CASE m.entry[prev].next = id -> [m EXCEPT !.entry[prev].next = m.entry[id].next]
    [] m.entry[prev].next = 0 -> Bug(m, "not a child of its father")
    [] OTHER -> UnlinkAfter(m, m.entry[prev].next, id)

(* Mistake: a directory that loses its last entry looks not read. *)
Bad_UnlinkEntry(m, id) ==
  LET e == m.entry[id] IN
  IF m.entry[e.father].child = id
  THEN [m EXCEPT !.entry[e.father].child = e.next]
  ELSE UnlinkAfter(m, m.entry[e.father].child, id)

UnlinkEntry(m, id) ==
  LET e == m.entry[id]
      father == e.father IN
  IF father = 0 THEN Bug(m, "Shall not unlink /")
  ELSE IF m.entry[father].child = id
  THEN [m EXCEPT !.entry[father].child = IF e.next # 0 THEN e.next ELSE EMPTY]
  ELSE UnlinkAfter(m, m.entry[father].child, id)

(* mcachefs_metadata_do_add_child of a new record, with the attributes of the
   source's file *)
Kind(v) == IF v = LINKED THEN FILE ELSE v
AddRecord(a, father, name, what) ==
  LET named == [a.meta EXCEPT !.entry[a.id].name = name, !.entry[a.id].kind = Kind(what),
                              !.entry[a.id].nlink = IF what = LINKED THEN 2 ELSE 1] IN
  IF a.id = 0 THEN a.meta
  ELSE InsertHash(BuildHash(LinkEntry(named, father, a.id), father, a.id), a.id)
AddChild(m, father, name, what) == AddRecord(Allocate(m), father, name, what)

-----------------------------------------------------------------------------
(* Reading the source, and lookups: each gives the metafile and an entry *)

(* mcachefs_metadata_get_child: a directory not read yet is read from the
   source, through the names of its ancestors (mcachefs_metadata_recurse_open).
   The order of readdir is that of SetToSeq.  Nothing is read when the read
   state is HANDSUP. *)
Unreadable == <<>> :> DIR
MarkRead(m, id) == IF m.entry[id].child = 0 THEN [m EXCEPT !.entry[id].child = EMPTY] ELSE m
ReadDirectory(m, ns, id, listed) ==
  MarkRead(FoldLeft(LAMBDA k, q : AddChild(k, id, Last(q), ns[q]), m, listed), id)
FirstChild(m, id) == [meta |-> m, id |-> RealChild(m, id)]
GetChild(m, ns, id) ==
  LET p == PathOf(m, id)
      unread == m.entry[id].child = 0 /\ m.entry[id].kind = DIR /\ ns # Unreadable /\ (p = <<>> \/ p \in DOMAIN ns) IN
  FirstChild(IF unread THEN ReadDirectory(m, ns, id, SetToSeq(Children(ns, p))) ELSE m, id)

(* mcachefs_metadata_fetch_children, at entry current; 0 is the NULL it would
   dereference. *)
RECURSIVE FetchFrom(_, _, _, _), FetchNext(_, _, _, _)
FetchBelow(m, ns, root, current) ==
  IF m.entry[current].kind # DIR \/ m.entry[current].child = EMPTY
  THEN FetchNext(m, ns, root, current)
  ELSE IF m.entry[current].child = 0 THEN Bug(m, "NULL child")
  ELSE FetchFrom(m, ns, root, m.entry[current].child)

FetchFrom(m, ns, root, current) == FetchBelow(GetChild(m, ns, current).meta, ns, root, current)

FetchNext(m, ns, root, current) ==
  LET e == m.entry[current] IN
  CASE e.next = 0 /\ e.father \in {root, Root} -> m
    [] e.next = 0 /\ e.father = 0 -> Bug(m, "no father")
    [] e.next = 0 /\ e.father \notin {root, Root, 0} -> FetchNext(m, ns, root, e.father)
    [] OTHER -> IF current = root THEN m ELSE FetchFrom(m, ns, root, e.next)

(* Mistake: only the directory itself is read. *)
Bad_FetchChildren(m, ns, id) == GetChild(m, ns, id).meta

FetchChildren(m, ns, id) == FetchFrom(m, ns, id, id)

(* The entry of a list of children with this hash *)
RECURSIVE FindInList(_, _, _)
FindInList(m, id, hash) ==
  IF id = 0 \/ m.entry[id].hash = hash THEN id ELSE FindInList(m, m.entry[id].next, hash)

(* mcachefs_metadata_walk_down, from entry id along the names.  A "/" is added
   to the hash of every father, that of the root included; after the first
   name, path_size is incremented twice and every name loses its first
   character. *)
RECURSIVE WalkDown(_, _, _, _)
WalkInto(got, ns, hash, rest) ==
  LET found == FindInList(got.meta, got.id, hash) IN
  IF found = 0 \/ rest = <<>> THEN [meta |-> got.meta, id |-> found]
  ELSE WalkDown(got.meta, ns, found, <<Cut[Head(rest)]>> \o Tail(rest))

WalkDown(m, ns, id, names) ==
  WalkInto(GetChild(m, ns, id), ns, m.entry[id].hash \o <<"/", Head(names)>>, Tail(names))

Known(m, p) == IF p = <<>> THEN Root ELSE FindHash(m, p)

(* Mistake: directories not read yet are not looked into. *)
Bad_FindLocked(m, ns, p) == [meta |-> m, id |-> Known(m, p)]

(* mcachefs_metadata_find_locked: the entry, or the walk from the closest
   ancestor that has one *)
FindLocked(m, ns, p) ==
  LET n == Max({k \in 0..Len(p) : Known(m, SubSeq(p, 1, k)) # 0})
      from == Known(m, SubSeq(p, 1, n)) IN
  IF n = Len(p) THEN [meta |-> m, id |-> from]
  ELSE WalkDown(m, ns, from, SubSeq(p, n + 1, Len(p)))

-----------------------------------------------------------------------------
(* Changes: each gives the metafile and whether the call succeeded *)

(* mcachefs_metadata_remove_children *)
RECURSIVE RemoveList(_, _)
RemoveList(m, id) ==
  LET e == m.entry[id] IN
  IF id = 0 THEN m
  ELSE RemoveList(LET k == RemoveList(m, RealChild(m, id)) IN FreeRecord(RemoveHash(k, id), id), e.next)

RemoveChildren(m, id) ==
  [RemoveList(m, RealChild(m, id)) EXCEPT !.entry[id].child = IF @ = EMPTY THEN EMPTY ELSE 0]

(* mcachefs_metadata_make_entry; mcachefs_split_path gives Front and Last *)
MakeRecord(a, father, p, kind) ==
  LET new == [Blank EXCEPT !.name = Last(p), !.kind = kind, !.nlink = 1,
                           !.child = IF kind = DIR THEN EMPTY ELSE 0]
      made == [a.meta EXCEPT !.entry[a.id] = new] IN
  IF a.id = 0 THEN [meta |-> a.meta, done |-> FALSE]
  ELSE [meta |-> LinkEntry(InsertHash(BuildHash(made, father, a.id), a.id), father, a.id), done |-> TRUE]

MakeIn(father, ns, p, kind) ==
  IF father.id = 0 THEN [meta |-> Bug(father.meta, "no father"), done |-> FALSE]
  ELSE MakeRecord(Allocate(GetChild(father.meta, ns, father.id).meta), father.id, p, kind)

MakeEntry(m, ns, p, kind) ==
  LET there == FindLocked(m, ns, p) IN
  IF there.id # 0 THEN [meta |-> there.meta, done |-> FALSE]
  ELSE MakeIn(FindLocked(there.meta, ns, Front(p)), ns, p, kind)

(* The hard links of a file are a ring, through `hardlink`.  Around: the other
   entries, in the order they are met; empty if the ring does not lead back. *)
Around(m, id) ==
  LET at[n \in 1..Records] == LET from == IF n = 1 THEN id ELSE at[n - 1] IN
                              IF from = 0 THEN 0 ELSE m.entry[from].hardlink
      back == {n \in 1..Records : at[n] # 0 /\ m.entry[at[n]].hardlink = id} IN
  IF back = {} THEN <<>> ELSE [n \in 1..Min(back) |-> at[n]]

(* Mistake: the entry left alone is not told. *)
Bad_UnlinkList(m, id) ==
  LET others == Around(m, id) IN
  IF others = <<>> THEN Bug(m, "Spurious !")
  ELSE [m EXCEPT !.entry = [i \in Ids |->
          IF i \notin ToSet(others) THEN @[i]
          ELSE [@[i] EXCEPT !.nlink = @ - 1,
                            !.hardlink = IF i = Last(others) THEN Head(others) ELSE @]]]

(* mcachefs_metadata_unlink_list *)
UnlinkList(m, id) ==
  LET others == Around(m, id) IN
  IF others = <<>> THEN Bug(m, "Spurious !")
  ELSE [m EXCEPT !.entry = [i \in Ids |->
          IF i \notin ToSet(others) THEN @[i]
          ELSE [@[i] EXCEPT !.nlink = @ - 1,
                            !.hardlink = IF i # Last(others) THEN @
                                         ELSE IF Len(others) = 1 THEN 0 ELSE Head(others)]]]

(* mcachefs_metadata_notify_update: the attributes, of which only st_nlink is
   represented, are copied to the other links. *)
NotifyUpdate(m, id) ==
  LET others == Around(m, id) IN
  IF m.entry[id].kind # FILE \/ m.entry[id].nlink <= 1 THEN m
  ELSE IF others = <<>> THEN Bug(m, "Inconsistent hardlink !")
  ELSE [m EXCEPT !.entry = [i \in Ids |->
          IF i \in ToSet(others) THEN [@[i] EXCEPT !.nlink = m.entry[id].nlink] ELSE @[i]]]

(* mcachefs_link, when the link could be made in the cache: another entry, and
   the ring is opened after the first. *)
Ringed(m, from, to) ==
  LET e == m.entry[from] IN
  [m EXCEPT !.entry[to].nlink = e.nlink + 1,
            !.entry[to].hardlink = IF e.hardlink # 0 THEN e.hardlink ELSE from,
            !.entry[from].nlink = @ + 1,
            !.entry[from].hardlink = to]

HardLink(m, ns, p, to) ==
  LET from == FindLocked(m, ns, p)
      made == MakeEntry(from.meta, ns, to, FILE) IN
  IF ~made.done THEN made
  ELSE [meta |-> Ringed(made.meta, from.id, FindLocked(made.meta, ns, to).id), done |-> TRUE]

(* mcachefs_metadata_rmdir_unlink, of the entry found *)
RemoveFound(m, ns, id, isdir) ==
  LET read == IF isdir THEN GetChild(m, ns, id).meta
              ELSE IF m.entry[id].nlink > 1 THEN UnlinkList(m, id) ELSE m IN
  IF isdir # (m.entry[id].kind = DIR) THEN [meta |-> m, done |-> FALSE]
  ELSE IF (isdir /\ read.entry[id].child # EMPTY) \/ read.bug # None THEN [meta |-> read, done |-> FALSE]
  ELSE [meta |-> FreeRecord(RemoveHash(UnlinkEntry(read, id), id), id), done |-> TRUE]

RmdirUnlink(m, ns, p, isdir) ==
  LET there == FindLocked(m, ns, p) IN
  IF there.id = 0 THEN [meta |-> there.meta, done |-> FALSE]
  ELSE RemoveFound(there.meta, ns, there.id, isdir)

(* mcachefs_metadata_rehash_children, at entry id of directory father *)
RECURSIVE RehashFrom(_, _, _, _), RehashNext(_, _, _, _)
RehashBelow(m, root, father, id) ==
  LET e == m.entry[id] IN
  CASE e.kind = DIR /\ e.child = 0 -> m      \* "Hash lookup was so partial"
    [] e.kind = DIR /\ e.child \in Ids -> RehashFrom(m, root, id, e.child)
    [] OTHER -> RehashNext(m, root, father, id)

RehashFrom(m, root, father, id) ==
  RehashBelow(InsertHash(BuildHash(RemoveHash(m, id), father, id), id), root, father, id)

(* Mistake: the father is not changed on the way up. *)
Bad_RehashNext(m, root, father, id) ==
  LET e == m.entry[id] IN
  CASE e.next # 0 -> RehashFrom(m, root, father, e.next)
    [] e.next = 0 /\ e.father = root -> m
    [] OTHER -> RehashNext(m, root, father, e.father)

RehashNext(m, root, father, id) ==
  LET e == m.entry[id] IN
  CASE e.next # 0 -> RehashFrom(m, root, father, e.next)
    [] e.next = 0 /\ e.father = root -> m
    [] OTHER -> RehashNext(m, root, m.entry[e.father].father, e.father)

RehashChildren(m, ns, id) ==
  LET got == GetChild(m, ns, id) IN
  IF got.id = 0 THEN got.meta ELSE RehashFrom(got.meta, id, id, got.id)

(* mcachefs_metadata_rename_entry *)
RehashRenamed(m, ns, id) ==
  IF m.entry[id].kind = DIR /\ m.entry[id].child # EMPTY THEN RehashChildren(m, ns, id) ELSE m

RenameInto(target, ns, id, name) ==
  LET out == RemoveHash(UnlinkEntry(target.meta, id), id)
      named == LinkEntry([out EXCEPT !.entry[id].name = name], target.id, id) IN
  IF target.id = 0 \/ target.meta.entry[target.id].kind # DIR THEN [meta |-> target.meta, done |-> FALSE]
  ELSE [meta |-> RehashRenamed(InsertHash(BuildHash(named, target.id, id), id), ns, id), done |-> TRUE]

RenameOver(over, ns, id, to) ==
  IF over.id # 0 THEN [meta |-> over.meta, done |-> FALSE]
  ELSE RenameInto(FindLocked(over.meta, ns, Front(to)), ns, id, Last(to))

RenameFound(m, ns, id, to) ==
  LET read == IF m.entry[id].kind = DIR THEN FetchChildren(m, ns, id) ELSE m IN
  RenameOver(FindLocked(read, ns, to), ns, id, to)

RenameEntry(m, ns, p, to) ==
  LET there == FindLocked(m, ns, p) IN
  IF there.id = 0 THEN [meta |-> there.meta, done |-> FALSE]
  ELSE RenameFound(there.meta, ns, there.id, to)

(* mcachefs_metadata_populate_vops, with _vops_remove_previous *)
RECURSIVE FindName(_, _, _)
FindName(m, id, name) ==
  IF id = 0 \/ m.entry[id].name = name THEN id ELSE FindName(m, m.entry[id].next, name)

RemovePrevious(m, id) ==
  IF id = 0 THEN m
  ELSE FreeRecord(RemoveHash(UnlinkEntry(RemoveChildren(m, id), id), id), id)

VopsEntries(m) ==
  FoldLeft(LAMBDA k, name : AddChild(k, m.entry[Root].child, name, FILE), m, VopsList)

WithVops(got) ==
  VopsEntries(AddChild(RemovePrevious(got.meta, FindName(got.meta, got.id, VOPS)), Root, VOPS, DIR))

PopulateVops(m, ns) == WithVops(GetChild(m, ns, Root))

-----------------------------------------------------------------------------
Init ==
  /\ source = Source
  /\ meta = PopulateVops(Formatted, Source)
  /\ journal = <<>>
  /\ inflight = <<>>
  /\ flush = "never"
  /\ handsup = FALSE
  /\ absent = <<>>
  /\ view = Source
  /\ changes = 0 /\ links = 0

(* The kernel asks for a path only after its parent: the metafile holds the
   parent, or held it before a flush.  It reads, removes and renames what it
   has found only. *)
Asked(p) == Len(p) = 1 \/ FindHash(meta, Front(p)) # 0
              \/ ("deep_lookup" \in Ops /\ flush # "never" /\ Front(p) \in DOMAIN view)

Readable == IF handsup THEN Unreadable ELSE source
MayEdit == handsup => "handsup_changes" \in Ops
Fits == meta'.bug # "out of records"

(* mcachefs_metadata_getattr, mcachefs_metadata_find *)
Lookup(p) ==
  /\ Asked(p)
  /\ LET r == FindLocked(meta, Readable, p) IN
     /\ meta' = r.meta
     /\ absent' = IF r.id = 0 THEN p ELSE absent
  /\ Fits
  /\ UNCHANGED <<source, journal, inflight, flush, handsup, view, changes, links>>

(* mcachefs_readdir, of a directory the kernel has looked up *)
Readdir(p) ==
  /\ p \in DOMAIN view /\ view[p] = DIR /\ FindHash(meta, p) # 0
  /\ meta' = GetChild(meta, Readable, FindHash(meta, p)).meta
  /\ Fits
  /\ UNCHANGED <<source, journal, inflight, flush, handsup, absent, view, changes, links>>

(* A call that changes the tree; when it succeeds its entry is still to be
   appended.  The kernel serialises the changes of a directory. *)
MayChange == MayEdit /\ inflight = <<>> /\ changes < MaxChanges
Changed(r, e, namespace) ==
  /\ meta' = r.meta
  /\ Fits
  /\ inflight' = IF r.done THEN <<e>> ELSE <<>>
  /\ view' = IF r.done THEN namespace ELSE view
  /\ changes' = IF r.done THEN changes + 1 ELSE changes
  /\ absent' = IF r.done THEN <<>> ELSE absent
  /\ UNCHANGED <<source, journal, flush, handsup>>
Change(r, e) == Changed(r, e, ApplyEntry(view, e)) /\ UNCHANGED links

(* mcachefs_mknod and mcachefs_mkdir, of a name the kernel has just been told
   does not exist *)
Make(p, kind) ==
  /\ MayChange /\ absent = p /\ Asked(p) /\ ParentExists(view, p)
  /\ Change(MakeEntry(meta, Readable, p, kind), [op |-> "make", path |-> p, to |-> p, kind |-> kind])

(* mcachefs_unlink and mcachefs_rmdir *)
Unlink(p, isdir) ==
  /\ MayChange /\ p \in DOMAIN view /\ Asked(p)
  /\ Change(RmdirUnlink(meta, Readable, p, isdir), [op |-> "remove", path |-> p, to |-> p, kind |-> FILE])

(* mcachefs_rename; the kernel refuses to move a directory below itself *)
Rename(p, to) ==
  /\ MayChange /\ p \in DOMAIN view /\ Asked(p) /\ Asked(to) /\ ~IsPrefix(p, to)
  /\ \A q \in DOMAIN view \cap Under(p) : Len(Rebased(q, p, to)) <= MaxDepth
  /\ Change(RenameEntry(meta, Readable, p, to), [op |-> "rename", path |-> p, to |-> to, kind |-> FILE])

(* mcachefs_link, of a regular file, to a name that does not exist: the kernel
   refuses the rest. *)
Link(p, to) ==
  LET id == FindHash(meta, p)
      r == HardLink(meta, Readable, p, to) IN
  /\ MayChange /\ links < MaxLinks
  /\ absent = to /\ Asked(to) /\ ParentExists(view, to)
  /\ id # 0 /\ meta.entry[id].kind = FILE
  /\ meta.entry[id].nlink = 1 \/ "third_link" \in Ops
  /\ Changed(r, [op |-> "link", path |-> p, to |-> to, kind |-> FILE], With(view, to, FILE))
  /\ links' = IF r.done THEN links + 1 ELSE links

(* mcachefs_file_update_metadata, after a read or a write *)
UpdateMetadata(p) ==
  /\ p \in DOMAIN view /\ view[p] # DIR /\ FindHash(meta, p) # 0
  /\ meta' = NotifyUpdate(meta, FindHash(meta, p))
  /\ UNCHANGED <<source, journal, inflight, flush, handsup, absent, view, changes, links>>

(* mcachefs_config_set_read_state *)
SetReadState ==
  /\ "handsup" \in Ops
  /\ flush = "populate" => "handsup_changes" \in Ops
  /\ handsup' = ~handsup
  /\ UNCHANGED <<meta, source, journal, inflight, flush, absent, view, changes, links>>

(* mcachefs_journal_append, in the call that made the change *)
AppendJournal ==
  /\ inflight # <<>>
  /\ journal' = journal \o inflight
  /\ inflight' = <<>>
  /\ UNCHANGED <<meta, source, flush, handsup, absent, view, changes, links>>

(* mcachefs_journal_apply_updates: a directory not read yet has no change in
   the journal, so that nothing sees the source between two entries. *)
ApplyUpdates ==
  /\ journal # <<>>
  /\ source' = ApplyEntries(source, journal)
  /\ journal' = <<>>
  /\ UNCHANGED <<meta, inflight, flush, handsup, absent, view, changes, links>>

(* mcachefs_metadata_flush: refused while the journal has entries; the lock is
   released before populate_vops. *)
Flush ==
  /\ "flush" \in Ops
  /\ MayEdit
  /\ journal = <<>>
  /\ flush # "populate"
  /\ inflight # <<>> => "flush_race" \in Ops
  /\ links > 0 => "flush_links" \in Ops
  /\ meta' = Formatted
  /\ flush' = "populate"
  /\ UNCHANGED <<source, journal, inflight, handsup, absent, view, changes, links>>

FlushEnds ==
  /\ flush = "populate"
  /\ meta' = PopulateVops(meta, Readable)
  /\ Fits
  /\ flush' = "done"
  /\ UNCHANGED <<source, journal, inflight, handsup, absent, view, changes, links>>

(* Unmounted and mounted again: the metafile and the journal are kept, the
   entries of the vops are made again, the read state is the default one. *)
Remount ==
  /\ inflight = <<>>
  /\ flush # "populate"
  /\ meta' = PopulateVops(meta, source)
  /\ Fits
  /\ absent' = <<>>
  /\ handsup' = FALSE
  /\ UNCHANGED <<source, journal, inflight, flush, view, changes, links>>

(* Bug() stops the process. *)
Running == meta.bug = None
Calls == Running /\ (flush = "populate" => "flush_window" \in Ops)

Next ==
  \/ \E p \in Paths : Calls /\ (Lookup(p) \/ Readdir(p) \/ Unlink(p, TRUE) \/ Unlink(p, FALSE))
  \/ \E p \in Paths, kind \in {DIR, FILE} : Calls /\ Make(p, kind)
  \/ \E p, to \in Paths : Calls /\ (Rename(p, to) \/ Link(p, to))
  \/ \E p \in Paths : Calls /\ UpdateMetadata(p)
  \/ Running /\ (AppendJournal \/ ApplyUpdates \/ Flush \/ FlushEnds \/ Remount \/ SetReadState)

Spec == Init /\ [][Next]_vars

-----------------------------------------------------------------------------
(* Properties *)

(* The links are records, or the two special values; no Bug() is reached. *)
TypeOK ==
  /\ \A i \in Ids : /\ {meta.entry[i].father, meta.entry[i].next, meta.entry[i].hardlink} \subseteq Ids \cup {0}
                    /\ meta.entry[i].child \in Ids \cup {0, EMPTY}
  /\ meta.hashed \subseteq Ids /\ meta.first_free \in Ids \cup {0} /\ meta.bug = None
  /\ DOMAIN source \subseteq Paths /\ DOMAIN view \subseteq Paths

RECURSIVE ListFrom(_), TreeFrom(_)
ListFrom(i) == IF i = 0 THEN <<>> ELSE <<i>> \o ListFrom(meta.entry[i].next)
TreeFrom(i) ==
  IF i = 0 THEN <<>>
  ELSE <<i>> \o TreeFrom(RealChild(meta, i)) \o TreeFrom(meta.entry[i].next)

InTree == ToSet(TreeFrom(Root))
ChildrenOf(i) == ToSet(ListFrom(RealChild(meta, i)))

(* Every record of the metafile is once in the tree of directories, or once
   in the free list, which share the field `next`: no sequence of readings,
   creations, removals, renamings, flushes and mounts loses one or lists it
   twice. *)
RecordsAccounted ==
  LET all == TreeFrom(Root) \o ListFrom(meta.first_free) IN
  IsInjective(all) /\ ToSet(all) = 1..(meta.alloced_nb - 1)

(* Every entry of the tree, and nothing else, is in the hash tree, under the
   hash of the path it has now: what renaming a directory must bring about
   for everything below it. *)
HashesFollowPaths ==
  /\ meta.hashed = InTree
  /\ \A i \in meta.hashed :
       /\ meta.entry[i].hash = DoHash(PathOf(meta, i))
       /\ \A c \in ChildrenOf(i) : meta.entry[c].father = i

(* The tree, with the source standing for the directories not read yet, is
   the namespace users have made: nothing they created is missing, nothing
   they removed or moved away is back. *)
ViewIsKept ==
  \A i \in InTree :
    LET p == PathOf(meta, i)
        e == meta.entry[i]
        users == [c \in {c \in ChildrenOf(i) : meta.entry[c].name # VOPS} |-> PathOf(meta, c)] IN
    (e.kind = DIR /\ VOPS \notin ToSet(p)) =>
      IF e.child = 0 THEN Children(source, p) = Children(view, p)
      ELSE /\ {users[c] : c \in DOMAIN users} = Children(view, p)
           /\ \A c \in DOMAIN users : meta.entry[c].kind = Kind(view[users[c]])

(* The names of a file are a ring of entries that all know how many they are,
   through links, renames, removals and records used again. *)
LinksAreRings ==
  LET tree == InTree IN
  \A i \in {j \in tree : meta.entry[j].kind = FILE} :
    LET others == ToSet(Around(meta, i)) IN
    /\ others = {} <=> meta.entry[i].hardlink = 0
    /\ others \subseteq tree \ {i}
    /\ \A o \in others \cup {i} : meta.entry[o].kind = FILE
                                  /\ meta.entry[o].nlink = Cardinality(others) + 1

(* A lookup of any path the kernel may ask for finds its entry if users have
   the path, unless the source may not be read, and none otherwise. *)
LookupsAreRight ==
  Calls => \A p \in {q \in Paths : Asked(q)} :
    LET r == FindLocked(meta, Readable, p) IN
    IF r.id # 0 THEN p \in DOMAIN view /\ PathOf(r.meta, r.id) = p
    ELSE handsup \/ p \notin DOMAIN view

==============================================================================
