------------------------------ MODULE ReplayProofs ------------------------------
(***************************************************************************)
(* Proofs about Replay, for any clients, names, files and bounds: replaying *)
(* the journal gives the names users see, no data is forgotten, and the     *)
(* target mirrors what users did, in their order.                           *)
(***************************************************************************)
EXTENDS ReplayRuns

(* Departures 20 and 22: a write-back is not that of a file moved since it was
   queued, nor a backup that of another file.  Departures 18 and 21: a write to
   a dirty file has its entry in the journal, and a rename rewrites the entries
   of what it moves only. *)
FilesStay == Ops \cap {"rename_applying", "rename_syncing", "backup_other"} = {}
EntriesSuffice == "dirty_synced" \notin Ops /\ NamePrefix = {}

-----------------------------------------------------------------------------
(* What holds between any two steps *)

Changing == {c \in Underway : IsUpdate(call[c])}
Renames == {c \in Underway : call[c].op = "rename"}

Typing ==
  /\ WellFormed(view) /\ WellFormed(target) /\ cache \in Namespaces
  /\ journal \in Seq(Ents) /\ todo \in Seq(Ents)
  /\ phase \in {"idle", "update", "queue", "sync"}
  /\ pending \subseteq Nodes /\ open \subseteq Nodes /\ dirty \subseteq Nodes
  /\ pc \in [Clients -> {"idle", "append", "cache"}]
  /\ call \in [Clients -> Ents \cup {Quiet}]
  /\ calls \in 0..MaxCalls /\ applies \in 0..MaxApplies

CallState ==
  \A c \in Clients :
    /\ pc[c] = "idle" <=> call[c] = Quiet
    /\ pc[c] = "cache" => call[c].op \in {"mknod", "unlink", "rename"}
    /\ IsFsync(call[c]) => call[c].path \in Paths

(* The calls that change a name are about different places. *)
Apart == \A c \in Changing, d \in Underway : c # d => ~Conflict(call[c], call[d]) /\ ~Conflict(call[d], call[c])

Phases ==
  /\ todo # <<>> => phase \in {"update", "queue"}
  /\ phase = "queue" => journal = <<>>
  /\ pending # {} => phase \in {"queue", "sync"}
  /\ phase \in {"update", "queue"} => Renames = {}

(* What the target will be when the journal is replayed, and after the changes
   that are not in it yet, which all are possible *)
Base == Final(target, Unapplied)
Promised == {call[c] : c \in ToAppend}
Result == Merge(Base, Promised)
Fits == \A e \in Promised : Possible(Base, e)
Leads == Agree(Result, view, Paths)

(* The files the journal or the calls will make are not on the target. *)
Fresh ==
  /\ \A i \in 1..Len(Unapplied) : Unapplied[i].op = "mknod" => Absent(Unapplied[i].node, target)
  /\ \A e \in Promised : e.op = "mknod" => Absent(e.node, target)
MakesOnce ==
  /\ \A i, j \in 1..Len(Unapplied) :
       Unapplied[i].op = "mknod" /\ Unapplied[j].op = "mknod" /\ i # j => Unapplied[i].node # Unapplied[j].node
  /\ \A e \in Promised, j \in 1..Len(Unapplied) :
       e.op = "mknod" /\ Unapplied[j].op = "mknod" => e.node # Unapplied[j].node
  /\ \A e, f \in Promised : e.op = "mknod" /\ f.op = "mknod" /\ e # f => e.node # f.node

Effects ==
  \A c \in Changing : /\ call[c].op = "mknod" => view[call[c].path] = File(call[c].node)
                      /\ call[c].op = "unlink" => view[call[c].path] = Empty

(* The copies, where no call changes a name, and where one does *)
CopyTypes == \A p \in Paths : cache[p] = Empty \/ IsFile(cache[p])
OwnCopies == \A p \in Paths : (\A c \in Changing : p \notin Changed(call[c])) => cache[p] \in {Empty, view[p]}
NoCopies ==
  \A c \in Changing : call[c].op # "rename" =>
    \A r \in Changed(call[c]) : cache[r] = Empty \/ (call[c].op = "unlink" /\ pc[c] = "cache" /\ r = call[c].path)
CopiesMove ==
  \A c \in Renames : LET e == call[c] IN
    \A r \in Paths : /\ Below(e.to, r) => cache[r] = Empty
                     /\ Below(e.path, r) /\ cache[r] # Empty =>
                          Moved(r, e.path, e.to) \in Paths /\ cache[r] = view[Moved(r, e.path, e.to)]

(* Where the copy of the file users see at p is, and its fsync entry *)
Under(c, p) == Below(call[c].to, p) /\ Moved(p, call[c].to, call[c].path) \in Paths
Old(c, p) == Moved(p, call[c].to, call[c].path)
CopyAt(p, y) ==
  \/ (\A c \in Renames : p \notin Changed(call[c])) /\ cache[p] = y
  \/ \E c \in Renames : Under(c, p) /\ cache[Old(c, p)] = y
Written == IF phase = "queue" THEN todo ELSE journal
EntryAt(q) == \E i \in 1..Len(Written) : IsFsync(Written[i]) /\ Written[i].path = q
EntryFor(p) ==
  \/ (\A c \in Renames : p \notin Changed(call[c]) \/ pc[c] = "cache") /\ EntryAt(p)
  \/ \E c \in Renames : pc[c] = "append" /\ Under(c, p) /\ EntryAt(Old(c, p))
WritingOf(p) == \E c \in Underway : IsFsync(call[c]) /\ call[c].path = p

(* What the replay does not bring to the target has its copy, and an entry, a
   queued write-back or a write under way will bring it. *)
Held == \A p \in Paths : IsFile(view[p]) => Result[p] = view[p] \/ CopyAt(p, view[p])
Brought ==
  \A p \in Paths : IsFile(view[p]) =>
    Result[p] = view[p] \/ view[p].node \in pending \/ EntryFor(p) \/ WritingOf(p)
Owed == Held /\ (EntriesSuffice => Brought)

(* A file to be written back is on the target under the name users see. *)
PendingThere ==
  \A p \in Paths : view[p].node \in pending =>
    target[p].node = view[p].node /\ \A c \in Changing : p \notin Changed(call[c])

(* The inductive invariant *)
Inv == /\ Typing /\ CallState /\ Apart /\ Phases
       /\ Fits /\ Leads /\ Fresh /\ MakesOnce
       /\ Effects /\ CopyTypes /\ OwnCopies /\ NoCopies /\ CopiesMove
       /\ Owed /\ PendingThere

-----------------------------------------------------------------------------
(* What a state of that form is made of *)

Formed ==
  /\ view \in Namespaces /\ target \in Namespaces /\ Unapplied \in Seq(Ents)
  /\ Base \in Namespaces /\ Result \in Namespaces
  /\ Promised \in SUBSET Updates /\ AllApart(Promised)
  /\ \A c \in Underway : c \in Clients /\ pc[c] \in {"append", "cache"} /\ call[c] \in Ents /\ call[c].path \in Paths
  /\ \A c \in Changing : c \in Underway /\ call[c] \in Updates
  /\ ToAppend \subseteq Changing /\ Renames \subseteq Changing
  /\ \A c, d \in Changing : c # d => /\ Changed(call[c]) \cap Reads(call[d]) = {}
                                     /\ Changed(call[c]) \cap Changed(call[d]) = {}
  /\ \A c \in ToAppend : \A p \in Changed(call[c]) : Result[p] = Do(Base, call[c])[p]
  /\ \A p \in Paths : (\A c \in ToAppend : p \notin Changed(call[c])) => Result[p] = Base[p]

LEMMA Forms == Typing /\ CallState /\ Apart => Formed
<1> SUFFICES ASSUME Typing, CallState, Apart PROVE Formed
  OBVIOUS
<1>1. view \in Namespaces /\ target \in Namespaces /\ Unapplied \in Seq(Ents)
  BY WellFormedParts DEF Typing, Unapplied
<1>2. Base \in Namespaces
  BY <1>1, RunForms DEF Base
<1>3. ASSUME NEW c \in Underway
      PROVE  c \in Clients /\ pc[c] \in {"append", "cache"} /\ call[c] \in Ents /\ call[c].path \in Paths
  <2>1. c \in Clients /\ pc[c] # "idle" /\ pc[c] \in {"idle", "append", "cache"} /\ call[c] \in Ents \cup {Quiet} /\ call[c] # Quiet
    BY DEF Underway, Typing, CallState
  <2>2. IsFsync(call[c]) => call[c].path \in Paths
    BY <2>1 DEF CallState
  <2>3. ~IsFsync(call[c]) => call[c].path \in Paths
    BY <2>1 DEF Ents, Proper, IsFsync
  <2> QED BY <2>1, <2>2, <2>3
<1>4. \A c \in Changing : c \in Underway /\ call[c] \in Updates
  BY <1>3 DEF Changing, Updates
<1>5. ToAppend \subseteq Changing /\ Renames \subseteq Changing
  BY DEF ToAppend, Changing, Renames, IsUpdate
<1>6. \A c, d \in Changing : c # d => ~Conflict(call[c], call[d])
  BY <1>4 DEF Apart
<1>7. \A c, d \in Changing : c # d => /\ Changed(call[c]) \cap Reads(call[d]) = {}
                                      /\ Changed(call[c]) \cap Changed(call[d]) = {}
  <2> SUFFICES ASSUME NEW c \in Changing, NEW d \in Changing, c # d
               PROVE  Changed(call[c]) \cap Reads(call[d]) = {} /\ Changed(call[c]) \cap Changed(call[d]) = {}
    OBVIOUS
  <2>1. call[c] \in Updates /\ call[d] \in Updates /\ ~Conflict(call[c], call[d])
    BY <1>4, <1>6
  <2> QED BY <2>1, NoConflict, ReadsForms
<1>8. Promised \in SUBSET Updates /\ AllApart(Promised)
  BY <1>4, <1>5, <1>6 DEF Promised, AllApart
<1>9. Result \in Namespaces
  BY <1>2, <1>8, MergeForms DEF Result
<1>10. ASSUME NEW c \in ToAppend, NEW p \in Changed(call[c]) PROVE Result[p] = Do(Base, call[c])[p]
  <2>1. call[c] \in Promised
    BY DEF Promised
  <2> QED BY <1>2, <1>8, <2>1, MergeForms DEF Result
<1>11. ASSUME NEW p \in Paths, \A c \in ToAppend : p \notin Changed(call[c]) PROVE Result[p] = Base[p]
  <2>1. \A e \in Promised : p \notin Changed(e)
    BY <1>11 DEF Promised
  <2> QED BY <1>2, <1>8, <2>1, MergeForms DEF Result
<1> QED BY <1>1, <1>2, <1>3, <1>4, <1>5, <1>7, <1>8, <1>9, <1>10, <1>11 DEF Formed

LEMMA InvForms == Inv => Formed
  BY Forms DEF Inv

(* Where no call has changes to promise, the replay gives the names users see. *)
LEMMA LeadsAt ==
  ASSUME Inv, NEW p \in Paths
  PROVE  Result[p].node = view[p].node
  BY DEF Inv, Leads, Agree

(* A journal replayed to the end of a run is one the calls can be replayed after,
   in any order. *)
LEMMA ReplayedIsResult ==
  ASSUME Inv
  PROVE  Replayed = Result
<1> DEFINE s == SetToSeq(Promised)
<1>1. Formed
  BY InvForms
<1>2. IsFiniteSet(Promised)
  <2>1. IsFiniteSet(ToAppend)
    <3>1. ToAppend \subseteq Clients
      BY <1>1 DEF Formed
    <3> QED BY <3>1, BoundsAssumption, FS_Subset
  <2> DEFINE f == [c \in ToAppend |-> call[c]]
  <2>2. f \in [ToAppend -> Promised] /\ \A e \in Promised : \E c \in ToAppend : f[c] = e
    BY DEF Promised
  <2>3. f \in Surjection(ToAppend, Promised)
    BY <2>2, Zenon DEF Surjection
  <2> HIDE DEF f
  <2> QED BY <2>1, <2>3, FS_Surjection
<1>3. /\ s \in Seq(Promised)
      /\ \A i, j \in 1..Len(s) : s[i] = s[j] => i = j
      /\ \A e \in Promised : \E i \in 1..Len(s) : s[i] = e
  BY <1>2, SetToSeqForms
<1>4. Replayed = Final(target, Unapplied \o s)
  BY DEF Replayed, Promised
<1> HIDE DEF s
<1>5. s \in Seq(Ents) /\ \A i \in 1..Len(s) : s[i] \in Promised
  <2>1. \A i \in 1..Len(s) : s[i] \in Promised
    BY <1>3, ElementOfSeq
  <2>2. Promised \subseteq Ents
    BY <1>1 DEF Formed, Updates
  <2> QED BY <1>3, <2>1, <2>2
<1>6. Final(target, Unapplied \o s) = Final(Base, s)
  BY <1>1, <1>5, FinalCat DEF Formed, Base
<1>7. \A e \in Promised : Possible(Base, e)
  BY DEF Inv, Fits
<1>8. Final(Base, s) = Merge(Base, Promised)
  BY <1>1, <1>3, <1>5, <1>7, RunMerge DEF Formed
<1> QED BY <1>4, <1>6, <1>8 DEF Result

-----------------------------------------------------------------------------
(* Steps that leave the calls alone *)

LEMMA CallsKept ==
  ASSUME Inv, UNCHANGED <<call, pc>>
  PROVE  /\ CallState' /\ Apart'
         /\ Underway' = Underway /\ Changing' = Changing /\ Renames' = Renames
         /\ ToAppend' = ToAppend /\ Promised' = Promised
<1>1. Underway' = Underway
  BY DEF Underway
<1>2. Changing' = Changing /\ Renames' = Renames /\ ToAppend' = ToAppend
  BY <1>1 DEF Changing, Renames, ToAppend
<1>3. Promised' = Promised
  BY <1>2 DEF Promised
<1>4. CallState' /\ Apart'
  BY <1>1, <1>2 DEF Inv, CallState, Apart
<1> QED BY <1>1, <1>2, <1>3, <1>4

LEMMA ClientsKept ==
  ASSUME Inv, UNCHANGED <<view, cache, call, pc>>
  PROVE  /\ CallState' /\ Apart' /\ Effects' /\ CopyTypes' /\ OwnCopies' /\ NoCopies' /\ CopiesMove'
         /\ Underway' = Underway /\ Changing' = Changing /\ Renames' = Renames
         /\ ToAppend' = ToAppend /\ Promised' = Promised
<1>1. Changing' = Changing /\ Renames' = Renames
  BY CallsKept
<1>2. Effects' /\ CopyTypes' /\ OwnCopies'
  BY <1>1 DEF Inv, Effects, CopyTypes, OwnCopies
<1>3. NoCopies' /\ CopiesMove'
  BY <1>1 DEF Inv, NoCopies, CopiesMove
<1> QED BY <1>2, <1>3, CallsKept

LEMMA ResultKept ==
  ASSUME Inv, UNCHANGED <<view, call, pc>>, Base' = Base
  PROVE  Fits' /\ Leads' /\ Result' = Result
<1>1. Promised' = Promised
  BY CallsKept
<1>2. Result' = Result
  BY <1>1 DEF Result
<1>3. Fits' /\ Leads'
  BY <1>1, <1>2 DEF Inv, Fits, Leads, Agree
<1> QED BY <1>2, <1>3

LEMMA OwedStays ==
  ASSUME Inv, UNCHANGED <<view, cache, call, pc>>,
         \A p \in Paths : IsFile(view[p]) =>
           Result'[p] = view[p] \/ (Result[p] # view[p] /\ (view[p].node \in pending => view[p].node \in pending')),
         \A q \in Paths : EntryAt(q) => EntryAt(q)'
  PROVE  Owed'
<1>1. Renames' = Renames /\ Underway' = Underway
  BY ClientsKept
<1>2. \A c, p : Under(c, p)' = Under(c, p) /\ Old(c, p)' = Old(c, p)
  BY DEF Under, Old
<1>3. \A p \in Paths : CopyAt(p, view[p]) => CopyAt(p, view[p])'
  BY <1>1, <1>2 DEF CopyAt
<1>4. \A p \in Paths : EntryFor(p) => EntryFor(p)'
  BY <1>1, <1>2 DEF EntryFor, Under, Old
<1>5. \A p \in Paths : WritingOf(p) => WritingOf(p)'
  BY <1>1 DEF WritingOf
<1> QED BY <1>3, <1>4, <1>5 DEF Inv, Owed, Held, Brought

LEMMA OwedKept ==
  ASSUME Inv, UNCHANGED <<view, cache, call, pc>>, Result' = Result, pending \subseteq pending',
         \A q \in Paths : EntryAt(q) => EntryAt(q)'
  PROVE  Owed'
  BY OwedStays

(* ... or the namespaces and what is to be replayed *)
LEMMA ReplayKept ==
  ASSUME Inv, UNCHANGED <<view, cache, target, pending, call, pc>>, Typing', Phases',
         Unapplied' = Unapplied, Written' = Written
  PROVE  Inv'
<1>1. Base' = Base
  BY DEF Base
<1>2. Fits' /\ Leads' /\ Result' = Result
  BY <1>1, ResultKept
<1>3. Promised' = Promised /\ Changing' = Changing
  BY ClientsKept
<1>4. Fresh' /\ MakesOnce'
  BY <1>3 DEF Inv, Fresh, MakesOnce
<1>5. Owed'
  <2>1. \A q \in Paths : EntryAt(q) => EntryAt(q)'
    BY DEF EntryAt
  <2> QED BY <1>2, <2>1, OwedKept
<1>6. PendingThere'
  BY <1>3 DEF Inv, PendingThere
<1> QED BY <1>2, <1>4, <1>5, <1>6, ClientsKept DEF Inv

LEMMA OpenKeeps ==
  ASSUME Inv, NEW n \in Nodes, Open(n) \/ Close(n)
  PROVE  Inv'
<1>1. UNCHANGED <<view, cache, target, journal, phase, todo, pending, applies, call, pc, calls>>
  BY DEF Open, Close, dirs, apply, client
<1>2. Typing' /\ Phases'
  <2>1. open' \subseteq Nodes /\ dirty' \subseteq Nodes
    BY DEF Inv, Typing, Open, Close
  <2> QED BY <1>1, <2>1, ClientsKept DEF Inv, Typing, Phases
<1>3. Unapplied' = Unapplied /\ Written' = Written
  BY <1>1 DEF Unapplied, Written
<1> QED BY <1>1, <1>2, <1>3, ReplayKept

LEMMA ApplyStartKeeps ==
  ASSUME Inv, FilesStay, ApplyStart
  PROVE  Inv'
<1>1. UNCHANGED <<view, cache, target, journal, pending, open, dirty, call, pc, calls>>
  BY DEF ApplyStart, dirs, files, client
<1>2. phase = "idle" /\ phase' = "update" /\ todo' = journal
  BY DEF ApplyStart
<1>3. Typing' /\ Phases'
  <2>1. applies' \in 0..MaxApplies
    BY BoundsAssumption DEF ApplyStart, Inv, Typing
  <2>2. Renames = {}
    BY DEF ApplyStart, FilesStay, Renaming, Renames
  <2>3. Renames' = Renames
    BY <1>1, ClientsKept
  <2>4. pending = {}
    BY <1>2 DEF Inv, Phases
  <2> QED BY <1>1, <1>2, <2>1, <2>2, <2>3, <2>4 DEF Inv, Typing, Phases
<1>4. Unapplied' = Unapplied /\ Written' = Written
  BY <1>1, <1>2 DEF Unapplied, Written
<1> QED BY <1>1, <1>3, <1>4, ReplayKept

LEMMA ApplyRenameKeeps ==
  ASSUME Inv, ApplyRename
  PROVE  Inv'
<1>1. UNCHANGED <<view, cache, target, pending, applies, open, dirty, call, pc, calls>>
  BY DEF ApplyRename, dirs, files, client
<1>2. phase = "update" /\ todo = <<>> /\ phase' = "queue" /\ todo' = journal /\ journal' = <<>>
  BY DEF ApplyRename
<1>3. Typing' /\ Phases'
  <2>1. Renames' = Renames /\ Renames = {} /\ pending = {}
    BY <1>1, <1>2, ClientsKept DEF Inv, Phases
  <2>2. <<>> \in Seq(Ents)
    OBVIOUS
  <2> QED BY <1>1, <1>2, <2>1, <2>2 DEF Inv, Typing, Phases
<1>4. Unapplied' = Unapplied /\ Written' = Written
  BY <1>1, <1>2 DEF Unapplied, Written
<1> QED BY <1>1, <1>3, <1>4, ReplayKept

LEMMA ApplyEndKeeps ==
  ASSUME Inv, ApplyEnd
  PROVE  Inv'
<1>1. UNCHANGED <<view, cache, target, journal, todo, pending, applies, open, dirty, call, pc, calls>>
  BY DEF ApplyEnd, dirs, files, client
<1>2. phase = "queue" /\ todo = <<>> /\ phase' = (IF pending = {} THEN "idle" ELSE "sync") /\ journal = <<>>
  BY DEF ApplyEnd, Ended, Inv, Phases
<1>3. Typing' /\ Phases'
  BY <1>1, <1>2 DEF Inv, Typing, Phases
<1>4. Unapplied' = Unapplied /\ Written' = Written
  BY <1>1, <1>2 DEF Unapplied, Written
<1> QED BY <1>1, <1>3, <1>4, ReplayKept

-----------------------------------------------------------------------------
(* The changes of names on the target: what is left to replay leads where it
   did. *)

LEMMA ApplyUpdateKeeps ==
  ASSUME Inv, ApplyUpdate
  PROVE  Inv'
<1> DEFINE e == Head(todo)
<1>1. UNCHANGED <<view, cache, journal, phase, pending, applies, open, dirty, call, pc, calls>>
  BY DEF ApplyUpdate, files, client
<1>2. phase = "update" /\ todo # <<>> /\ todo' = Tail(todo) /\ target' = ApplyEntry(target, e)
  BY DEF ApplyUpdate
<1>3. todo \in Seq(Ents) /\ target \in Namespaces /\ WellFormed(target)
  BY WellFormedParts DEF Inv, Typing
<1>4. /\ e \in Ents /\ Tail(todo) \in Seq(Ents)
      /\ Final(ApplyEntry(target, e), Tail(todo)) = Final(target, todo)
  BY <1>2, <1>3, RunTail
<1>5. /\ Len(todo) \in Nat /\ Len(todo) >= 1 /\ todo[1] = e
      /\ Len(Tail(todo)) = Len(todo) - 1
      /\ \A i \in 1..Len(Tail(todo)) : i + 1 \in 1..Len(todo) /\ i + 1 # 1 /\ Tail(todo)[i] = todo[i + 1]
  BY <1>2, <1>3, HeadTailProperties, LenProperties, EmptySeq
<1>6. \A i \in 1..Len(todo) : todo[i] \in Ents
  BY <1>3, ElementOfSeq
<1>7. Unapplied = todo /\ Unapplied' = Tail(todo)
  BY <1>1, <1>2 DEF Unapplied
<1>8. e.op = "mknod" => Absent(e.node, target)
  BY <1>5, <1>7 DEF Inv, Fresh
<1> HIDE DEF e
<1>9. target' = target \/ (e \in Updates /\ Possible(target, e) /\ target' = Do(target, e))
  BY <1>2, <1>3, <1>4, ApplyForms
<1>10. WellFormed(target')
  BY <1>3, <1>8, <1>9, DoWellFormed
<1>11. Typing' /\ Phases'
  <2>1. Renames' = Renames
    BY <1>1, ClientsKept
  <2> QED BY <1>1, <1>2, <1>4, <1>10, <2>1 DEF Inv, Typing, Phases
<1>12. Base' = Base
  BY <1>2, <1>4, <1>7 DEF Base
<1>13. Fits' /\ Leads' /\ Result' = Result
  BY <1>1, <1>12, ResultKept
<1>14. Promised' = Promised /\ Changing' = Changing
  BY <1>1, ClientsKept
<1>15. ASSUME NEW n \in Nodes, Absent(n, target), e.op = "mknod" => e.node # n PROVE Absent(n, target')
  BY <1>3, <1>9, <1>15, DoAbsent
<1>16. Fresh'
  <2>1. ASSUME NEW i \in 1..Len(Tail(todo)), Tail(todo)[i].op = "mknod" PROVE Absent(Tail(todo)[i].node, target')
    <3>1. Tail(todo)[i] = todo[i + 1] /\ i + 1 \in 1..Len(todo) /\ todo[i + 1] \in Ents /\ 1 \in 1..Len(todo)
      BY <1>5, <1>6
    <3>2. todo[i + 1].node \in Nodes
      BY <2>1, <3>1 DEF Ents, Proper
    <3>3. Absent(todo[i + 1].node, target)
      BY <1>7, <2>1, <3>1 DEF Inv, Fresh
    <3>4. e.op = "mknod" => e.node # todo[i + 1].node
      BY <1>5, <1>7, <2>1, <3>1 DEF Inv, MakesOnce
    <3> QED BY <1>15, <3>1, <3>2, <3>3, <3>4
  <2>2. ASSUME NEW f \in Promised, f.op = "mknod" PROVE Absent(f.node, target')
    <3>1. f.node \in Nodes
      BY <2>2, InvForms, EntForms DEF Formed
    <3>2. Absent(f.node, target)
      BY <2>2 DEF Inv, Fresh
    <3>3. e.op = "mknod" => e.node # f.node
      BY <1>5, <1>7, <2>2 DEF Inv, MakesOnce
    <3> QED BY <1>15, <3>1, <3>2, <3>3
  <2> QED BY <1>7, <1>14, <2>1, <2>2 DEF Fresh
<1>17. MakesOnce'
  <2>1. \A i, j \in 1..Len(todo) : todo[i].op = "mknod" /\ todo[j].op = "mknod" /\ i # j => todo[i].node # todo[j].node
    BY <1>7 DEF Inv, MakesOnce
  <2>2. ASSUME NEW i \in 1..Len(Tail(todo)), NEW j \in 1..Len(Tail(todo)),
               Tail(todo)[i].op = "mknod", Tail(todo)[j].op = "mknod", i # j
        PROVE  Tail(todo)[i].node # Tail(todo)[j].node
    <3>1. /\ i + 1 \in 1..Len(todo) /\ Tail(todo)[i] = todo[i + 1]
          /\ j + 1 \in 1..Len(todo) /\ Tail(todo)[j] = todo[j + 1]
      BY <1>5
    <3>2. i + 1 # j + 1
      BY <2>2
    <3> QED BY <2>1, <2>2, <3>1, <3>2
  <2>3. \A f \in Promised, j \in 1..Len(Tail(todo)) :
          f.op = "mknod" /\ Tail(todo)[j].op = "mknod" => f.node # Tail(todo)[j].node
    BY <1>5, <1>7 DEF Inv, MakesOnce
  <2> QED BY <1>7, <1>14, <2>2, <2>3 DEF Inv, MakesOnce
<1>18. Owed'
  <2>1. \A q \in Paths : EntryAt(q) => EntryAt(q)'
    BY <1>1, <1>2 DEF EntryAt, Written
  <2> QED BY <1>1, <1>13, <2>1, OwedKept
<1>19. PendingThere'
  BY <1>1, <1>2 DEF Inv, PendingThere, Phases
<1> QED BY <1>1, <1>11, <1>13, <1>16, <1>17, <1>18, <1>19, ClientsKept DEF Inv

-----------------------------------------------------------------------------
(* The write-backs: the file an fsync entry names is the one that was written. *)

(* A file with a copy and without a rename over it is changed by no call. *)
LEMMA CopyUnchanged ==
  ASSUME Inv, NEW p \in Paths, IsFile(view[p]), cache[p].node # NONE, \A c \in Renames : p \notin Changed(call[c])
  PROVE  /\ \A c \in Changing : p \notin Changed(call[c])
         /\ cache[p] = view[p]
         /\ Result[p] = Base[p] /\ Base[p].node = view[p].node
<1>1. Formed
  BY InvForms
<1>2. ASSUME NEW c \in Changing, p \in Changed(call[c]) PROVE FALSE
  <2>1. call[c].op # "rename"
    BY <1>2 DEF Renames, Changing
  <2>2. cache[p] # Empty
    BY NodeForms
  <2>3. call[c].op = "unlink" /\ p = call[c].path
    BY <1>2, <2>1, <2>2 DEF Inv, NoCopies
  <2>4. view[p] = Empty
    BY <2>3 DEF Inv, Effects
  <2> QED BY <2>4, NodeForms
<1>3. \A c \in Changing : p \notin Changed(call[c])
  BY <1>2
<1>4. cache[p] = view[p]
  BY <1>3, NodeForms DEF Inv, OwnCopies
<1>5. Result[p] = Base[p]
  BY <1>1, <1>3 DEF Formed
<1> QED BY <1>3, <1>4, <1>5, LeadsAt

LEMMA ApplyFsyncKeeps ==
  ASSUME Inv, ApplyFsync
  PROVE  Inv'
<1> DEFINE e == Head(todo)
<1>1. UNCHANGED <<view, cache, target, journal, phase, applies, open, dirty, call, pc, calls>>
  BY DEF ApplyFsync, dirs, files, client
<1>2. /\ phase = "queue" /\ todo # <<>> /\ todo' = Tail(todo)
      /\ pending' = IF IsFsync(e) /\ Found(e) THEN pending \cup {view[e.path].node} ELSE pending
  BY DEF ApplyFsync
<1>3. todo \in Seq(Ents) /\ Unique(view)
  BY WellFormedParts DEF Inv, Typing
<1>4. /\ Tail(todo) \in Seq(Ents) /\ Len(Tail(todo)) = Len(todo) - 1 /\ Len(todo) \in Nat
      /\ \A i \in 1..Len(todo) : \/ i = 1 /\ todo[i] = e
                                 \/ i - 1 \in 1..Len(Tail(todo)) /\ Tail(todo)[i - 1] = todo[i]
  BY <1>2, <1>3, HeadTailProperties, LenProperties, EmptySeq
<1> HIDE DEF e
<1>5. Renames = {} /\ Renames' = {} /\ Changing' = Changing /\ Promised' = Promised
  BY <1>1, <1>2, ClientsKept DEF Inv, Phases
<1>6. Typing' /\ Phases'
  <2>1. pending' \subseteq Nodes
    BY <1>2 DEF Found, IsFile, Inv, Typing
  <2> QED BY <1>1, <1>2, <1>4, <1>5, <2>1 DEF Inv, Typing, Phases
<1>7. Unapplied' = Unapplied /\ Base' = Base
  BY <1>1, <1>2 DEF Unapplied, Base
<1>8. Fits' /\ Leads' /\ Result' = Result
  BY <1>1, <1>7, ResultKept
<1>9. Fresh' /\ MakesOnce'
  BY <1>1, <1>5, <1>7 DEF Inv, Fresh, MakesOnce
<1>10. Owed'
  <2> SUFFICES ASSUME NEW p \in Paths, IsFile(view[p]), Result[p] # view[p]
               PROVE  /\ CopyAt(p, view[p])'
                      /\ EntriesSuffice => view[p].node \in pending' \/ EntryFor(p)' \/ WritingOf(p)'
    BY <1>1, <1>8 DEF Owed, Held, Brought
  <2>1. CopyAt(p, view[p]) /\ (EntriesSuffice => view[p].node \in pending \/ EntryFor(p) \/ WritingOf(p))
    BY DEF Inv, Owed, Held, Brought
  <2>2. cache[p] = view[p] /\ CopyAt(p, view[p])'
    BY <1>1, <1>5, <2>1 DEF CopyAt
  <2>3. WritingOf(p) => WritingOf(p)'
    BY <1>1 DEF WritingOf, Underway
  <2>4. view[p].node \in pending => view[p].node \in pending'
    BY <1>2
  <2>5. ASSUME EntryFor(p) PROVE view[p].node \in pending' \/ EntryFor(p)'
    <3>1. PICK i \in 1..Len(todo) : IsFsync(todo[i]) /\ todo[i].path = p
      BY <1>2, <1>5, <2>5 DEF EntryFor, EntryAt, Written
    <3>2. CASE todo[i] = e
      BY <1>2, <2>2, <3>1, <3>2, NodesAssumption DEF Found, IsFile
    <3>3. CASE i - 1 \in 1..Len(Tail(todo)) /\ Tail(todo)[i - 1] = todo[i]
      <4>1. EntryAt(p)'
        BY <1>1, <1>2, <3>1, <3>3 DEF EntryAt, Written
      <4> QED BY <1>5, <4>1 DEF EntryFor
    <3> QED BY <1>4, <3>2, <3>3
  <2> QED BY <2>1, <2>2, <2>3, <2>4, <2>5
<1>11. PendingThere'
  <2> SUFFICES ASSUME NEW p \in Paths, view[p].node \in pending'
               PROVE  target[p].node = view[p].node /\ \A c \in Changing : p \notin Changed(call[c])
    BY <1>1, <1>5 DEF PendingThere
  <2>1. CASE view[p].node \in pending
    BY <2>1 DEF Inv, PendingThere
  <2>2. CASE Found(e) /\ view[p].node = view[e.path].node
    <3>1. e.path \in Paths /\ cache[e.path].node # NONE /\ IsFile(view[e.path])
      BY <2>2 DEF Found
    <3>2. p = e.path
      BY <1>3, <2>2, <3>1 DEF Unique, IsFile
    <3>3. Base[p].node = view[p].node /\ \A c \in Changing : p \notin Changed(call[c])
      BY <1>5, <3>1, <3>2, CopyUnchanged
    <3>4. Base = target
      <4>1. Unapplied = <<>>
        BY <1>2 DEF Unapplied, Inv, Phases
      <4> QED BY <4>1, InvForms, FinalEmpty DEF Base, Formed
    <3> QED BY <3>3, <3>4
  <2> QED BY <1>2, <2>1, <2>2
<1> QED BY <1>1, <1>6, <1>8, <1>9, <1>10, <1>11, ClientsKept DEF Inv

-----------------------------------------------------------------------------
(* The data a replay leaves in a file is what the target has of it. *)

Carried ==
  \A q \in Paths : IsFile(Result[q]) =>
    /\ \A r \in Paths : target[r].node = Result[q].node => Result[q] = target[r]
    /\ Absent(Result[q].node, target) => Result[q] = File(Result[q].node)

LEMMA DataIsCarried == Typing /\ CallState /\ Apart /\ Fresh => Carried
<1> SUFFICES ASSUME Typing, CallState, Apart, Fresh PROVE Carried
  OBVIOUS
<1> DEFINE K == {target[r] : r \in Paths} \cup {File(m) : m \in {k \in Nodes : Absent(k, target)}}
<1>1. Formed
  BY Forms
<1>2. Known(target, K)
  BY DEF Known
<1>3. \A i \in 1..Len(Unapplied) : Unapplied[i] \in Ents
  BY <1>1, ElementOfSeq DEF Formed
<1>4. \A i \in 1..Len(Unapplied) : Makes(Unapplied[i], K)
  <2> SUFFICES ASSUME NEW i \in 1..Len(Unapplied), Unapplied[i].op = "mknod"
               PROVE  File(Unapplied[i].node) \in K
    BY DEF Makes
  <2>1. Unapplied[i].node \in Nodes
    BY <1>3 DEF Ents, Proper
  <2>2. Absent(Unapplied[i].node, target)
    BY DEF Fresh
  <2> QED BY <2>1, <2>2
<1>5. \A e \in Promised : Makes(e, K)
  <2> SUFFICES ASSUME NEW e \in Promised, e.op = "mknod" PROVE File(e.node) \in K
    BY DEF Makes
  <2>1. e.node \in Nodes
    BY <1>1, EntForms DEF Formed
  <2>2. Absent(e.node, target)
    BY DEF Fresh
  <2> QED BY <2>1, <2>2
<1> HIDE DEF K
<1>6. Known(Base, K)
  BY <1>1, <1>2, <1>4, RunKnown DEF Formed, Base
<1>7. Known(Result, K)
  BY <1>1, <1>5, <1>6, MergeKnown DEF Formed, Result
<1>8. ASSUME NEW q \in Paths, IsFile(Result[q])
      PROVE  \/ \E r \in Paths : Result[q] = target[r]
             \/ Result[q] = File(Result[q].node) /\ Absent(Result[q].node, target)
  <2>1. Result[q] \in K
    BY <1>7, <1>8 DEF Known
  <2>2. \A m \in Nodes : File(m).node = m
    BY NodeForms
  <2> QED BY <2>1, <2>2 DEF K
<1>9. Unique(target)
  BY WellFormedParts DEF Typing
<1>10. ASSUME NEW q \in Paths, IsFile(Result[q])
       PROVE  /\ \A r \in Paths : target[r].node = Result[q].node => Result[q] = target[r]
              /\ Absent(Result[q].node, target) => Result[q] = File(Result[q].node)
  BY <1>8, <1>9, <1>10 DEF Absent, Unique
<1> QED BY <1>10 DEF Carried

LEMMA PathOfForm ==
  ASSUME NEW n, InView(n)
  PROVE  PathOf(n) \in Paths /\ view[PathOf(n)].node = n
  BY DEF PathOf, InView

LEMMA WriteBackKeeps ==
  ASSUME Inv, NEW n \in Nodes, WriteBack(n)
  PROVE  Inv'
<1> DEFINE p == PathOf(n)
<1>1. UNCHANGED <<view, cache, journal, todo, applies, open, call, pc, calls>>
  BY DEF WriteBack, client
<1>2. /\ n \in pending /\ phase = "sync" /\ pending' = pending \ {n}
      /\ phase' = (IF pending \ {n} = {} THEN "idle" ELSE "sync")
      /\ target' = IF IsFile(cache[p]) /\ IsFile(target[p]) THEN [target EXCEPT ![p] = cache[p]] ELSE target
      /\ InView(n)
  BY DEF WriteBack, Ended
<1>3. p \in Paths /\ view[p].node = n
  BY <1>2, PathOfForm
<1> HIDE DEF p
<1>4. /\ view \in Namespaces /\ target \in Namespaces /\ cache \in Namespaces /\ Unique(view) /\ Unique(target)
      /\ WellFormed(target)
  BY WellFormedParts DEF Inv, Typing
<1>5. target[p].node = n /\ \A c \in Changing : p \notin Changed(call[c])
  BY <1>2, <1>3 DEF Inv, PendingThere
<1>6. cache[p] \in {Empty, view[p]}
  BY <1>3, <1>5 DEF Inv, OwnCopies
<1>7. IsFile(view[p]) /\ IsFile(target[p]) /\ ~IsFile(Empty) /\ view[p] # Empty
  BY <1>3, <1>5, NodeForms DEF IsFile
<1>8. \/ cache[p] = view[p] /\ target' = [target EXCEPT ![p] = view[p]]
      \/ cache[p] = Empty /\ target' = target
  BY <1>2, <1>6, <1>7
<1>9. /\ \A q \in Paths : target'[q].node = target[q].node /\ (q # p => target'[q] = target[q])
      /\ target' \in Namespaces
  BY <1>3, <1>4, <1>5, <1>8 DEF Namespaces
<1>10. Agree(target, target', Paths)
  BY <1>9 DEF Agree
<1>11. WellFormed(target')
  <2>1. \A q \in Paths : ~IsFile(target[q]) => target'[q] = target[q]
    BY <1>7, <1>9
  <2> QED BY <1>4, <1>9, <1>10, <2>1, SameWellFormed
<1>12. Renames' = Renames /\ Changing' = Changing /\ Promised' = Promised
  BY <1>1, ClientsKept
<1>13. Typing' /\ Phases'
  <2>1. dirty' \subseteq Nodes
    BY DEF WriteBack, Inv, Typing
  <2> QED BY <1>1, <1>2, <1>11, <1>12, <2>1 DEF Inv, Typing, Phases
<1>14. Unapplied' = Unapplied /\ Written' = Written /\ Unapplied = journal
  BY <1>1, <1>2 DEF Unapplied, Written
<1>15. Formed
  BY InvForms
<1>16. Agree(Base, Base', Paths) /\ Base' \in Namespaces
  BY <1>4, <1>9, <1>10, <1>14, <1>15, RunNames, RunForms DEF Base, Formed
<1>17. Agree(Result, Result', Paths) /\ \A e \in Promised : Possible(Base', e)
  <2>1. Agree(Merge(Base, Promised), Merge(Base', Promised), Paths) /\ \A e \in Promised : Possible(Base, e) <=> Possible(Base', e)
    BY <1>15, <1>16, MergeNames DEF Formed
  <2> QED BY <1>12, <2>1 DEF Inv, Fits, Result
<1>18. Fits' /\ Leads'
  BY <1>1, <1>12, <1>17 DEF Inv, Fits, Leads, Agree
<1>19. Fresh'
  BY <1>10, <1>12, <1>14, SameAbsent DEF Inv, Fresh
<1>20. MakesOnce'
  BY <1>12, <1>14 DEF Inv, MakesOnce
<1>21. CallState' /\ Apart' /\ Effects' /\ CopyTypes' /\ OwnCopies' /\ NoCopies' /\ CopiesMove'
  BY <1>1, ClientsKept
<1>22. Carried /\ Carried'
  <2>1. Carried
    BY DataIsCarried DEF Inv
  <2>2. Carried'
    BY <1>13, <1>19, <1>21, DataIsCarried, PTL
  <2> QED BY <2>1, <2>2
<1>23. ASSUME NEW q \in Paths, IsFile(view[q])
       PROVE  Result'[q] = view[q] \/ (Result[q] # view[q] /\ (view[q].node \in pending => view[q].node \in pending'))
  <2>1. Result'[q].node = view[q].node /\ Result[q].node = view[q].node
    BY <1>17, LeadsAt DEF Agree
  <2>2. IsFile(Result'[q]) /\ IsFile(Result[q])
    BY <1>23, <2>1 DEF IsFile
  <2>3. /\ \A r \in Paths : target[r].node = view[q].node => Result[q] = target[r]
        /\ Absent(view[q].node, target) => Result[q] = File(view[q].node)
    BY <1>22, <2>1, <2>2 DEF Carried
  <2>4. /\ \A r \in Paths : target'[r].node = view[q].node => Result'[q] = target'[r]
        /\ Absent(view[q].node, target') => Result'[q] = File(view[q].node)
    BY <1>22, <2>1, <2>2 DEF Carried
  <2>5. CASE q = p
    <3>1. CASE cache[p] = view[p] /\ target' = [target EXCEPT ![p] = view[p]]
      <4>1. target'[p] = view[p]
        BY <1>3, <1>4, <3>1 DEF Namespaces
      <4> QED BY <1>3, <2>4, <2>5, <4>1
    <3>2. CASE cache[p] = Empty /\ target' = target
      <4>1. ~CopyAt(p, view[p])
        <5>1. Renames \subseteq Changing
          BY <1>15 DEF Formed
        <5>2. \A c \in Renames : ~Under(c, p)
          <6>1. \A c \in Renames : call[c] \in Updates /\ call[c].op = "rename"
            BY <1>15, <5>1 DEF Formed, Renames
          <6> QED BY <1>3, <1>5, <5>1, <6>1, ReadsForms DEF Under
        <5> QED BY <1>7, <3>2, <5>2 DEF CopyAt
      <4>2. Result[p] = view[p]
        BY <1>3, <1>7, <4>1 DEF Inv, Owed, Held
      <4>3. Result' = Result
        BY <1>12, <1>14, <3>2 DEF Result, Base
      <4> QED BY <2>5, <4>2, <4>3
    <3> QED BY <1>8, <3>1, <3>2
  <2>6. CASE q # p
    <3>1. view[q].node # n
      BY <1>3, <1>4, <1>7, <2>6 DEF Unique
    <3>2. Result'[q] = Result[q]
      <4>1. CASE \E r \in Paths : target[r].node = view[q].node
        <5>1. PICK r \in Paths : target[r].node = view[q].node
          BY <4>1
        <5>2. r # p /\ target'[r] = target[r]
          BY <1>5, <1>9, <3>1, <5>1
        <5> QED BY <2>3, <2>4, <5>1, <5>2
      <4>2. CASE ~\E r \in Paths : target[r].node = view[q].node
        <5>1. Absent(view[q].node, target) /\ Absent(view[q].node, target')
          BY <1>9, <4>2 DEF Absent
        <5> QED BY <2>3, <2>4, <5>1
      <4> QED BY <4>1, <4>2
    <3> QED BY <1>2, <3>1, <3>2
  <2> QED BY <2>5, <2>6
<1>24. Owed'
  <2>1. \A q \in Paths : EntryAt(q) => EntryAt(q)'
    BY <1>14 DEF EntryAt
  <2> QED BY <1>1, <1>23, <2>1, OwedStays
<1>25. PendingThere'
  BY <1>1, <1>2, <1>9, <1>12 DEF Inv, PendingThere
<1> QED BY <1>13, <1>18, <1>19, <1>20, <1>21, <1>24, <1>25 DEF Inv

-----------------------------------------------------------------------------
(* Backups and writes *)

LEMMA RenameForms ==
  ASSUME Formed, NEW c \in Renames
  PROVE  /\ c \in Changing /\ call[c] \in Updates /\ call[c].op = "rename"
         /\ call[c].path \in Paths /\ call[c].to \in Paths
         /\ \A r \in Paths : Below(call[c].path, r) \/ Below(call[c].to, r) <=> r \in Changed(call[c])
<1>1. c \in Changing /\ call[c] \in Updates /\ call[c].op = "rename"
  BY DEF Formed, Renames
<1>2. call[c].path \in Paths /\ call[c].to \in Paths /\ Touched(call[c]) = {call[c].path, call[c].to}
  BY <1>1, EntForms
<1> QED BY <1>1, <1>2 DEF Changed

LEMMA UnderForms ==
  ASSUME Formed, NEW c \in Renames, NEW p \in Paths, Under(c, p)
  PROVE  /\ p \in Changed(call[c]) /\ Old(c, p) \in Paths /\ Old(c, p) \in Changed(call[c])
         /\ Below(call[c].path, Old(c, p)) /\ Moved(Old(c, p), call[c].path, call[c].to) = p
<1>1. Below(call[c].to, p) /\ Moved(p, call[c].to, call[c].path) \in Paths
  BY DEF Under
<1>2. Below(call[c].path, Moved(p, call[c].to, call[c].path)) /\ Moved(Moved(p, call[c].to, call[c].path), call[c].path, call[c].to) = p
  BY <1>1, RenameForms, MovedPath
<1> QED BY <1>1, <1>2, RenameForms DEF Old

LEMMA BackupKeeps ==
  ASSUME Inv, FilesStay, NEW p \in Paths, Backup(p)
  PROVE  Inv'
<1>1. UNCHANGED <<view, target, journal, phase, todo, pending, applies, open, dirty, call, pc, calls>>
  BY DEF Backup, apply, files, client
<1>2. /\ IsFile(view[p]) /\ cache[p].node = NONE /\ IsFile(target[p]) /\ target[p].node = view[p].node
      /\ cache' = [cache EXCEPT ![p] = target[p]]
  BY DEF Backup, FilesStay
<1>3. Formed
  BY InvForms
<1>4. \A c \in Changing : p \notin Changed(call[c])
  BY <1>3 DEF Backup, Changed, Formed
<1>5. ~\E c \in Renames : Under(c, p)
  BY <1>3, <1>4, UnderForms, RenameForms
<1>6. target[p] = view[p]
  <2>1. ~CopyAt(p, view[p])
    BY <1>2, <1>5, NodesAssumption DEF CopyAt, IsFile
  <2>2. Result[p] = view[p]
    BY <1>2, <2>1 DEF Inv, Owed, Held
  <2>3. Carried
    BY DataIsCarried DEF Inv
  <2> QED BY <1>2, <2>2, <2>3 DEF Carried
<1>7. cache' \in Namespaces /\ cache'[p] = view[p] /\ \A q \in Paths : q # p => cache'[q] = cache[q]
  BY <1>2, <1>3, <1>6 DEF Inv, Typing, Formed, Namespaces
<1>8. Typing' /\ Phases'
  <2>1. Renames' = Renames
    BY <1>1, CallsKept
  <2> QED BY <1>1, <1>7, <2>1 DEF Inv, Typing, Phases
<1>9. /\ CallState' /\ Apart' /\ Changing' = Changing /\ Renames' = Renames /\ Promised' = Promised
      /\ Underway' = Underway
  BY <1>1, CallsKept
<1>10. Effects'
  BY <1>1, <1>9 DEF Inv, Effects
<1>11. CopyTypes' /\ OwnCopies'
  BY <1>1, <1>2, <1>7, <1>9 DEF Inv, CopyTypes, OwnCopies
<1>12. NoCopies'
  <2>1. \A c \in Changing : \A r \in Changed(call[c]) : cache'[r] = cache[r]
    BY <1>4, <1>7 DEF Changed
  <2> QED BY <1>1, <1>9, <2>1 DEF Inv, NoCopies
<1>13. CopiesMove'
  <2>1. \A c \in Renames : \A r \in Paths : Below(call[c].path, r) \/ Below(call[c].to, r) => cache'[r] = cache[r]
    BY <1>3, <1>4, <1>7, RenameForms
  <2> QED BY <1>1, <1>9, <2>1 DEF Inv, CopiesMove
<1>14. Unapplied' = Unapplied /\ Written' = Written /\ Base' = Base
  BY <1>1 DEF Unapplied, Written, Base
<1>15. Fits' /\ Leads' /\ Result' = Result
  BY <1>1, <1>14, ResultKept
<1>16. Fresh' /\ MakesOnce'
  BY <1>1, <1>9, <1>14 DEF Inv, Fresh, MakesOnce
<1>17. Owed'
  <2>1. \A c, q : Under(c, q)' = Under(c, q) /\ Old(c, q)' = Old(c, q)
    BY <1>1 DEF Under, Old
  <2>2. ASSUME NEW q \in Paths, IsFile(view[q]), CopyAt(q, view[q]) PROVE CopyAt(q, view[q])'
    <3>1. CASE (\A c \in Renames : q \notin Changed(call[c])) /\ cache[q] = view[q]
      <4>1. q # p
        BY <1>2, <2>2, <3>1, NodesAssumption DEF IsFile
      <4> QED BY <1>1, <1>7, <1>9, <3>1, <4>1 DEF CopyAt
    <3>2. ASSUME NEW c \in Renames, Under(c, q), cache[Old(c, q)] = view[q] PROVE CopyAt(q, view[q])'
      <4>1. Old(c, q) \in Paths /\ Old(c, q) # p
        BY <1>3, <1>4, <3>2, UnderForms, RenameForms
      <4>2. cache'[Old(c, q)] = view[q]
        BY <1>7, <3>2, <4>1
      <4> QED BY <1>1, <1>9, <2>1, <3>2, <4>2 DEF CopyAt
    <3> QED BY <2>2, <3>1, <3>2 DEF CopyAt
  <2>3. \A q \in Paths : EntryFor(q) => EntryFor(q)'
    <3>1. \A q : EntryAt(q) => EntryAt(q)'
      BY <1>14 DEF EntryAt
    <3> QED BY <1>1, <1>9, <2>1, <3>1 DEF EntryFor, Under, Old
  <2>4. \A q \in Paths : WritingOf(q) => WritingOf(q)'
    BY <1>1, <1>9 DEF WritingOf
  <2> QED BY <1>1, <1>15, <2>2, <2>3, <2>4 DEF Inv, Owed, Held, Brought
<1>18. PendingThere'
  BY <1>1, <1>9 DEF Inv, PendingThere
<1> QED BY <1>8, <1>9, <1>10, <1>11, <1>12, <1>13, <1>15, <1>16, <1>17, <1>18 DEF Inv

LEMMA ConflictForms ==
  ASSUME NEW e, NEW g
  PROVE  /\ Conflict(e, g) <=> Conflict(g, e)
         /\ IsUpdate(g) /\ ~Conflict(e, g) => \A p \in Touched(e) : p \notin Changed(g)
<1>1. Conflict(e, g) <=> Conflict(g, e)
  BY DEF Conflict
<1>2. ASSUME IsUpdate(g), ~Conflict(e, g), NEW p \in Touched(e), p \in Changed(g) PROVE FALSE
  BY <1>2 DEF Conflict, Changed
<1> QED BY <1>1, <1>2

LEMMA WriteKeeps ==
  ASSUME Inv, NEW c \in Clients, NEW p \in Paths, Write(c, p)
  PROVE  Inv'
<1> DEFINE n == view[p].node
           e == Entry("fsync", p, LOST, n)
           y == [node |-> n, ver |-> view[p].ver + 1]
<1>1. UNCHANGED <<target, journal, phase, todo, pending, applies>>
  BY DEF Write, apply
<1>2. /\ IsFile(view[p]) /\ cache[p].node # NONE /\ view[p].ver < MaxVer
      /\ pc[c] = "idle" /\ calls < MaxCalls /\ calls' = calls + 1
      /\ \A d \in Underway : ~Conflict(e, call[d])
      /\ n \in dirty /\ EntriesSuffice => \E i \in DOMAIN journal : journal[i] = e
      /\ view' = [view EXCEPT ![p].ver = @ + 1]
      /\ cache' = [cache EXCEPT ![p].ver = view[p].ver + 1]
      /\ \/ n \in dirty /\ UNCHANGED <<open, dirty, pc, call>>
         \/ /\ n \notin dirty /\ dirty' = dirty \cup {n} /\ open' = open
            /\ pc' = [pc EXCEPT ![c] = "append"] /\ call' = [call EXCEPT ![c] = e]
  BY DEF Write, MayCall, Recorded, EntriesSuffice, Goto, files
<1>3. n \in Nodes /\ e \in Ents /\ IsFsync(e) /\ ~IsUpdate(e) /\ e.path = p /\ Touched(e) = {p} /\ e.op = "fsync" /\ e # Quiet
  BY <1>2 DEF IsFile, Entry, Ents, Proper, IsFsync, IsUpdate, Touched, Quiet
<1> HIDE DEF e
<1>4. Formed
  BY InvForms
<1>5. \A d \in Changing : p \notin Changed(call[d])
  <2>1. \A d \in Changing : d \in Underway /\ IsUpdate(call[d])
    BY DEF Changing
  <2> QED BY <1>2, <1>3, <2>1, ConflictForms
<1>6. cache[p] = view[p]
  BY <1>2, <1>5, NodeForms DEF Inv, OwnCopies
<1>7. view[p] \in Entries /\ y \in Entries /\ IsFile(y) /\ y.node = n
  BY <1>2, <1>3, <1>4, BoundsAssumption DEF Formed, Namespaces, Entries, IsFile
<1>8. /\ view' \in Namespaces /\ view'[p] = y /\ \A q \in Paths : q # p => view'[q] = view[q]
      /\ cache' \in Namespaces /\ cache'[p] = y /\ \A q \in Paths : q # p => cache'[q] = cache[q]
  <2>1. view \in Namespaces /\ cache \in Namespaces
    BY <1>4 DEF Formed, Inv, Typing
  <2>2. [view[p] EXCEPT !.ver = @ + 1] = y /\ [cache[p] EXCEPT !.ver = view[p].ver + 1] = y
    BY <1>6, <1>7 DEF Entries
  <2> HIDE DEF y
  <2>3. view' = [view EXCEPT ![p] = y] /\ cache' = [cache EXCEPT ![p] = y]
    BY <1>2, <2>2
  <2> QED BY <1>7, <2>1, <2>3 DEF Namespaces
<1> HIDE DEF y
<1>9. Agree(view, view', Paths)
  BY <1>7, <1>8 DEF Agree
<1>10. WellFormed(view')
  <2>1. \A q \in Paths : ~IsFile(view[q]) => view'[q] = view[q]
    BY <1>2, <1>8
  <2> QED BY <1>8, <1>9, <2>1, SameWellFormed DEF Inv, Typing
<1>11. pc \in [Clients -> {"idle", "append", "cache"}] /\ call \in [Clients -> Ents \cup {Quiet}]
  BY DEF Inv, Typing
<1>12. c \notin Underway /\ \A d \in Clients : d # c => call'[d] = call[d] /\ pc'[d] = pc[d]
  BY <1>2, <1>11 DEF Underway
<1>13. \/ call'[c] = call[c] /\ pc'[c] = pc[c] /\ n \in dirty
       \/ call'[c] = e /\ pc'[c] = "append"
  BY <1>2, <1>11
<1>14. Underway' \subseteq Underway \cup {c} /\ Underway \subseteq Underway' /\ (c \in Underway' => call'[c] = e /\ pc'[c] = "append")
  BY <1>12, <1>13 DEF Underway
<1>15. /\ Changing' = Changing /\ Renames' = Renames /\ ToAppend' = ToAppend
       /\ \A d \in Underway : call'[d] = call[d] /\ pc'[d] = pc[d]
       /\ c \notin Changing
  <2>1. \A d \in Underway : call'[d] = call[d] /\ pc'[d] = pc[d]
    BY <1>12 DEF Underway
  <2> QED BY <1>3, <1>12, <1>14, <2>1 DEF Changing, Renames, ToAppend
<1>16. Promised' = Promised
  BY <1>4, <1>15 DEF Promised, Formed
<1>17. Typing' /\ Phases'
  <2>1. call' \in [Clients -> Ents \cup {Quiet}]
    BY <1>2, <1>3, <1>11
  <2>2. pc' \in [Clients -> {"idle", "append", "cache"}]
    BY <1>2, <1>11
  <2>3. calls' \in 0..MaxCalls
    BY <1>2, BoundsAssumption DEF Inv, Typing
  <2>4. dirty' \subseteq Nodes /\ open' \subseteq Nodes
    BY <1>2, <1>3 DEF Inv, Typing
  <2> QED BY <1>1, <1>8, <1>10, <1>15, <2>1, <2>2, <2>3, <2>4 DEF Inv, Typing, Phases
<1>18. CallState'
  BY <1>3, <1>12, <1>13 DEF Inv, CallState
<1>19. Apart'
  <2>1. ASSUME NEW a \in Changing, NEW d \in Underway', a # d
        PROVE  ~Conflict(call'[a], call'[d]) /\ ~Conflict(call'[d], call'[a])
    <3>1. a \in Underway /\ call'[a] = call[a]
      BY <1>4, <1>15 DEF Formed
    <3>2. CASE d \in Underway
      BY <1>15, <2>1, <3>1, <3>2 DEF Inv, Apart
    <3>3. CASE d = c /\ call'[d] = e
      BY <1>2, <3>1, <3>3, ConflictForms
    <3> QED BY <1>14, <3>2, <3>3
  <2> QED BY <1>15, <2>1 DEF Apart
<1>20. Unapplied' = Unapplied /\ Written' = Written /\ Base' = Base /\ Result' = Result
  BY <1>1, <1>16 DEF Unapplied, Written, Base, Result
<1>21. Fits' /\ Leads'
  BY <1>9, <1>16, <1>20 DEF Inv, Fits, Leads, Agree
<1>22. Fresh' /\ MakesOnce'
  BY <1>1, <1>16, <1>20 DEF Inv, Fresh, MakesOnce
<1>23. \A d \in Changing : call[d].path \in Paths /\ call[d].path # p /\ call'[d] = call[d] /\ pc'[d] = pc[d]
  BY <1>4, <1>5, <1>15, ReadsForms, EntForms DEF Formed
<1>24. Effects'
  BY <1>8, <1>15, <1>23 DEF Inv, Effects
<1>25. CopyTypes'
  BY <1>7, <1>8 DEF Inv, CopyTypes
<1>26. OwnCopies'
  BY <1>5, <1>8, <1>15, <1>23 DEF Inv, OwnCopies
<1>27. NoCopies'
  <2>1. \A d \in Changing : \A r \in Changed(call[d]) : cache'[r] = cache[r]
    BY <1>5, <1>8 DEF Changed
  <2> QED BY <1>15, <1>23, <2>1 DEF Inv, NoCopies
<1>28. \A d \in Renames : \A r \in Paths :
         Below(call[d].path, r) \/ Below(call[d].to, r) => cache'[r] = cache[r] /\ view'[r] = view[r] /\ r # p
  BY <1>4, <1>5, <1>8, RenameForms
<1>29. CopiesMove'
  <2>1. ASSUME NEW d \in Renames, NEW r \in Paths, Below(call[d].path, r), Moved(r, call[d].path, call[d].to) \in Paths
        PROVE  view'[Moved(r, call[d].path, call[d].to)] = view[Moved(r, call[d].path, call[d].to)]
    <3>1. Below(call[d].to, Moved(r, call[d].path, call[d].to))
      BY <1>4, <2>1, RenameForms, MovedPath
    <3> QED BY <1>28, <2>1, <3>1
  <2>2. \A d \in Renames : call'[d] = call[d]
    BY <1>4, <1>23, RenameForms
  <2> QED BY <1>15, <1>28, <2>1, <2>2 DEF Inv, CopiesMove
<1>30. Owed'
  <2>1. \A d \in Renames : /\ call'[d] = call[d] /\ pc'[d] = pc[d] /\ p \notin Changed(call[d])
                           /\ \A q : Under(d, q)' = Under(d, q) /\ Old(d, q)' = Old(d, q)
    BY <1>4, <1>5, <1>23, RenameForms DEF Under, Old
  <2>2. \A q : EntryAt(q) <=> EntryAt(q)'
    BY <1>20 DEF EntryAt
  <2>3. CopyAt(p, view[p])'
    BY <1>8, <1>15, <2>1 DEF CopyAt
  <2>4. ASSUME EntriesSuffice PROVE EntryFor(p)' \/ WritingOf(p)'
    <3>1. CASE n \in dirty
      <4>1. PICK i \in DOMAIN journal : journal[i] = e
        BY <1>2, <2>4, <3>1
      <4>2. journal \in Seq(Ents) /\ i \in 1..Len(journal)
        BY <4>1, LenProperties DEF Inv, Typing
      <4>3. phase # "queue"
        BY <4>2, EmptySeq DEF Inv, Phases
      <4>4. EntryAt(p)
        BY <1>3, <4>1, <4>2, <4>3 DEF EntryAt, Written
      <4> QED BY <1>15, <2>1, <2>2, <4>4 DEF EntryFor
    <3>2. CASE call'[c] = e /\ pc'[c] = "append"
      <4>1. c \in Underway'
        BY <3>2 DEF Underway
      <4> QED BY <1>3, <3>2, <4>1 DEF WritingOf
    <3> QED BY <1>13, <3>1, <3>2
  <2>5. ASSUME NEW q \in Paths, q # p, IsFile(view[q]) PROVE CopyAt(q, view[q]) => CopyAt(q, view[q])'
    <3>1. ASSUME NEW d \in Renames, Under(d, q), cache[Old(d, q)] = view[q] PROVE CopyAt(q, view[q])'
      <4>1. Old(d, q) \in Paths /\ Old(d, q) # p
        BY <1>4, <2>1, <3>1, UnderForms
      <4>2. cache'[Old(d, q)] = view'[q]
        BY <1>8, <2>5, <3>1, <4>1
      <4> QED BY <1>15, <2>1, <3>1, <4>2 DEF CopyAt
    <3>2. (\A d \in Renames : q \notin Changed(call[d])) /\ cache[q] = view[q] => CopyAt(q, view[q])'
      BY <1>8, <1>15, <2>1, <2>5 DEF CopyAt
    <3> QED BY <3>1, <3>2 DEF CopyAt
  <2>6. \A q \in Paths : EntryFor(q) => EntryFor(q)'
    BY <1>15, <2>1, <2>2 DEF EntryFor
  <2>7. \A q \in Paths : WritingOf(q) => WritingOf(q)'
    BY <1>14, <1>15 DEF WritingOf
  <2>8. ASSUME NEW q \in Paths, IsFile(view'[q])
        PROVE  \/ Result'[q] = view'[q]
               \/ /\ CopyAt(q, view[q])'
                  /\ EntriesSuffice => view'[q].node \in pending' \/ EntryFor(q)' \/ WritingOf(q)'
    <3>1. CASE q = p
      BY <2>3, <2>4, <3>1
    <3>2. CASE q # p
      <4>1. view'[q] = view[q] /\ IsFile(view[q])
        BY <1>8, <2>8, <3>2
      <4> QED BY <1>1, <1>20, <2>5, <2>6, <2>7, <3>2, <4>1 DEF Inv, Owed, Held, Brought
    <3> QED BY <3>1, <3>2
  <2> QED BY <2>8 DEF Owed, Held, Brought
<1>31. PendingThere'
  <2>1. \A q \in Paths : view'[q].node = view[q].node
    BY <1>9 DEF Agree
  <2> QED BY <1>1, <1>15, <1>23, <2>1 DEF Inv, PendingThere
<1> QED BY <1>17, <1>18, <1>19, <1>21, <1>22, <1>24, <1>25, <1>26, <1>27, <1>29, <1>30, <1>31 DEF Inv

-----------------------------------------------------------------------------
(* The step of a call in the cache directory: the copies follow their files. *)

LEMMA CopiesFollow ==
  ASSUME Inv, NEW c \in Clients, CacheStep(c)
  PROVE  /\ c \in Changing /\ call[c] \in Updates /\ call[c].op \in {"mknod", "unlink", "rename"}
         /\ cache' \in Namespaces
         /\ \A r \in Paths \ Changed(call[c]) : cache'[r] = cache[r]
         /\ \A r \in Changed(call[c]) : \/ cache'[r] = Empty
                                        \/ IsFile(cache'[r]) /\ cache'[r] = view[r] /\ call[c].op # "unlink"
         /\ call[c].op = "rename" =>
              \A r \in Paths : Under(c, r) => cache'[r] = cache[Old(c, r)]
<1> DEFINE e == call[c]
<1>1. pc[c] = "cache" /\ cache' = CASE e.op = "mknod" -> [cache EXCEPT ![e.path] = File(e.node)]
                                    [] e.op = "unlink" -> [cache EXCEPT ![e.path] = Empty]
                                    [] e.op = "rename" -> CacheRename(e)
  BY DEF CacheStep
<1>2. Formed /\ cache \in Namespaces
  BY InvForms DEF Inv, Typing
<1>3. e.op \in {"mknod", "unlink", "rename"} /\ c \in Underway /\ c \in Changing
  BY <1>1 DEF Inv, CallState, Underway, Changing, IsUpdate
<1>4. e \in Updates
  BY <1>2, <1>3 DEF Formed
<1>5. e.path \in Paths /\ Changed(e) \subseteq Paths /\ e.path \in Changed(e)
  BY <1>4, EntForms, ReadsForms
<1>6. \A r \in Paths : cache[r] = Empty \/ IsFile(cache[r])
  BY DEF Inv, CopyTypes
<1>7. CASE e.op \in {"mknod", "unlink"}
  <2> DEFINE x == IF e.op = "mknod" THEN File(e.node) ELSE Empty
  <2>1. cache' = [cache EXCEPT ![e.path] = x]
    BY <1>1, <1>7
  <2>2. x = Empty \/ (IsFile(x) /\ x = view[e.path] /\ e.op # "unlink" /\ x \in Entries)
    BY <1>3, <1>4, <1>7, EntForms, NodeForms DEF Inv, Effects
  <2>3. x \in Entries
    BY <2>2, NodeForms
  <2> HIDE DEF x
  <2>4. cache' \in Namespaces /\ cache'[e.path] = x /\ \A r \in Paths : r # e.path => cache'[r] = cache[r]
    BY <1>2, <1>5, <2>1, <2>3 DEF Namespaces
  <2>5. \A r \in Changed(e) : r # e.path => cache[r] = Empty
    BY <1>3, <1>7 DEF Inv, NoCopies
  <2> QED BY <1>3, <1>4, <1>5, <1>7, <2>2, <2>4, <2>5
<1>8. CASE e.op = "rename"
  <2>1. c \in Renames
    BY <1>3, <1>8 DEF Renames
  <2>2. /\ e.to \in Paths
        /\ \A r \in Paths : Below(e.path, r) \/ Below(e.to, r) <=> r \in Changed(e)
    BY <1>2, <2>1, RenameForms
  <2>3. \A r \in Paths : Below(e.to, r) => cache[r] = Empty
    BY <2>1 DEF Inv, CopiesMove
  <2>4. \A r \in Paths : Below(e.path, r) /\ cache[r] # Empty =>
          Moved(r, e.path, e.to) \in Paths /\ cache[r] = view[Moved(r, e.path, e.to)]
    BY <2>1 DEF Inv, CopiesMove
  <2>5. \A r \in Paths : Under(c, r) => /\ Old(c, r) \in Paths /\ Below(e.path, Old(c, r))
                                        /\ Moved(Old(c, r), e.path, e.to) = r
                                        /\ Below(e.to, r) /\ Moved(r, e.to, e.path) = Old(c, r)
    BY <1>2, <2>1, UnderForms DEF Under, Old
  <2>6. CASE \A q \in Paths : Below(e.path, q) => cache[q].node = NONE
    <3>1. cache' = cache
      BY <1>1, <1>8, <2>6 DEF CacheRename
    <3>2. \A r \in Paths : Below(e.path, r) => cache[r] = Empty
      BY <1>6, <2>6, NodesAssumption DEF IsFile
    <3>3. \A r \in Changed(e) : cache[r] = Empty
      BY <1>5, <2>2, <2>3, <3>2
    <3>4. \A r \in Paths : Under(c, r) => cache[r] = cache[Old(c, r)]
      BY <2>3, <2>5, <3>2
    <3> QED BY <1>2, <1>3, <1>4, <3>1, <3>3, <3>4
  <2>7. CASE ~\A q \in Paths : Below(e.path, q) => cache[q].node = NONE
    <3>1. cache' = Move(cache, e.path, e.to)
      BY <1>1, <1>8, <2>7 DEF CacheRename
    <3>2. cache' \in Namespaces /\ \A r \in Paths \ Changed(e) : cache'[r] = cache[r]
      <4>1. cache' \in Namespaces
        BY <1>2, <1>5, <2>2, <3>1, MoveForms
      <4>2. ASSUME NEW r \in Paths \ Changed(e) PROVE cache'[r] = cache[r]
        BY <1>2, <1>5, <2>2, <3>1, MoveOut
      <4> QED BY <4>1, <4>2
    <3>3. ASSUME NEW r \in Paths, Under(c, r) PROVE cache'[r] = cache[Old(c, r)]
      <4>1. Below(e.to, r) /\ Moved(r, e.to, e.path) = Old(c, r) /\ Old(c, r) \in Paths
        BY <2>5, <3>3
      <4> QED BY <1>2, <1>5, <2>2, <3>1, <4>1, MoveIn
    <3>4. ASSUME NEW r \in Changed(e), ~Under(c, r) PROVE cache'[r] = Empty
      <4>1. r \in Paths /\ (Below(e.path, r) \/ Below(e.to, r))
        BY <1>2, <1>5, <2>2
      <4>2. Below(e.to, r) => Moved(r, e.to, e.path) \notin Paths
        BY <3>4 DEF Under
      <4>3. cache \in Namespaces /\ e.path \in Paths /\ e.to \in Paths
        BY <1>2, <1>5, <2>2
      <4>4. Move(cache, e.path, e.to)[r] = Empty
        BY <4>1, <4>2, <4>3, MoveAway
      <4> QED BY <3>1, <4>4
    <3>5. \A r \in Changed(e) : cache'[r] = Empty \/ (IsFile(cache'[r]) /\ cache'[r] = view[r])
      BY <1>5, <1>6, <2>4, <2>5, <3>3, <3>4
    <3> QED BY <1>3, <1>4, <1>8, <3>2, <3>3, <3>5
  <2> QED BY <2>6, <2>7
<1> QED BY <1>3, <1>7, <1>8

LEMMA CacheStepKeeps ==
  ASSUME Inv, NEW c \in Clients, CacheStep(c)
  PROVE  Inv'
<1> DEFINE e == call[c]
<1>1. UNCHANGED <<view, target, journal, phase, todo, pending, applies, open, dirty, calls>>
  BY DEF CacheStep, apply, files
<1>2. pc[c] = "cache" /\ \/ e.op = "unlink" /\ pc' = [pc EXCEPT ![c] = "append"] /\ call' = call
                         \/ e.op # "unlink" /\ pc' = [pc EXCEPT ![c] = "idle"] /\ call' = [call EXCEPT ![c] = Quiet]
  BY DEF CacheStep, Goto, Return
<1>3. /\ c \in Changing /\ e \in Updates /\ e.op \in {"mknod", "unlink", "rename"} /\ cache' \in Namespaces
      /\ \A r \in Paths \ Changed(e) : cache'[r] = cache[r]
      /\ \A r \in Changed(e) : cache'[r] = Empty \/ (IsFile(cache'[r]) /\ cache'[r] = view[r] /\ e.op # "unlink")
      /\ e.op = "rename" => \A r \in Paths : Under(c, r) => cache'[r] = cache[Old(c, r)]
  BY CopiesFollow
<1>4. Formed
  BY InvForms
<1>5. pc \in [Clients -> {"idle", "append", "cache"}] /\ call \in [Clients -> Ents \cup {Quiet}]
  BY DEF Inv, Typing
<1>6. \A d \in Clients : d # c => call'[d] = call[d] /\ pc'[d] = pc[d]
  BY <1>2, <1>5
<1>7. \/ e.op = "unlink" /\ call'[c] = e /\ pc'[c] = "append"
      \/ e.op # "unlink" /\ call'[c] = Quiet /\ pc'[c] = "idle"
  BY <1>2, <1>5
<1> HIDE DEF e
<1>8. /\ Underway' \subseteq Underway /\ \A d \in Underway : d = c \/ d \in Underway'
      /\ \A d \in Underway' : call'[d] = call[d] /\ (d = c => e.op = "unlink")
  BY <1>3, <1>6, <1>7 DEF Underway, Changing, e
<1>9. /\ Changing' \subseteq Changing /\ Renames' \subseteq Renames /\ c \notin Renames'
      /\ \A d \in Changing : d = c \/ d \in Changing'
      /\ \A d \in Renames : d = c \/ d \in Renames'
      /\ \A d \in Changing' : call'[d] = call[d] /\ (d = c => e.op = "unlink")
  BY <1>6, <1>8 DEF Changing, Renames, Underway, e
<1>10. ToAppend' = ToAppend /\ \A d \in ToAppend : call'[d] = call[d]
  <2>1. c \in Underway /\ IsUpdate(e)
    BY <1>3 DEF Changing, e
  <2>2. c \in ToAppend <=> e.op = "unlink"
    BY <1>2, <2>1 DEF ToAppend, e
  <2>3. c \in ToAppend' <=> e.op = "unlink"
    BY <1>7, <2>1, <1>5 DEF ToAppend, Underway, e, Quiet
  <2>4. \A d \in Clients : d # c => (d \in ToAppend' <=> d \in ToAppend)
    BY <1>6 DEF ToAppend, Underway
  <2>5. \A d \in ToAppend : d \in Clients /\ call'[d] = call[d]
    BY <1>6, <1>7, <2>2 DEF ToAppend, Underway, e
  <2>6. ToAppend' \subseteq Clients /\ ToAppend \subseteq Clients
    BY DEF ToAppend, Underway
  <2> QED BY <2>2, <2>3, <2>4, <2>5, <2>6
<1>11. Promised' = Promised
  BY <1>10 DEF Promised
<1>12. Typing'
  <2>1. pc' \in [Clients -> {"idle", "append", "cache"}]
    BY <1>2, <1>5
  <2>2. call' \in [Clients -> Ents \cup {Quiet}]
    BY <1>2, <1>5
  <2> QED BY <1>1, <1>3, <2>1, <2>2 DEF Inv, Typing
<1>13. CallState'
  <2>1. \A d \in Clients : d # c =>
            /\ pc'[d] = "idle" <=> call'[d] = Quiet
            /\ pc'[d] = "cache" => call'[d].op \in {"mknod", "unlink", "rename"}
            /\ IsFsync(call'[d]) => call'[d].path \in Paths
    BY <1>6 DEF Inv, CallState
  <2>2. e # Quiet /\ ~IsFsync(e) /\ ~IsFsync(Quiet)
    BY <1>3 DEF Quiet, IsFsync
  <2> QED BY <1>7, <2>1, <2>2 DEF CallState
<1>14. Apart'
  BY <1>8, <1>9 DEF Inv, Apart
<1>15. Phases'
  BY <1>1, <1>9 DEF Inv, Phases
<1>16. Unapplied' = Unapplied /\ Written' = Written /\ Base' = Base /\ Result' = Result
  BY <1>1, <1>11 DEF Unapplied, Written, Base, Result
<1>17. Fits' /\ Leads' /\ Fresh' /\ MakesOnce'
  <2>1. Fits' /\ Leads'
    BY <1>1, <1>11, <1>16 DEF Inv, Fits, Leads, Agree
  <2>2. Fresh' /\ MakesOnce'
    BY <1>1, <1>11, <1>16 DEF Inv, Fresh, MakesOnce
  <2> QED BY <2>1, <2>2
<1>18. Effects'
  BY <1>1, <1>9 DEF Inv, Effects
<1>19. CopyTypes'
  BY <1>3 DEF Inv, CopyTypes
<1>20. OwnCopies'
  <2> SUFFICES ASSUME NEW p \in Paths, \A d \in Changing' : p \notin Changed(call'[d])
               PROVE  cache'[p] \in {Empty, view[p]}
    BY <1>1 DEF OwnCopies, Changed, Touched
  <2>1. CASE p \in Changed(e)
    BY <1>3, <2>1
  <2>2. CASE p \notin Changed(e)
    <3>1. \A d \in Changing : p \notin Changed(call[d])
      BY <1>9, <2>2 DEF e
    <3> QED BY <1>3, <2>2, <3>1 DEF Inv, OwnCopies
  <2> QED BY <2>1, <2>2
<1>21. ASSUME NEW d \in Changing, d # c, NEW r \in Changed(call[d]) PROVE cache'[r] = cache[r] /\ r \notin Changed(e)
  <2>1. r \in Paths
    BY DEF Changed
  <2>2. r \notin Changed(e)
    BY <1>3, <1>4, <1>21 DEF Formed, e
  <2> QED BY <1>3, <2>1, <2>2
<1>22. NoCopies'
  <2> SUFFICES ASSUME NEW d \in Changing', call'[d].op # "rename", NEW r \in Changed(call'[d])
               PROVE  cache'[r] = Empty \/ (call'[d].op = "unlink" /\ pc'[d] = "cache" /\ r = call'[d].path)
    BY DEF NoCopies, Changed, Touched
  <2>1. call'[d] = call[d] /\ d \in Changing
    BY <1>9
  <2>2. CASE d = c
    BY <1>3, <1>9, <2>1, <2>2 DEF e
  <2>3. CASE d # c
    <3>1. cache'[r] = cache[r] /\ pc'[d] = pc[d]
      BY <1>4, <1>6, <1>21, <2>1, <2>3 DEF Formed
    <3> QED BY <2>1, <3>1 DEF Inv, NoCopies
  <2> QED BY <2>2, <2>3
<1>23. CopiesMove'
  <2>1. ASSUME NEW d \in Renames', NEW r \in Paths, Below(call[d].path, r) \/ Below(call[d].to, r)
        PROVE  cache'[r] = cache[r]
    <3>1. d \in Renames /\ d # c /\ d \in Changing /\ r \in Changed(call[d])
      BY <1>4, <1>9, <2>1, RenameForms
    <3> QED BY <1>21, <3>1
  <2>2. \A d \in Renames' : d \in Renames /\ call'[d] = call[d]
    BY <1>8, <1>9 DEF Renames
  <2> QED BY <1>1, <2>1, <2>2 DEF Inv, CopiesMove
<1>24. \A d \in Renames : \A q : d # c => Under(d, q)' = Under(d, q) /\ Old(d, q)' = Old(d, q)
  BY <1>4, <1>6, RenameForms DEF Under, Old, Formed
<1>25. \A d \in Renames : d # c => d \in Renames' /\ call'[d] = call[d] /\ pc'[d] = pc[d]
  BY <1>4, <1>6, <1>9 DEF Formed
<1>26. ASSUME NEW p \in Paths, IsFile(view[p]), CopyAt(p, view[p]) PROVE CopyAt(p, view[p])'
  <2>1. CASE (\A d \in Renames : p \notin Changed(call[d])) /\ cache[p] = view[p]
    <3>1. cache[p].node # NONE
      BY <1>26, <2>1, NodesAssumption DEF IsFile
    <3>2. p \notin Changed(e)
      BY <1>3, <1>26, <2>1, <3>1, CopyUnchanged DEF e
    <3>3. \A d \in Renames' : p \notin Changed(call'[d])
      BY <1>9, <1>25, <2>1
    <3> QED BY <1>1, <1>3, <2>1, <3>2, <3>3 DEF CopyAt, Changed, Touched
  <2>2. ASSUME NEW d \in Renames, Under(d, p), cache[Old(d, p)] = view[p] PROVE CopyAt(p, view[p])'
    <3>1. p \in Changed(call[d]) /\ Old(d, p) \in Changed(call[d]) /\ d \in Changing
      BY <1>4, <2>2, UnderForms, RenameForms
    <3>2. CASE d = c
      <4>1. e.op = "rename"
        BY <3>2 DEF Renames, e
      <4>2. cache'[p] = view'[p]
        BY <1>1, <1>3, <2>2, <3>2, <4>1
      <4>3. \A f \in Renames' : p \notin Changed(call'[f])
        <5> SUFFICES ASSUME NEW f \in Renames' PROVE p \notin Changed(call[f])
          BY <1>9, <1>25
        <5>1. f \in Renames /\ f # c /\ f \in Changing
          BY <1>4, <1>9, RenameForms
        <5> QED BY <1>21, <3>1, <3>2, <5>1 DEF e
      <4> QED BY <4>2, <4>3 DEF CopyAt, Changed, Touched
    <3>3. CASE d # c
      <4>1. cache'[Old(d, p)] = view'[p]
        BY <1>1, <1>21, <2>2, <3>1, <3>3
      <4> QED BY <1>24, <1>25, <2>2, <3>3, <4>1 DEF CopyAt
    <3> QED BY <3>2, <3>3
  <2> QED BY <1>26, <2>1, <2>2 DEF CopyAt
<1>27. \A q : EntryAt(q)' = EntryAt(q)
  BY <1>16 DEF EntryAt
<1>28. ASSUME NEW p \in Paths, EntryFor(p) PROVE EntryFor(p)'
  <2>1. CASE (\A d \in Renames : p \notin Changed(call[d]) \/ pc[d] = "cache") /\ EntryAt(p)
    <3>1. \A d \in Renames' : p \notin Changed(call'[d]) \/ pc'[d] = "cache"
      BY <1>9, <1>25, <2>1
    <3> QED BY <1>27, <2>1, <3>1 DEF EntryFor, Changed, Touched
  <2>2. ASSUME NEW d \in Renames, pc[d] = "append", Under(d, p), EntryAt(Old(d, p)) PROVE EntryFor(p)'
    <3>1. d # c
      BY <1>2, <2>2
    <3> QED BY <1>24, <1>25, <1>27, <2>2, <3>1 DEF EntryFor
  <2> QED BY <1>28, <2>1, <2>2 DEF EntryFor
<1>29. \A p : WritingOf(p) => WritingOf(p)'
  <2>1. ~IsFsync(e)
    BY <1>3 DEF IsFsync
  <2> QED BY <1>6, <1>8, <2>1 DEF WritingOf, e, Underway
<1>30. Owed'
  BY <1>1, <1>16, <1>26, <1>28, <1>29 DEF Inv, Owed, Held, Brought
<1>31. PendingThere'
  BY <1>1, <1>9 DEF Inv, PendingThere
<1> QED BY <1>12, <1>13, <1>14, <1>15, <1>17, <1>18, <1>19, <1>20, <1>22, <1>23, <1>30, <1>31 DEF Inv

-----------------------------------------------------------------------------
(* The end of a journal append: what a call promised is in the journal, and the
   fsync entries have the names their files have by then. *)

LEMMA RewriteForms ==
  ASSUME NEW x \in Ents, NEW from \in Paths, NEW to \in Paths
  PROVE  /\ Rewritten(x, from, to) \in Ents
         /\ Rewritten(x, from, to) = x \/ (IsFsync(x) /\ IsFsync(Rewritten(x, from, to)))
         /\ NamePrefix = {} /\ ~Below(from, x.path) => Rewritten(x, from, to) = x
         /\ IsFsync(x) /\ Below(from, x.path) /\ Moved(x.path, from, to) \in Paths =>
              Rewritten(x, from, to).path = Moved(x.path, from, to)
<1> DEFINE y == Rewritten(x, from, to)
           w == IF Below(from, x.path) /\ Moved(x.path, from, to) \in Paths
                THEN Moved(x.path, from, to) ELSE LOST
<1>1. /\ Below(from, x.path) => StringPrefix(from, x.path)
      /\ NamePrefix = {} => (StringPrefix(from, x.path) <=> Below(from, x.path))
  BY DEF StringPrefix
<1>2. w \in Paths \cup {LOST} /\ (Below(from, x.path) /\ Moved(x.path, from, to) \in Paths => w = Moved(x.path, from, to))
  OBVIOUS
<1> HIDE DEF w
<1>3. CASE IsFsync(x) /\ StringPrefix(from, x.path)
  <2>1. y = [x EXCEPT !.path = w]
    BY <1>1, <1>3 DEF Rewritten, w
  <2>2. /\ x \in [op : {"mknod", "mkdir", "unlink", "rmdir", "rename", "fsync"}, path : Paths \cup {LOST},
                  to : Paths \cup {LOST}, node : Nodes \cup {NONE, DIR}]
        /\ x.op = "fsync"
    BY <1>3 DEF Ents, IsFsync
  <2>3. /\ y \in [op : {"mknod", "mkdir", "unlink", "rmdir", "rename", "fsync"}, path : Paths \cup {LOST},
                  to : Paths \cup {LOST}, node : Nodes \cup {NONE, DIR}]
        /\ y.op = "fsync" /\ y.path = w
    BY <1>2, <2>1, <2>2
  <2>4. y \in Ents /\ IsFsync(y)
    BY <2>3 DEF Ents, Proper, IsFsync
  <2> QED BY <1>1, <1>2, <1>3, <2>3, <2>4
<1>4. CASE ~(IsFsync(x) /\ StringPrefix(from, x.path))
  BY <1>1, <1>4 DEF Rewritten
<1> QED BY <1>3, <1>4

LEMMA AppendForms ==
  ASSUME Inv, NEW c \in Clients, AppendEntry(c)
  PROVE  /\ call[c] \in Ents /\ c \in Underway /\ pc[c] = "append" /\ phase \in {"idle", "sync"} /\ todo = <<>>
         /\ Len(journal) \in Nat /\ Len(journal') = Len(journal) + 1 /\ journal' \in Seq(Ents)
         /\ journal'[Len(journal) + 1] = call[c]
         /\ \A i \in 1..Len(journal) : journal'[i] = journal[i] \/ (IsFsync(journal[i]) /\ IsFsync(journal'[i]))
         /\ \A i \in 1..Len(journal) :
              NamePrefix = {} /\ IsFsync(journal[i]) =>
                                     \/ journal'[i] = journal[i] /\ (call[c].op = "rename" => ~Below(call[c].path, journal[i].path))
                                     \/ /\ call[c].op = "rename" /\ Below(call[c].path, journal[i].path)
                                        /\ Moved(journal[i].path, call[c].path, call[c].to) \in Paths =>
                                             journal'[i].path = Moved(journal[i].path, call[c].path, call[c].to)
         /\ \A i \in 1..Len(journal) + 1 : Run(target, journal')[i] = Run(target, journal)[i]
         /\ Final(target, journal') = ApplyEntry(Final(target, journal), call[c])
<1> DEFINE e == call[c]
           J == IF e.op = "rename" THEN [i \in DOMAIN journal |-> Rewritten(journal[i], e.path, e.to)] ELSE journal
<1>1. pc[c] = "append" /\ phase \in {"idle", "sync"} /\ journal' = Append(J, e)
  BY DEF AppendEntry, Appended
<1>2. c \in Underway /\ e \in Ents /\ Formed
  BY <1>1, InvForms DEF Underway, Formed
<1>3. todo = <<>> /\ journal \in Seq(Ents) /\ target \in Namespaces
  BY <1>1, <1>2 DEF Inv, Phases, Typing, Formed
<1>4. Len(journal) \in Nat /\ DOMAIN journal = 1..Len(journal) /\ \A i \in 1..Len(journal) : journal[i] \in Ents
  BY <1>3, LenProperties, ElementOfSeq
<1>5. /\ J \in Seq(Ents) /\ Len(J) = Len(journal)
      /\ \A i \in 1..Len(journal) : J[i] = journal[i] \/ (IsFsync(journal[i]) /\ IsFsync(J[i]))
      /\ \A i \in 1..Len(journal) :
           NamePrefix = {} /\ IsFsync(journal[i]) =>
                                  \/ J[i] = journal[i] /\ (e.op = "rename" => ~Below(e.path, journal[i].path))
                                  \/ /\ e.op = "rename" /\ Below(e.path, journal[i].path)
                                     /\ Moved(journal[i].path, e.path, e.to) \in Paths =>
                                          J[i].path = Moved(journal[i].path, e.path, e.to)
  <2>1. CASE e.op = "rename"
    <3>1. e \in Updates /\ e.path \in Paths /\ e.to \in Paths
      BY <1>2, <2>1, EntForms DEF Updates, IsUpdate
    <3>2. J = [i \in 1..Len(journal) |-> Rewritten(journal[i], e.path, e.to)]
      BY <1>4, <2>1
    <3> HIDE DEF J, e
    <3>3. ASSUME NEW i \in 1..Len(journal)
          PROVE  /\ J[i] = Rewritten(journal[i], e.path, e.to) /\ journal[i] \in Ents /\ J[i] \in Ents
                 /\ J[i] = journal[i] \/ (IsFsync(journal[i]) /\ IsFsync(J[i]))
                 /\ NamePrefix = {} /\ ~Below(e.path, journal[i].path) => J[i] = journal[i]
                 /\ IsFsync(journal[i]) /\ Below(e.path, journal[i].path) /\ Moved(journal[i].path, e.path, e.to) \in Paths =>
                      J[i].path = Moved(journal[i].path, e.path, e.to)
      <4>1. J[i] = Rewritten(journal[i], e.path, e.to) /\ journal[i] \in Ents
        BY <1>4, <3>2
      <4>2. /\ J[i] \in Ents
            /\ J[i] = journal[i] \/ (IsFsync(journal[i]) /\ IsFsync(J[i]))
            /\ NamePrefix = {} /\ ~Below(e.path, journal[i].path) => J[i] = journal[i]
            /\ IsFsync(journal[i]) /\ Below(e.path, journal[i].path) /\ Moved(journal[i].path, e.path, e.to) \in Paths =>
                 J[i].path = Moved(journal[i].path, e.path, e.to)
        <5>1. e.path \in Paths /\ e.to \in Paths /\ journal[i] \in Ents
          BY <3>1, <4>1
        <5> DEFINE y == Rewritten(journal[i], e.path, e.to)
        <5>2. /\ y \in Ents
              /\ journal[i] = y \/ (IsFsync(journal[i]) /\ IsFsync(y))
              /\ NamePrefix = {} /\ ~Below(e.path, journal[i].path) => y = journal[i]
              /\ IsFsync(journal[i]) /\ Below(e.path, journal[i].path) /\ Moved(journal[i].path, e.path, e.to) \in Paths =>
                   y.path = Moved(journal[i].path, e.path, e.to)
          BY <5>1, RewriteForms
        <5> HIDE DEF y
        <5>3. J[i] = y
          BY <4>1 DEF y
        <5> QED BY <5>2, <5>3
      <4> QED BY <4>1, <4>2
    <3>4. J \in Seq(Ents) /\ Len(J) = Len(journal)
      <4>1. J \in [1..Len(journal) -> Ents]
        BY <3>2, <3>3
      <4> QED BY <1>4, <4>1, SeqDef, LenProperties
    <3> QED BY <2>1, <3>3, <3>4
  <2>2. CASE e.op # "rename"
    BY <1>3, <2>2
  <2> QED BY <2>1, <2>2
<1> HIDE DEF J, e
<1>6. /\ journal' \in Seq(Ents) /\ Len(journal') = Len(journal) + 1
      /\ \A i \in 1..Len(journal) : journal'[i] = J[i]
      /\ journal'[Len(journal) + 1] = e
  BY <1>1, <1>2, <1>4, <1>5, AppendProperties
<1>7. /\ Final(target, journal') = ApplyEntry(Final(target, J), e)
      /\ \A i \in 1..Len(journal) + 1 : Run(target, journal')[i] = Run(target, J)[i]
  BY <1>1, <1>2, <1>3, <1>5, RunAppend
<1>8. Final(target, J) = Final(target, journal)
  <2>1. \A i \in 1..Len(journal) : journal[i] = J[i] \/ (IsFsync(journal[i]) /\ IsFsync(J[i]))
    BY <1>5
  <2> QED BY <1>3, <1>5, <2>1, FinalSame
<1>9. \A i \in 1..Len(journal) + 1 : Run(target, journal)[i] = Run(target, J)[i]
  <2>1. \A i \in 1..Len(journal) : journal[i] = J[i] \/ (IsFsync(journal[i]) /\ IsFsync(J[i]))
    BY <1>5
  <2>2. Len(journal) <= Len(journal) /\ Len(journal) <= Len(J)
    BY <1>4, <1>5
  <2> QED BY <1>3, <1>4, <1>5, <2>1, <2>2, RunPrefix
<1>10. \A i \in 1..Len(journal) : journal'[i] = journal[i] \/ (IsFsync(journal[i]) /\ IsFsync(journal'[i]))
  BY <1>5, <1>6
<1>11. \A i \in 1..Len(journal) :
         NamePrefix = {} /\ IsFsync(journal[i]) =>
                                \/ journal'[i] = journal[i] /\ (e.op = "rename" => ~Below(e.path, journal[i].path))
                                \/ /\ e.op = "rename" /\ Below(e.path, journal[i].path)
                                   /\ Moved(journal[i].path, e.path, e.to) \in Paths =>
                                        journal'[i].path = Moved(journal[i].path, e.path, e.to)
  BY <1>5, <1>6
<1>12. \A i \in 1..Len(journal) + 1 : Run(target, journal')[i] = Run(target, journal)[i]
  BY <1>7, <1>9
<1> QED BY <1>1, <1>2, <1>3, <1>4, <1>6, <1>7, <1>8, <1>10, <1>11, <1>12 DEF e

(* What the calls are after it, and what they promise *)
LEMMA AppendCalls ==
  ASSUME Inv, NEW c \in Clients, AppendEntry(c)
  PROVE  /\ call' \in [Clients -> Ents \cup {Quiet}] /\ pc' \in [Clients -> {"idle", "append", "cache"}]
         /\ \A d \in Clients : d # c => call'[d] = call[d] /\ pc'[d] = pc[d]
         /\ \/ call[c].op \in {"mknod", "rename"} /\ call'[c] = call[c] /\ pc'[c] = "cache"
            \/ call[c].op \notin {"mknod", "rename"} /\ call'[c] = Quiet /\ pc'[c] = "idle"
         /\ Underway' \subseteq Underway /\ \A d \in Underway : d = c \/ d \in Underway'
         /\ \A d \in Underway' : call'[d] = call[d]
         /\ Changing' \subseteq Changing /\ \A d \in Changing : d \in Changing' \/ d = c
         /\ \A d \in Changing' : call'[d] = call[d] /\ (d = c => call[c].op \in {"mknod", "rename"})
         /\ Renames' = Renames
         /\ \A d \in Renames : call'[d] = call[d]
         /\ Promised' = Promised \ {call[c]}
         /\ IsUpdate(call[c]) => call[c] \in Promised
<1> DEFINE e == call[c]
<1>1. pc[c] = "append" /\ \/ e.op \in {"mknod", "rename"} /\ pc' = [pc EXCEPT ![c] = "cache"] /\ call' = call
                          \/ e.op \notin {"mknod", "rename"} /\ pc' = [pc EXCEPT ![c] = "idle"] /\ call' = [call EXCEPT ![c] = Quiet]
  BY DEF AppendEntry, Goto, Return
<1>2. pc \in [Clients -> {"idle", "append", "cache"}] /\ call \in [Clients -> Ents \cup {Quiet}]
  BY DEF Inv, Typing
<1>3. call' \in [Clients -> Ents \cup {Quiet}] /\ pc' \in [Clients -> {"idle", "append", "cache"}]
  <2>1. pc' \in [Clients -> {"idle", "append", "cache"}]
    BY <1>1, <1>2
  <2>2. call' \in [Clients -> Ents \cup {Quiet}]
    BY <1>1, <1>2
  <2> QED BY <2>1, <2>2
<1>4. \A d \in Clients : d # c => call'[d] = call[d] /\ pc'[d] = pc[d]
  BY <1>1, <1>2
<1>5. \/ e.op \in {"mknod", "rename"} /\ call'[c] = e /\ pc'[c] = "cache"
      \/ e.op \notin {"mknod", "rename"} /\ call'[c] = Quiet /\ pc'[c] = "idle"
  BY <1>1, <1>2
<1>6. Formed
  BY InvForms
<1> HIDE DEF e
<1>7. c \in Underway
  BY <1>1 DEF Underway
<1>8. /\ Underway' \subseteq Underway /\ \A d \in Underway : d = c \/ d \in Underway'
      /\ \A d \in Underway' : call'[d] = call[d] /\ (d = c => e.op \in {"mknod", "rename"})
  <2>1. \A d \in Clients : d # c => (d \in Underway' <=> d \in Underway)
    BY <1>4 DEF Underway
  <2>2. c \in Underway' => e.op \in {"mknod", "rename"} /\ call'[c] = call[c]
    BY <1>5 DEF Underway, e
  <2>3. Underway \subseteq Clients /\ Underway' \subseteq Clients
    BY DEF Underway
  <2> QED BY <1>4, <1>7, <2>1, <2>2, <2>3
<1>9. /\ Changing' \subseteq Changing /\ \A d \in Changing : d \in Changing' \/ d = c
      /\ \A d \in Changing' : call'[d] = call[d] /\ (d = c => e.op \in {"mknod", "rename"})
  BY <1>8 DEF Changing
<1>10. Renames' = Renames /\ \A d \in Renames : call'[d] = call[d]
  <2>1. \A d \in Renames' : d \in Renames
    BY <1>8 DEF Renames
  <2>2. \A d \in Renames : d \in Renames' /\ call'[d] = call[d]
    <3>1. c \in Renames => c \in Renames' /\ call'[c] = call[c]
      BY <1>5 DEF Renames, Underway, e
    <3>2. \A d \in Renames : d # c => d \in Renames' /\ call'[d] = call[d]
      BY <1>8 DEF Renames
    <3> QED BY <3>1, <3>2
  <2> QED BY <2>1, <2>2
<1>11. \A d \in Clients : d # c => (d \in ToAppend' <=> d \in ToAppend)
  BY <1>4 DEF ToAppend, Underway
<1>12. c \notin ToAppend' /\ (c \in ToAppend <=> IsUpdate(e))
  <2>1. c \notin ToAppend'
    BY <1>5 DEF ToAppend, Underway, e
  <2>2. c \in ToAppend <=> IsUpdate(e)
    BY <1>1, <1>7 DEF ToAppend, e
  <2> QED BY <2>1, <2>2
<1>13. ToAppend' = ToAppend \ {c}
  <2>1. ToAppend' \subseteq Clients /\ ToAppend \subseteq Clients
    BY DEF ToAppend, Underway
  <2> QED BY <1>11, <1>12, <2>1
<1>14. \A d \in ToAppend : d # c => call[d] # e
  <2> SUFFICES ASSUME NEW d \in ToAppend, d # c, call[d] = e PROVE FALSE
    OBVIOUS
  <2>1. d \in Changing /\ call[d] \in Updates
    BY <1>6 DEF Formed
  <2>2. c \in Changing
    BY <1>7, <2>1 DEF Changing, e
  <2>3. e.path \in Changed(call[c]) /\ e.path \in Changed(call[d])
    BY <2>1, ReadsForms DEF e
  <2> QED BY <1>6, <2>1, <2>2, <2>3 DEF Formed
<1>15. Promised' = Promised \ {e}
  <2>1. \A d \in ToAppend' : call'[d] = call[d]
    BY <1>4, <1>13 DEF ToAppend, Underway
  <2>2. Promised' = {call[d] : d \in ToAppend \ {c}}
    BY <1>13, <2>1 DEF Promised
  <2>3. Promised \ {e} = {call[d] : d \in ToAppend \ {c}}
    BY <1>14 DEF Promised, e
  <2> QED BY <2>2, <2>3
<1>16. IsUpdate(e) => e \in Promised
  BY <1>12 DEF Promised, e
<1> QED BY <1>3, <1>4, <1>5, <1>8, <1>9, <1>10, <1>15, <1>16 DEF e

LEMMA AppendEntryKeeps ==
  ASSUME Inv, NEW c \in Clients, AppendEntry(c)
  PROVE  Inv'
<1> DEFINE e == call[c]
           l == Len(journal)
<1>1. UNCHANGED <<view, cache, target, phase, todo, pending, applies, open, calls>>
  BY DEF AppendEntry, dirs, apply
<1>2. /\ e \in Ents /\ c \in Underway /\ pc[c] = "append" /\ phase \in {"idle", "sync"} /\ todo = <<>>
      /\ l \in Nat /\ Len(journal') = l + 1 /\ journal' \in Seq(Ents)
      /\ journal'[l + 1] = e
      /\ \A i \in 1..l : journal'[i] = journal[i] \/ (IsFsync(journal[i]) /\ IsFsync(journal'[i]))
      /\ Final(target, journal') = ApplyEntry(Final(target, journal), e)
  BY AppendForms
<1>3. \A i \in 1..l :
        NamePrefix = {} /\ IsFsync(journal[i]) =>
                               \/ journal'[i] = journal[i] /\ (e.op = "rename" => ~Below(e.path, journal[i].path))
                               \/ /\ e.op = "rename" /\ Below(e.path, journal[i].path)
                                  /\ Moved(journal[i].path, e.path, e.to) \in Paths =>
                                       journal'[i].path = Moved(journal[i].path, e.path, e.to)
  BY AppendForms
<1>4. /\ call' \in [Clients -> Ents \cup {Quiet}] /\ pc' \in [Clients -> {"idle", "append", "cache"}]
      /\ \A d \in Clients : d # c => call'[d] = call[d] /\ pc'[d] = pc[d]
      /\ \/ e.op \in {"mknod", "rename"} /\ call'[c] = e /\ pc'[c] = "cache"
         \/ e.op \notin {"mknod", "rename"} /\ call'[c] = Quiet /\ pc'[c] = "idle"
      /\ Underway' \subseteq Underway /\ \A d \in Underway : d = c \/ d \in Underway'
      /\ \A d \in Underway' : call'[d] = call[d]
  BY AppendCalls
<1>5. /\ Changing' \subseteq Changing /\ \A d \in Changing : d \in Changing' \/ d = c
      /\ \A d \in Changing' : call'[d] = call[d] /\ (d = c => e.op \in {"mknod", "rename"})
      /\ Renames' = Renames /\ \A d \in Renames : call'[d] = call[d]
      /\ Promised' = Promised \ {e} /\ (IsUpdate(e) => e \in Promised)
  BY AppendCalls
<1>6. Formed
  BY InvForms
<1> HIDE DEF e, l
<1>7. Typing'
  <2>1. dirty' \subseteq Nodes
    BY DEF AppendEntry, Inv, Typing
  <2> QED BY <1>1, <1>2, <1>4, <2>1 DEF Inv, Typing
<1>8. CallState'
  <2>1. \A d \in Clients : d # c =>
            /\ pc'[d] = "idle" <=> call'[d] = Quiet
            /\ pc'[d] = "cache" => call'[d].op \in {"mknod", "unlink", "rename"}
            /\ IsFsync(call'[d]) => call'[d].path \in Paths
    BY <1>4 DEF Inv, CallState
  <2>2. e.op \in {"mknod", "rename"} => e # Quiet /\ ~IsFsync(e)
    BY DEF Quiet, IsFsync
  <2>3. ~IsFsync(Quiet)
    BY DEF Quiet, IsFsync
  <2> QED BY <1>4, <2>1, <2>2, <2>3 DEF CallState
<1>9. Apart'
  BY <1>4, <1>5 DEF Inv, Apart
<1>10. Phases'
  BY <1>1, <1>2, <1>5 DEF Inv, Phases
<1>11. Unapplied = journal /\ Unapplied' = journal' /\ Written = journal /\ Written' = journal'
  BY <1>1, <1>2 DEF Unapplied, Written
<1>12. Base' = ApplyEntry(Base, e)
  BY <1>1, <1>2, <1>11 DEF Base
<1>13. Result' = Result /\ Fits'
  <2>1. CASE IsUpdate(e)
    <3>1. \A f \in Promised : Possible(Base, f)
      BY DEF Inv, Fits
    <3>2. /\ Merge(ApplyEntry(Base, e), Promised \ {e}) = Merge(Base, Promised)
          /\ \A f \in Promised \ {e} : Possible(ApplyEntry(Base, e), f)
      BY <1>5, <1>6, <2>1, <3>1, MergeFirst DEF Formed
    <3> QED BY <1>5, <1>12, <3>2 DEF Result, Fits
  <2>2. CASE ~IsUpdate(e)
    <3>1. Base' = Base
      BY <1>12, <2>2 DEF ApplyEntry
    <3>2. Promised' = Promised
      BY <1>5, <1>6, <2>2 DEF Formed, Updates
    <3> QED BY <3>1, <3>2 DEF Inv, Result, Fits
  <2> QED BY <2>1, <2>2
<1>14. Leads'
  BY <1>1, <1>13 DEF Inv, Leads, Agree
<1>15. \A i \in 1..Len(journal') :
         \/ i \in 1..l /\ (journal'[i].op = "mknod" => journal'[i] = journal[i])
         \/ i = l + 1 /\ journal'[i] = e /\ (e.op = "mknod" => e \in Promised)
  <2>1. e.op = "mknod" => e \in Promised
    BY <1>5 DEF IsUpdate
  <2>2. \A i \in 1..l : journal'[i].op = "mknod" => journal'[i] = journal[i]
    BY <1>2 DEF IsFsync
  <2>3. \A i \in 1..Len(journal') : i \in 1..l \/ i = l + 1
    BY <1>2
  <2> QED BY <1>2, <2>1, <2>2, <2>3
<1>16. Fresh'
  BY <1>1, <1>5, <1>11, <1>15 DEF Inv, Fresh, l
<1>17. MakesOnce'
  <2>1. ASSUME NEW i \in 1..Len(journal'), NEW j \in 1..Len(journal'),
               journal'[i].op = "mknod", journal'[j].op = "mknod", i # j
        PROVE  journal'[i].node # journal'[j].node
    BY <1>11, <1>15, <2>1 DEF Inv, MakesOnce, l
  <2>2. ASSUME NEW f \in Promised \ {e}, NEW j \in 1..Len(journal'), f.op = "mknod", journal'[j].op = "mknod"
        PROVE  f.node # journal'[j].node
    BY <1>11, <1>15, <2>2 DEF Inv, MakesOnce, l
  <2>3. \A f, g \in Promised \ {e} : f.op = "mknod" /\ g.op = "mknod" /\ f # g => f.node # g.node
    BY DEF Inv, MakesOnce
  <2> QED BY <1>5, <1>11, <2>1, <2>2, <2>3 DEF MakesOnce
<1>18. Effects' /\ CopyTypes'
  BY <1>1, <1>5 DEF Inv, Effects, CopyTypes
<1>19. OwnCopies'
  <2> SUFFICES ASSUME NEW p \in Paths, \A d \in Changing' : p \notin Changed(call'[d])
               PROVE  cache[p] \in {Empty, view[p]}
    BY <1>1 DEF OwnCopies, Changed, Touched
  <2>1. CASE c \in Changing /\ p \in Changed(e)
    <3>1. e.op # "rename" /\ pc[c] # "cache"
      BY <1>2, <1>5, <2>1 DEF Renames, Changing, e
    <3> QED BY <2>1, <3>1 DEF Inv, NoCopies, e
  <2>2. CASE ~(c \in Changing /\ p \in Changed(e))
    <3>1. \A d \in Changing : p \notin Changed(call[d])
      BY <1>5, <2>2 DEF e
    <3> QED BY <3>1 DEF Inv, OwnCopies
  <2> QED BY <2>1, <2>2
<1>20. NoCopies'
  <2> SUFFICES ASSUME NEW d \in Changing', call'[d].op # "rename", NEW r \in Changed(call'[d])
               PROVE  cache[r] = Empty \/ (call'[d].op = "unlink" /\ pc'[d] = "cache" /\ r = call'[d].path)
    BY <1>1 DEF NoCopies, Changed, Touched
  <2>1. call'[d] = call[d] /\ d \in Changing /\ d \in Clients
    BY <1>5, <1>6 DEF Formed
  <2>2. cache[r] = Empty \/ (call[d].op = "unlink" /\ pc[d] = "cache" /\ r = call[d].path)
    BY <2>1 DEF Inv, NoCopies
  <2>3. d = c => pc[d] = "append"
    BY <1>2
  <2> QED BY <1>4, <2>1, <2>2, <2>3
<1>21. CopiesMove'
  BY <1>1, <1>5 DEF Inv, CopiesMove
<1>22. \A d \in Renames : \A q : Under(d, q)' = Under(d, q) /\ Old(d, q)' = Old(d, q)
  BY <1>5 DEF Under, Old
<1>23. \A p \in Paths : CopyAt(p, view[p]) => CopyAt(p, view[p])'
  BY <1>1, <1>5, <1>22 DEF CopyAt
<1>24. ASSUME NamePrefix = {}, NEW q \in Paths, EntryAt(q), e.op = "rename" => ~Below(e.path, q) PROVE EntryAt(q)'
  <2>1. PICK i \in 1..l : IsFsync(journal[i]) /\ journal[i].path = q
    BY <1>11, <1>24 DEF EntryAt, l
  <2>2. journal'[i] = journal[i] /\ i \in 1..Len(journal')
    BY <1>2, <1>3, <1>24, <2>1
  <2> QED BY <1>11, <2>1, <2>2 DEF EntryAt
<1>25. ASSUME NamePrefix = {}, NEW p \in Paths, Under(c, p), EntryAt(Old(c, p)), c \in Renames PROVE EntryAt(p)'
  <2>1. PICK i \in 1..l : IsFsync(journal[i]) /\ journal[i].path = Old(c, p)
    BY <1>11, <1>25 DEF EntryAt, l
  <2>2. Below(e.path, Old(c, p)) /\ Moved(Old(c, p), e.path, e.to) = p
    BY <1>6, <1>25, UnderForms DEF e
  <2>3. e.op = "rename"
    BY <1>25 DEF Renames, e
  <2>4. journal'[i].path = p
    BY <1>3, <1>25, <2>1, <2>2, <2>3
  <2>5. IsFsync(journal'[i]) /\ i \in 1..Len(journal')
    BY <1>2, <2>1
  <2> QED BY <1>11, <2>4, <2>5 DEF EntryAt
<1>26. \A d \in Renames : d # c => /\ d \in Clients /\ d \in Changing /\ pc'[d] = pc[d]
                                   /\ (c \in Renames => Changed(call[d]) \cap Changed(e) = {})
  BY <1>4, <1>6, RenameForms DEF Formed, e
<1>27. c \in Renames <=> e.op = "rename"
  BY <1>2 DEF Renames, e
<1>28. ASSUME NamePrefix = {}, NEW p \in Paths, EntryFor(p) PROVE EntryFor(p)'
  <2>1. CASE (\A d \in Renames : p \notin Changed(call[d]) \/ pc[d] = "cache") /\ EntryAt(p)
    <3>1. e.op = "rename" => ~Below(e.path, p)
      BY <1>2, <1>6, <1>27, <2>1, RenameForms DEF e
    <3>2. EntryAt(p)'
      BY <1>28, <1>24, <2>1, <3>1
    <3>3. \A d \in Renames : p \notin Changed(call[d]) \/ pc'[d] = "cache"
      BY <1>2, <1>26, <2>1
    <3> QED BY <1>5, <3>2, <3>3 DEF EntryFor
  <2>2. ASSUME NEW d \in Renames, pc[d] = "append", Under(d, p), EntryAt(Old(d, p)) PROVE EntryFor(p)'
    <3>1. p \in Changed(call[d]) /\ Old(d, p) \in Paths /\ Old(d, p) \in Changed(call[d])
      BY <1>6, <2>2, UnderForms
    <3>2. CASE d = c
      <4>1. EntryAt(p)'
        BY <1>28, <1>25, <2>2, <3>2
      <4>2. pc'[c] = "cache"
        BY <1>4, <1>27, <2>2, <3>2
      <4>3. \A f \in Renames : p \notin Changed(call[f]) \/ pc'[f] = "cache"
        BY <1>26, <2>2, <3>1, <3>2, <4>2 DEF e
      <4> QED BY <1>5, <4>1, <4>3 DEF EntryFor
    <3>3. CASE d # c
      <4>1. e.op = "rename" => ~Below(e.path, Old(d, p))
        BY <1>6, <1>26, <1>27, <2>2, <3>1, <3>3, RenameForms DEF e
      <4>2. EntryAt(Old(d, p))'
        BY <1>28, <1>22, <1>24, <2>2, <3>1, <4>1
      <4> QED BY <1>5, <1>22, <1>26, <2>2, <3>3, <4>2 DEF EntryFor
    <3> QED BY <3>2, <3>3
  <2> QED BY <1>28, <2>1, <2>2 DEF EntryFor
<1>29. ASSUME NEW p \in Paths, WritingOf(p) PROVE WritingOf(p)' \/ EntryFor(p)'
  <2>1. PICK d \in Underway : IsFsync(call[d]) /\ call[d].path = p
    BY <1>29 DEF WritingOf
  <2>2. CASE d # c
    BY <1>4, <2>1, <2>2 DEF WritingOf
  <2>3. CASE d = c
    <3>1. IsFsync(e) /\ e.path = p
      BY <2>1, <2>3 DEF e
    <3>2. EntryAt(p)'
      <4>1. l + 1 \in 1..Len(journal')
        BY <1>2
      <4> QED BY <1>2, <1>11, <3>1, <4>1 DEF EntryAt
    <3>3. \A f \in Renames : p \notin Changed(call[f])
      <4> SUFFICES ASSUME NEW f \in Renames PROVE p \notin Changed(call[f])
        OBVIOUS
      <4>1. f \in Changing /\ IsUpdate(call[f]) /\ f # c
        BY <1>6, <3>1, RenameForms DEF Renames, Updates, IsFsync, e
      <4>2. ~Conflict(e, call[f])
        BY <1>2, <4>1 DEF Inv, Apart, e
      <4>3. p \in Touched(e)
        BY <3>1 DEF Touched, IsFsync
      <4> QED BY <4>1, <4>2, <4>3, ConflictForms
    <3> QED BY <1>5, <3>2, <3>3 DEF EntryFor
  <2> QED BY <2>2, <2>3
<1>30. Owed'
  BY <1>1, <1>13, <1>23, <1>28, <1>29 DEF Inv, Owed, Held, Brought, EntriesSuffice
<1>31. PendingThere'
  BY <1>1, <1>5 DEF Inv, PendingThere
<1> QED BY <1>7, <1>8, <1>9, <1>10, <1>13, <1>14, <1>16, <1>17, <1>18, <1>19, <1>20, <1>21, <1>30, <1>31 DEF Inv

-----------------------------------------------------------------------------
(* A change of names in the metafile: it promises the same change of the
   target. *)

(* The files in the part a change is about are the one it makes and those it
   moves. *)
LEMMA ChangedFiles ==
  ASSUME NEW ns, WellFormed(ns), NEW ms \in Namespaces, NEW e \in Updates, Possible(ns, e),
         NEW p \in Changed(e), IsFile(Do(ns, e)[p])
  PROVE  \/ e.op = "mknod" /\ p = e.path /\ Do(ns, e)[p] = File(e.node) /\ Do(ms, e)[p] = File(e.node)
         \/ /\ e.op = "rename" /\ Below(e.to, p)
            /\ \E q \in Paths : /\ q = Moved(p, e.to, e.path)
                                /\ Below(e.path, q) /\ Moved(q, e.path, e.to) = p
                                /\ Do(ns, e)[p] = ns[q] /\ Do(ms, e)[p] = ms[q]
<1>1. ns \in Namespaces /\ p \in Paths
  BY WellFormedParts DEF Changed
<1>2. e.path \in Paths /\ e.op \in {"mknod", "mkdir", "unlink", "rmdir", "rename"}
  BY EntForms
<1>3. CASE e.op = "rename"
  <2>1. e.to \in Paths /\ (Below(e.path, p) \/ Below(e.to, p))
    BY <1>3, EntForms DEF Changed
  <2>2. Do(ns, e) = Move(ns, e.path, e.to) /\ Do(ms, e) = Move(ms, e.path, e.to)
    BY <1>1, <1>3, DoForms
  <2>3. Below(e.to, p) /\ Moved(p, e.to, e.path) \in Paths
    BY <1>1, <1>2, <2>1, <2>2, MoveGone, NodeForms
  <2>4. Below(e.path, Moved(p, e.to, e.path)) /\ Moved(Moved(p, e.to, e.path), e.path, e.to) = p
    BY <1>1, <1>2, <2>1, <2>3, MovedPath
  <2>5. Do(ns, e)[p] = ns[Moved(p, e.to, e.path)] /\ Do(ms, e)[p] = ms[Moved(p, e.to, e.path)]
    BY <1>1, <1>2, <2>1, <2>2, <2>3, MoveIn
  <2> QED BY <1>3, <2>3, <2>4, <2>5
<1>4. CASE e.op # "rename"
  <2>1. Below(e.path, p)
    BY <1>4, EntForms DEF Changed
  <2>2. CASE p = e.path
    <3>1. e.op = "mknod"
      <4>1. e.op = "mkdir" => Do(ns, e)[p] = Dir
        BY <1>1, <2>2, DoForms DEF Namespaces
      <4>2. e.op \in {"unlink", "rmdir"} => Do(ns, e)[p] = Empty
        BY <1>1, <2>2, DoForms DEF Namespaces
      <4> QED BY <1>2, <1>4, <4>1, <4>2, NodeForms
    <3>2. Do(ns, e)[p] = File(e.node) /\ Do(ms, e)[p] = File(e.node)
      <4>1. Do(ns, e) = [ns EXCEPT ![e.path] = File(e.node)] /\ Do(ms, e) = [ms EXCEPT ![e.path] = File(e.node)]
        BY <1>1, <3>1, DoForms
      <4> QED BY <1>1, <2>2, <4>1 DEF Namespaces
    <3> QED BY <2>2, <3>1, <3>2
  <2>3. CASE p # e.path
    <3>1. Do(ns, e)[p] = ns[p]
      <4>1. \E x : Do(ns, e) = [ns EXCEPT ![e.path] = x]
        BY <1>1, <1>2, <1>4, DoForms
      <4> QED BY <1>1, <2>3, <4>1 DEF Namespaces
    <3>2. ns[p] = Empty
      <4>1. CASE e.op = "rmdir"
        <5>1. ns[p].node = NONE
          BY <1>1, <2>1, <2>3, <4>1, PossibleForms DEF IsEmptyDir
        <5> QED BY <1>1, <1>2, <2>1, <5>1, BelowNothing
      <4>2. CASE e.op # "rmdir"
        <5>1. ns[e.path].node # DIR
          BY <1>2, <1>4, <4>2, PossibleForms, NodesAssumption DEF IsFile
        <5> QED BY <1>1, <1>2, <2>1, <2>3, <5>1, BelowNothing
      <4> QED BY <4>1, <4>2
    <3> QED BY <3>1, <3>2, NodeForms
  <2> QED BY <2>2, <2>3
<1> QED BY <1>3, <1>4

LEMMA ChangesForms ==
  ASSUME NEW e \in Changes
  PROVE  e \in Updates /\ e \in Ents /\ e # Quiet /\ IsUpdate(e) /\ ~IsFsync(e) /\ (e.op = "mknod" => New(e.node))
<1>1. CASE \E p \in Paths : e = Entry("mkdir", p, LOST, DIR) \/ e = Entry("rmdir", p, LOST, DIR)
  BY <1>1 DEF Entry, Updates, Ents, Proper, IsUpdate, IsFsync, Quiet
<1>2. CASE \E p \in Paths : e = Entry("unlink", p, LOST, NONE)
  BY <1>2 DEF Entry, Updates, Ents, Proper, IsUpdate, IsFsync, Quiet
<1>3. CASE \E p \in Paths : \E n \in {m \in Nodes : New(m)} : e = Entry("mknod", p, LOST, n)
  BY <1>3 DEF Entry, Updates, Ents, Proper, IsUpdate, IsFsync, Quiet
<1>4. CASE \E p, q \in Paths : e = Entry("rename", p, q, NONE)
  BY <1>4 DEF Entry, Updates, Ents, Proper, IsUpdate, IsFsync, Quiet
<1> DEFINE A == {Entry(o, p, LOST, DIR) : o \in {"mkdir", "rmdir"}, p \in Paths}
           B == {Entry("unlink", p, LOST, NONE) : p \in Paths}
           C == {Entry("mknod", p, LOST, n) : p \in Paths, n \in {m \in Nodes : New(m)}}
           D == {Entry("rename", p, q, NONE) : p, q \in Paths}
<1>5. Changes = A \cup B \cup C \cup D
  BY DEF Changes
<1>6. e \in A => \E p \in Paths : e = Entry("mkdir", p, LOST, DIR) \/ e = Entry("rmdir", p, LOST, DIR)
  OBVIOUS
<1>7. e \in B => \E p \in Paths : e = Entry("unlink", p, LOST, NONE)
  OBVIOUS
<1>8. e \in C => \E p \in Paths : \E n \in {m \in Nodes : New(m)} : e = Entry("mknod", p, LOST, n)
  OBVIOUS
<1>9. e \in D => \E p, q \in Paths : e = Entry("rename", p, q, NONE)
  OBVIOUS
<1> HIDE DEF A, B, C, D
<1>10. e \in A \/ e \in B \/ e \in C \/ e \in D
  BY <1>5
<1> QED BY <1>1, <1>2, <1>3, <1>4, <1>6, <1>7, <1>8, <1>9, <1>10

LEMMA ChangeCalls ==
  ASSUME Inv, NEW c \in Clients, NEW e \in Changes, Change(c, e)
  PROVE  /\ call' \in [Clients -> Ents \cup {Quiet}] /\ pc' \in [Clients -> {"idle", "append", "cache"}]
         /\ \A d \in Clients : d # c => call'[d] = call[d] /\ pc'[d] = pc[d]
         /\ call'[c] = e /\ pc'[c] = IF e.op = "unlink" THEN "cache" ELSE "append"
         /\ c \notin Underway /\ Underway' = Underway \cup {c} /\ Changing' = Changing \cup {c}
         /\ \A d \in Underway : d \in Clients /\ call'[d] = call[d] /\ pc'[d] = pc[d]
         /\ Renames \subseteq Renames' /\ \A d \in Renames' : d \in Renames \/ (d = c /\ e.op = "rename")
         /\ e.op = "rename" => c \in Renames'
         /\ ToAppend' = ToAppend \cup {c} /\ Promised' = Promised \cup {e}
         /\ \A d \in Changing : /\ Changed(e) \cap Reads(call[d]) = {} /\ Reads(e) \cap Changed(call[d]) = {}
                                /\ Changed(e) \cap Changed(call[d]) = {}
         /\ \A d \in Underway : \A p \in Touched(call[d]) : p \notin Changed(e)
         /\ CallState' /\ Apart'
<1>1. /\ pc[c] = "idle" /\ \A d \in Underway : ~Conflict(e, call[d])
      /\ call' = [call EXCEPT ![c] = e]
      /\ pc' = [pc EXCEPT ![c] = IF e.op = "unlink" THEN "cache" ELSE "append"]
  BY DEF Change, MayCall, Goto
<1>2. pc \in [Clients -> {"idle", "append", "cache"}] /\ call \in [Clients -> Ents \cup {Quiet}]
  BY DEF Inv, Typing
<1>3. e \in Updates /\ e \in Ents /\ e # Quiet /\ IsUpdate(e) /\ ~IsFsync(e)
  BY ChangesForms
<1>4. Formed
  BY InvForms
<1>5. call' \in [Clients -> Ents \cup {Quiet}]
  BY <1>1, <1>2, <1>3
<1>6. pc' \in [Clients -> {"idle", "append", "cache"}]
  BY <1>1, <1>2
<1>7. /\ \A d \in Clients : d # c => call'[d] = call[d] /\ pc'[d] = pc[d]
      /\ call'[c] = e /\ pc'[c] = IF e.op = "unlink" THEN "cache" ELSE "append"
  BY <1>1, <1>2
<1>8. pc'[c] # "idle"
  BY <1>7
<1>9. c \notin Underway /\ Underway' = Underway \cup {c}
  BY <1>1, <1>7, <1>8 DEF Underway
<1>10. \A d \in Underway : d \in Clients /\ call'[d] = call[d] /\ pc'[d] = pc[d]
  BY <1>7, <1>9 DEF Underway
<1>11. Changing' = Changing \cup {c}
  BY <1>3, <1>7, <1>9, <1>10 DEF Changing
<1>12. /\ Renames \subseteq Renames' /\ \A d \in Renames' : d \in Renames \/ (d = c /\ e.op = "rename")
       /\ e.op = "rename" => c \in Renames'
  BY <1>7, <1>9, <1>10 DEF Renames
<1>13. ToAppend' = ToAppend \cup {c}
  BY <1>3, <1>7, <1>9, <1>10 DEF ToAppend
<1>14. Promised' = Promised \cup {e}
  <2>1. \A d \in ToAppend : call'[d] = call[d]
    BY <1>10 DEF ToAppend
  <2> QED BY <1>7, <1>13, <2>1 DEF Promised
<1>15. \A d \in Changing : /\ Changed(e) \cap Reads(call[d]) = {} /\ Reads(e) \cap Changed(call[d]) = {}
                           /\ Changed(e) \cap Changed(call[d]) = {}
  <2> SUFFICES ASSUME NEW d \in Changing
               PROVE  /\ Changed(e) \cap Reads(call[d]) = {} /\ Reads(e) \cap Changed(call[d]) = {}
                      /\ Changed(e) \cap Changed(call[d]) = {}
    OBVIOUS
  <2>1. call[d] \in Updates /\ ~Conflict(e, call[d])
    BY <1>1, <1>4 DEF Formed
  <2> QED BY <1>3, <2>1, NoConflict, ReadsForms
<1>16. \A d \in Underway : \A p \in Touched(call[d]) : p \notin Changed(e)
  BY <1>1, <1>3, ConflictForms
<1>17. CallState'
  BY <1>3, <1>7 DEF Inv, CallState
<1>18. Apart'
  <2>1. ASSUME NEW d \in Changing, NEW f \in Underway', d # f PROVE ~Conflict(call'[d], call'[f]) /\ ~Conflict(call'[f], call'[d])
    <3>1. d \in Underway /\ call'[d] = call[d]
      BY <1>4, <1>10 DEF Formed
    <3>2. CASE f \in Underway
      BY <1>10, <2>1, <3>1, <3>2 DEF Inv, Apart
    <3>3. CASE f = c
      BY <1>1, <1>7, <3>1, <3>3, ConflictForms
    <3> QED BY <1>9, <3>2, <3>3
  <2>2. ASSUME NEW f \in Underway', f # c PROVE ~Conflict(call'[c], call'[f]) /\ ~Conflict(call'[f], call'[c])
    BY <1>1, <1>7, <1>9, <1>10, <2>2, ConflictForms
  <2> QED BY <1>11, <2>1, <2>2 DEF Apart
<1> QED BY <1>5, <1>6, <1>7, <1>9, <1>10, <1>11, <1>12, <1>13, <1>14, <1>15, <1>16, <1>17, <1>18

(* The change is as possible after what is promised before it as it is in the
   metafile. *)
LEMMA ChangePossible ==
  ASSUME Inv, NEW c \in Clients, NEW e \in Changes, Change(c, e)
  PROVE  /\ \A r \in Reads(e) : Result[r] = Base[r]
         /\ Agree(view, Base, Reads(e)) /\ Possible(view, e) /\ Possible(Base, e)
<1>1. Formed /\ e \in Updates
  BY InvForms, ChangesForms
<1>2. ASSUME NEW r \in Reads(e) PROVE Result[r] = Base[r]
  <2>1. r \in Paths /\ \A d \in Changing : r \notin Changed(call[d])
    BY <1>1, ReadsForms, ChangeCalls
  <2> QED BY <1>1, <2>1 DEF Formed
<1>3. Agree(view, Base, Reads(e))
  <2>1. \A r \in Reads(e) : r \in Paths
    BY <1>1, ReadsForms
  <2> QED BY <1>2, <2>1, LeadsAt DEF Agree
<1>4. Possible(view, e)
  BY DEF Change
<1> QED BY <1>1, <1>2, <1>3, <1>4, PossibleLocal

LEMMA ChangeResult ==
  ASSUME Inv, NEW c \in Clients, NEW e \in Changes, Change(c, e), Typing'
  PROVE  /\ Base' = Base
         /\ \A r \in Changed(e) : Result'[r] = Do(Base, e)[r]
         /\ \A r \in Paths \ Changed(e) : Result'[r] = Result[r]
         /\ Fits' /\ Leads'
<1>1. Formed /\ e \in Updates
  BY InvForms, ChangesForms
<1>2. UNCHANGED <<target, journal, phase, todo>> /\ view' = Do(view, e)
  BY DEF Change, apply
<1>3. Base' = Base
  BY <1>2 DEF Base, Unapplied
<1>4. Formed'
  <2>1. CallState' /\ Apart'
    BY ChangeCalls
  <2> QED BY <2>1, Forms, PTL
<1>5. Promised' = Promised \cup {e}
  BY ChangeCalls
<1>6. /\ Promised \in SUBSET Updates /\ AllApart(Promised) /\ Base \in Namespaces
      /\ Promised \cup {e} \in SUBSET Updates /\ AllApart(Promised \cup {e})
  <2>1. Promised' \in SUBSET Updates /\ AllApart(Promised)'
    BY <1>4 DEF Formed
  <2>2. AllApart(Promised \cup {e})
    BY <1>5, <2>1 DEF AllApart, Conflict, Touched, IsUpdate
  <2> QED BY <1>1, <1>5, <2>1, <2>2 DEF Formed
<1>7. Result' = Merge(Base, Promised \cup {e})
  BY <1>3, <1>5 DEF Result, Merge, Changed, Touched, Do
<1>8. ASSUME NEW r \in Changed(e) PROVE Result'[r] = Do(Base, e)[r]
  BY <1>6, <1>7, MergeForms
<1>9. ASSUME NEW r \in Paths \ Changed(e) PROVE Result'[r] = Result[r]
  <2>1. CASE \E f \in Promised : r \in Changed(f)
    <3>1. PICK f \in Promised : r \in Changed(f)
      BY <2>1
    <3>2. Merge(Base, Promised \cup {e})[r] = Do(Base, f)[r]
      BY <1>6, <3>1, MergeForms
    <3>3. Merge(Base, Promised)[r] = Do(Base, f)[r]
      BY <1>6, <3>1, MergeForms
    <3> QED BY <1>7, <3>2, <3>3 DEF Result
  <2>2. CASE ~\E f \in Promised : r \in Changed(f)
    <3>1. Merge(Base, Promised \cup {e})[r] = Base[r]
      BY <1>6, <1>9, <2>2, MergeForms
    <3>2. Merge(Base, Promised)[r] = Base[r]
      BY <1>6, <2>2, MergeForms
    <3> QED BY <1>7, <3>1, <3>2 DEF Result
  <2> QED BY <2>1, <2>2
<1>10. Fits'
  <2>1. \A f \in Promised \cup {e} : Possible(Base, f)
    BY ChangePossible DEF Inv, Fits
  <2> QED BY <1>3, <1>5, <2>1 DEF Fits
<1>11. ASSUME NEW p \in Paths PROVE Result'[p].node = view'[p].node
  <2>1. CASE p \in Changed(e)
    <3>1. Agree(Base, view, Changed(e))
      BY <1>1, ChangePossible, ReadsForms DEF Agree
    <3>2. Do(Base, e)[p].node = Do(view, e)[p].node
      BY <1>1, <2>1, <3>1, DoSame DEF Formed
    <3> QED BY <1>2, <1>8, <2>1, <3>2
  <2>2. CASE p \notin Changed(e)
    <3>1. view'[p] = view[p]
      BY <1>1, <1>2, <2>2, DoForms DEF Formed
    <3> QED BY <1>9, <2>2, <3>1, LeadsAt
  <2> QED BY <2>1, <2>2
<1>12. Leads'
  BY <1>11 DEF Leads, Agree
<1> QED BY <1>3, <1>8, <1>9, <1>10, <1>12

LEMMA EntriesIn ==
  ASSUME journal \in Seq(Ents), todo \in Seq(Ents)
  PROVE  /\ \A i \in 1..Len(journal) : journal[i] \in Range(journal \o todo)
         /\ \A i \in 1..Len(todo) : todo[i] \in Range(journal \o todo)
<1>1. /\ journal \o todo \in Seq(Ents) /\ Len(journal \o todo) = Len(journal) + Len(todo)
      /\ \A i \in 1..Len(journal) : (journal \o todo)[i] = journal[i]
      /\ \A i \in 1..Len(todo) : (journal \o todo)[Len(journal) + i] = todo[i]
  BY ConcatProperties
<1>2. DOMAIN (journal \o todo) = 1..Len(journal) + Len(todo) /\ Len(journal) \in Nat /\ Len(todo) \in Nat
  BY <1>1, LenProperties
<1> DEFINE s == journal \o todo
<1> HIDE DEF s
<1>3. \A i \in DOMAIN s : s[i] \in Range(s)
  BY DEF Range
<1>4. /\ \A i \in 1..Len(journal) : i \in DOMAIN s /\ s[i] = journal[i]
      /\ \A i \in 1..Len(todo) : Len(journal) + i \in DOMAIN s /\ s[Len(journal) + i] = todo[i]
  <2>1. /\ \A i \in 1..Len(journal) : i \in 1..Len(journal) + Len(todo)
        /\ \A i \in 1..Len(todo) : Len(journal) + i \in 1..Len(journal) + Len(todo)
    BY <1>2
  <2> QED BY <1>1, <1>2, <2>1 DEF s
<1>5. \A i \in 1..Len(journal) : journal[i] \in Range(s)
  BY <1>3, <1>4
<1>6. \A i \in 1..Len(todo) : todo[i] \in Range(s)
  BY <1>3, <1>4
<1> QED BY <1>5, <1>6 DEF s

(* The copies in the part a change is about *)
LEMMA ChangeCopies ==
  ASSUME Inv, NEW c \in Clients, NEW e \in Changes, Change(c, e)
  PROVE  /\ \A r \in Changed(e) : cache[r] \in {Empty, view[r]} /\ \A d \in Changing : r \notin Changed(call[d])
         /\ e.op # "rename" => \A r \in Changed(e) : cache[r] = Empty \/ (e.op = "unlink" /\ r = e.path)
         /\ e.op = "rename" =>
              \A r \in Paths : /\ Below(e.to, r) => cache[r] = Empty
                               /\ Below(e.path, r) /\ cache[r] # Empty =>
                                    Moved(r, e.path, e.to) \in Paths /\ cache[r] = view'[Moved(r, e.path, e.to)]
<1>1. Formed /\ e \in Updates /\ WellFormed(view) /\ view' = Do(view, e)
  BY InvForms, ChangesForms DEF Change, Inv, Typing
<1>2. Possible(view, e)
  BY ChangePossible
<1>3. ASSUME NEW r \in Changed(e) PROVE cache[r] \in {Empty, view[r]} /\ \A d \in Changing : r \notin Changed(call[d])
  <2>1. r \in Paths /\ \A d \in Changing : r \notin Changed(call[d])
    BY <1>1, ReadsForms, ChangeCalls
  <2> QED BY <2>1 DEF Inv, OwnCopies
<1>4. \A r \in Paths : cache[r] = Empty \/ IsFile(cache[r])
  BY DEF Inv, CopyTypes
<1>5. e.path \in Paths /\ e.path \in Changed(e) /\ e.op \in {"mknod", "mkdir", "unlink", "rmdir", "rename"}
  BY <1>1, EntForms, ReadsForms
<1>6. ASSUME e.op # "rename", NEW r \in Changed(e) PROVE cache[r] = Empty \/ (e.op = "unlink" /\ r = e.path)
  <2>1. r \in Paths /\ Below(e.path, r)
    BY <1>1, <1>6, EntForms DEF Changed
  <2>2. CASE r # e.path
    <3>1. view[r] = Empty
      <4>1. CASE e.op = "rmdir"
        <5>1. view[r].node = NONE
          BY <1>1, <1>2, <2>1, <2>2, <4>1, PossibleForms DEF IsEmptyDir
        <5> QED BY <1>1, <1>5, <2>1, <5>1, BelowNothing
      <4>2. CASE e.op # "rmdir"
        <5>1. view[e.path].node # DIR
          BY <1>1, <1>2, <1>5, <1>6, <4>2, PossibleForms, NodesAssumption DEF IsFile
        <5> QED BY <1>1, <1>5, <2>1, <2>2, <5>1, BelowNothing
      <4> QED BY <4>1, <4>2
    <3> QED BY <1>3, <3>1
  <2>3. CASE r = e.path /\ e.op # "unlink"
    <3>1. ~IsFile(view[r])
      BY <1>1, <1>2, <1>5, <1>6, <2>3, PossibleForms, NodesAssumption DEF IsFile
    <3> QED BY <1>3, <1>4, <2>1, <3>1
  <2> QED BY <2>2, <2>3
<1>7. ASSUME e.op = "rename", NEW r \in Paths, Below(e.to, r) PROVE cache[r] = Empty
  <2>1. e.to \in Paths /\ r \in Changed(e) /\ view[e.to].node = NONE
    BY <1>1, <1>2, <1>7, EntForms, ReadsForms, PossibleForms
  <2>2. view[r] = Empty
    BY <1>1, <1>7, <2>1, BelowNothing
  <2> QED BY <1>3, <2>1, <2>2
<1>8. ASSUME e.op = "rename", NEW r \in Paths, Below(e.path, r), cache[r] # Empty
      PROVE  Moved(r, e.path, e.to) \in Paths /\ cache[r] = view'[Moved(r, e.path, e.to)]
  <2>1. e.to \in Paths /\ r \in Changed(e)
    BY <1>1, <1>8, EntForms, ReadsForms
  <2>2. cache[r] = view[r] /\ view[r].node # NONE
    BY <1>3, <1>4, <1>8, <2>1, NodesAssumption DEF IsFile
  <2>3. Moved(r, e.path, e.to) \in Paths
    BY <1>1, <1>2, <1>8, <2>2, PossibleForms
  <2>4. Below(e.to, Moved(r, e.path, e.to)) /\ Moved(Moved(r, e.path, e.to), e.to, e.path) = r
    BY <1>5, <1>8, <2>1, <2>3, MovedPath
  <2>5. Move(view, e.path, e.to)[Moved(r, e.path, e.to)] = view[r]
    BY <1>1, <1>5, <2>1, <2>3, <2>4, MoveIn DEF Formed
  <2> QED BY <1>1, <1>8, <2>2, <2>3, <2>5, DoForms DEF Formed
<1> QED BY <1>3, <1>6, <1>7, <1>8

LEMMA ChangeKeeps ==
  ASSUME Inv, FilesStay, NEW c \in Clients, NEW e \in Changes, Change(c, e)
  PROVE  Inv'
<1>1. UNCHANGED <<cache, target, journal, phase, todo, pending, applies>>
  BY DEF Change, apply
<1>2. /\ calls < MaxCalls /\ calls' = calls + 1 /\ view' = Do(view, e) /\ Possible(view, e)
      /\ open' \subseteq open /\ dirty' \subseteq dirty
      /\ e.op = "rename" => /\ phase \notin {"update", "queue"}
                            /\ NodesBelow(e.path) \cap pending = {}
  BY DEF Change, MayCall, Overtakes, FilesStay
<1>3. e \in Updates /\ e \in Ents /\ (e.op = "mknod" => New(e.node))
  BY ChangesForms
<1>4. Formed /\ WellFormed(view) /\ e.path \in Paths /\ e.path \in Changed(e) /\ Changed(e) \subseteq Paths
  BY <1>3, InvForms, ReadsForms, EntForms DEF Inv, Typing
<1>5. /\ call' \in [Clients -> Ents \cup {Quiet}] /\ pc' \in [Clients -> {"idle", "append", "cache"}]
      /\ call'[c] = e /\ pc'[c] = IF e.op = "unlink" THEN "cache" ELSE "append"
      /\ c \notin Underway /\ Underway' = Underway \cup {c} /\ Changing' = Changing \cup {c}
      /\ \A d \in Underway : d \in Clients /\ call'[d] = call[d] /\ pc'[d] = pc[d]
  BY ChangeCalls
<1>6. /\ Renames \subseteq Renames' /\ \A d \in Renames' : d \in Renames \/ (d = c /\ e.op = "rename")
      /\ e.op = "rename" => c \in Renames'
      /\ Promised' = Promised \cup {e}
      /\ \A d \in Changing : /\ Changed(e) \cap Reads(call[d]) = {} /\ Reads(e) \cap Changed(call[d]) = {}
                             /\ Changed(e) \cap Changed(call[d]) = {}
      /\ \A d \in Underway : \A p \in Touched(call[d]) : p \notin Changed(e)
      /\ CallState' /\ Apart'
  BY ChangeCalls
<1>7. \A d \in Changing : d \in Underway /\ call[d] \in Updates /\ call[d].path \in Changed(call[d])
  BY <1>4, ReadsForms DEF Formed
<1>8. Typing'
  <2>1. e.op = "mknod" => Absent(e.node, view)
    BY <1>3 DEF New, InView, Absent
  <2>2. WellFormed(view')
    BY <1>2, <1>3, <1>4, <2>1, DoWellFormed
  <2>3. calls' \in 0..MaxCalls
    BY <1>2, BoundsAssumption DEF Inv, Typing
  <2> QED BY <1>1, <1>2, <1>5, <2>2, <2>3 DEF Inv, Typing
<1>9. Phases'
  BY <1>1, <1>2, <1>6 DEF Inv, Phases
<1>10. /\ Base' = Base
       /\ \A r \in Changed(e) : Result'[r] = Do(Base, e)[r]
       /\ \A r \in Paths \ Changed(e) : Result'[r] = Result[r]
       /\ Fits' /\ Leads'
  BY <1>8, ChangeResult
<1>11. \A r \in Paths \ Changed(e) : view'[r] = view[r]
  BY <1>2, <1>3, <1>4, DoForms DEF Formed
<1>12. Unapplied' = Unapplied /\ Written' = Written
  BY <1>1 DEF Unapplied, Written
<1>13. Fresh'
  <2>1. e.op = "mknod" => Absent(e.node, target)
    BY <1>3 DEF New, Absent
  <2> QED BY <1>1, <1>6, <1>12, <2>1 DEF Inv, Fresh
<1>14. MakesOnce'
  <2>1. ASSUME e.op = "mknod", NEW j \in 1..Len(Unapplied) PROVE e.node # Unapplied[j].node
    <3>1. journal \in Seq(Ents) /\ todo \in Seq(Ents)
      BY DEF Inv, Typing
    <3>2. Unapplied[j] \in Range(journal \o todo)
      BY <3>1, EntriesIn DEF Unapplied
    <3> QED BY <1>3, <2>1, <3>2 DEF New
  <2>2. ASSUME e.op = "mknod", NEW f \in Promised PROVE e.node # f.node
    <3>1. PICK d \in Underway : f = call[d]
      BY DEF Promised, ToAppend
    <3>2. call[d] \in Range(call)
      BY <1>5 DEF Range, Inv, Typing
    <3> QED BY <1>3, <2>2, <3>1, <3>2 DEF New
  <2> QED BY <1>6, <1>12, <2>1, <2>2 DEF Inv, MakesOnce
<1>15. Effects'
  <2>1. \A d \in Changing : view'[call[d].path] = view[call[d].path] /\ call'[d] = call[d]
    BY <1>5, <1>6, <1>7, <1>11 DEF Changed
  <2>2. e.op = "mknod" => view'[e.path] = File(e.node)
    BY <1>2, <1>3, <1>4, DoForms DEF Formed, Namespaces
  <2>3. e.op = "unlink" => view'[e.path] = Empty
    BY <1>2, <1>3, <1>4, DoForms DEF Formed, Namespaces
  <2> QED BY <1>5, <2>1, <2>2, <2>3 DEF Inv, Effects
<1>16. CopyTypes'
  BY <1>1 DEF Inv, CopyTypes
<1>17. OwnCopies'
  <2> SUFFICES ASSUME NEW p \in Paths, \A d \in Changing' : p \notin Changed(call'[d])
               PROVE  cache[p] \in {Empty, view'[p]}
    BY <1>1 DEF OwnCopies, Changed, Touched
  <2>1. p \notin Changed(e) /\ \A d \in Changing : p \notin Changed(call[d])
    BY <1>5, <1>7
  <2> QED BY <1>11, <2>1 DEF Inv, OwnCopies
<1>18. NoCopies'
  <2>1. ASSUME NEW d \in Changing, call[d].op # "rename", NEW r \in Changed(call[d])
        PROVE  cache[r] = Empty \/ (call[d].op = "unlink" /\ pc'[d] = "cache" /\ r = call[d].path)
    BY <1>5, <1>7, <2>1 DEF Inv, NoCopies
  <2>2. e.op # "rename" => \A r \in Changed(e) : cache[r] = Empty \/ (e.op = "unlink" /\ r = e.path)
    BY ChangeCopies
  <2>3. ASSUME NEW d \in Changing', call'[d].op # "rename", NEW r \in Changed(call'[d])
        PROVE  cache[r] = Empty \/ (call'[d].op = "unlink" /\ pc'[d] = "cache" /\ r = call'[d].path)
    <3>1. CASE d = c
      BY <1>5, <2>2, <2>3, <3>1
    <3>2. CASE d \in Changing
      BY <1>5, <1>7, <2>1, <2>3, <3>2
    <3> QED BY <1>5, <3>1, <3>2
  <2> QED BY <1>1, <2>3 DEF NoCopies, Changed, Touched
<1>19. \A d \in Renames : /\ d \in Changing /\ d \in Underway /\ call'[d] = call[d] /\ pc'[d] = pc[d]
                          /\ Changed(e) \cap Changed(call[d]) = {}
                          /\ \A q : Under(d, q)' = Under(d, q) /\ Old(d, q)' = Old(d, q)
  BY <1>4, <1>5, <1>6, RenameForms DEF Under, Old, Formed
<1>20. CopiesMove'
  <2>1. ASSUME NEW d \in Renames, NEW r \in Paths, Below(call[d].path, r), Moved(r, call[d].path, call[d].to) \in Paths
        PROVE  view'[Moved(r, call[d].path, call[d].to)] = view[Moved(r, call[d].path, call[d].to)]
    <3>1. Below(call[d].to, Moved(r, call[d].path, call[d].to))
      BY <1>4, <2>1, RenameForms, MovedPath
    <3>2. Moved(r, call[d].path, call[d].to) \in Changed(call[d])
      BY <1>4, <2>1, <3>1, RenameForms
    <3> QED BY <1>11, <1>19, <2>1, <3>2
  <2>2. ASSUME NEW d \in Renames, NEW r \in Paths
        PROVE  /\ Below(call[d].to, r) => cache[r] = Empty
               /\ Below(call[d].path, r) /\ cache[r] # Empty =>
                    Moved(r, call[d].path, call[d].to) \in Paths /\ cache[r] = view'[Moved(r, call[d].path, call[d].to)]
    BY <2>1, <2>2 DEF Inv, CopiesMove
  <2>3. e.op = "rename" =>
          \A r \in Paths : /\ Below(e.to, r) => cache[r] = Empty
                           /\ Below(e.path, r) /\ cache[r] # Empty =>
                                Moved(r, e.path, e.to) \in Paths /\ cache[r] = view'[Moved(r, e.path, e.to)]
    BY ChangeCopies
  <2>4. ASSUME NEW d \in Renames', NEW r \in Paths
        PROVE  /\ Below(call'[d].to, r) => cache[r] = Empty
               /\ Below(call'[d].path, r) /\ cache[r] # Empty =>
                    Moved(r, call'[d].path, call'[d].to) \in Paths /\ cache[r] = view'[Moved(r, call'[d].path, call'[d].to)]
    <3>1. CASE d \in Renames
      BY <1>19, <2>2, <3>1
    <3>2. CASE d = c /\ e.op = "rename"
      BY <1>5, <2>3, <3>2
    <3> QED BY <1>6, <3>1, <3>2
  <2> QED BY <1>1, <2>4 DEF CopiesMove
<1>21. ASSUME NEW p \in Changed(e), IsFile(view'[p])
       PROVE  \/ e.op = "mknod" /\ p = e.path /\ view'[p] = File(e.node) /\ Result'[p] = File(e.node)
              \/ /\ e.op = "rename" /\ Below(e.to, p)
                 /\ \E q \in Paths : /\ q = Moved(p, e.to, e.path) /\ Below(e.path, q) /\ q \in Changed(e)
                                     /\ view'[p] = view[q] /\ Result'[p] = Result[q]
  <2>1. \A r \in Changed(e) : Result[r] = Base[r]
    BY <1>3, ChangePossible, ReadsForms
  <2>2. \A q \in Paths : Below(e.path, q) => q \in Changed(e)
    BY <1>3, ReadsForms
  <2> QED BY <1>2, <1>3, <1>4, <1>10, <1>21, <2>1, <2>2, ChangedFiles DEF Formed
<1>22. \A q : EntryAt(q)' = EntryAt(q)
  BY <1>12 DEF EntryAt
<1>23. ASSUME NEW p \in Paths \ Changed(e) PROVE CopyAt(p, view[p]) => CopyAt(p, view[p])'
  <2>1. view'[p] = view[p]
    BY <1>11
  <2>2. ASSUME \A d \in Renames : p \notin Changed(call[d]), cache[p] = view[p] PROVE CopyAt(p, view[p])'
    <3>1. \A d \in Renames' : p \notin Changed(call'[d])
      BY <1>5, <1>6, <1>19, <1>23, <2>2
    <3> QED BY <1>1, <2>1, <2>2, <3>1 DEF CopyAt, Changed, Touched
  <2>3. ASSUME NEW d \in Renames, Under(d, p), cache[Old(d, p)] = view[p] PROVE CopyAt(p, view[p])'
    BY <1>1, <1>6, <1>19, <2>1, <2>3 DEF CopyAt
  <2> QED BY <2>2, <2>3 DEF CopyAt
<1>24. ASSUME NEW p \in Paths \ Changed(e) PROVE EntryFor(p) => EntryFor(p)'
  <2>1. ASSUME \A d \in Renames : p \notin Changed(call[d]) \/ pc[d] = "cache", EntryAt(p) PROVE EntryFor(p)'
    <3>1. \A d \in Renames' : p \notin Changed(call'[d]) \/ pc'[d] = "cache"
      BY <1>5, <1>6, <1>19, <1>24, <2>1
    <3> QED BY <1>22, <2>1, <3>1 DEF EntryFor, Changed, Touched
  <2>2. ASSUME NEW d \in Renames, pc[d] = "append", Under(d, p), EntryAt(Old(d, p)) PROVE EntryFor(p)'
    BY <1>6, <1>19, <1>22, <2>2 DEF EntryFor
  <2> QED BY <2>1, <2>2 DEF EntryFor
<1>25. \A p \in Paths : WritingOf(p) => WritingOf(p)'
  BY <1>5 DEF WritingOf
<1>26. ASSUME NEW p \in Changed(e), NEW q \in Paths, e.op = "rename", Below(e.to, p), q = Moved(p, e.to, e.path),
              q \in Changed(e), IsFile(view[q]), view'[p] = view[q], Result[q] # view[q]
       PROVE  CopyAt(p, view[p])' /\ (EntriesSuffice => view'[p].node \in pending \/ EntryFor(p)')
  <2>1. CopyAt(q, view[q]) /\ (EntriesSuffice => view[q].node \in pending \/ EntryFor(q) \/ WritingOf(q))
    BY <1>26 DEF Inv, Owed, Held, Brought
  <2>2. \A d \in Renames : q \notin Changed(call[d]) /\ ~Under(d, q)
    BY <1>4, <1>19, <1>26, UnderForms
  <2>3. c \in Renames' /\ Under(c, p)' /\ Old(c, p)' = q
    BY <1>5, <1>6, <1>26 DEF Under, Old
  <2>4. CopyAt(p, view[p])'
    <3>1. cache'[q] = view'[p]
      BY <1>1, <1>26, <2>1, <2>2 DEF CopyAt
    <3> QED BY <2>3, <3>1 DEF CopyAt
  <2>5. ~WritingOf(q)
    <3> SUFFICES ASSUME NEW d \in Underway, IsFsync(call[d]), call[d].path = q PROVE FALSE
      BY DEF WritingOf
    <3>1. q \in Touched(call[d])
      BY DEF Touched, IsFsync
    <3> QED BY <1>6, <1>26, <3>1
  <2>6. EntryFor(q) => EntryFor(p)'
    <3>1. EntryFor(q) => EntryAt(q)
      BY <2>2 DEF EntryFor
    <3>2. EntryAt(q) => EntryAt(Old(c, p))'
      BY <1>22, <2>3
    <3>3. pc'[c] = "append"
      BY <1>5, <1>26
    <3> QED BY <2>3, <3>1, <3>2, <3>3 DEF EntryFor
  <2> QED BY <1>26, <2>1, <2>4, <2>5, <2>6
<1>27. Owed'
  <2> SUFFICES ASSUME NEW p \in Paths, IsFile(view'[p]), Result'[p] # view'[p]
               PROVE  /\ CopyAt(p, view[p])'
                      /\ EntriesSuffice => view'[p].node \in pending \/ EntryFor(p)' \/ WritingOf(p)'
    BY <1>1 DEF Owed, Held, Brought
  <2>1. CASE p \notin Changed(e)
    <3>1. view'[p] = view[p] /\ Result'[p] = Result[p]
      BY <1>10, <1>11, <2>1
    <3> QED BY <1>23, <1>24, <1>25, <2>1, <3>1 DEF Inv, Owed, Held, Brought
  <2>2. CASE p \in Changed(e)
    <3>1. PICK q \in Paths : /\ e.op = "rename" /\ Below(e.to, p)
                             /\ q = Moved(p, e.to, e.path) /\ Below(e.path, q) /\ q \in Changed(e)
                             /\ view'[p] = view[q] /\ Result'[p] = Result[q]
      BY <1>21, <2>2
    <3> QED BY <1>26, <2>2, <3>1
  <2> QED BY <2>1, <2>2
<1>28. PendingThere'
  <2> SUFFICES ASSUME NEW p \in Paths, view'[p].node \in pending
               PROVE  target[p].node = view'[p].node /\ \A d \in Changing' : p \notin Changed(call'[d])
    BY <1>1 DEF PendingThere, Changed, Touched
  <2>1. CASE p \notin Changed(e)
    <3>1. target[p].node = view'[p].node /\ \A d \in Changing : p \notin Changed(call[d])
      BY <1>11, <2>1 DEF Inv, PendingThere
    <3> QED BY <1>5, <1>7, <2>1, <3>1
  <2>2. CASE p \in Changed(e)
    <3>1. IsFile(view'[p])
      BY DEF Inv, Typing, IsFile
    <3>2. CASE e.op = "mknod" /\ view'[p] = File(e.node)
      <4>1. view'[p].node = e.node
        BY <3>2 DEF File
      <4> QED BY <1>3, <3>2, <4>1 DEF New
    <3>3. CASE e.op = "rename" /\ \E q \in Paths : Below(e.path, q) /\ view'[p] = view[q]
      <4>1. PICK q \in Paths : Below(e.path, q) /\ view'[p] = view[q]
        BY <3>3
      <4>2. view[q].node \in NodesBelow(e.path)
        BY <3>1, <4>1 DEF NodesBelow, IsFile
      <4> QED BY <1>2, <3>3, <4>1, <4>2
    <3> QED BY <1>21, <2>2, <3>1, <3>2, <3>3
  <2> QED BY <2>1, <2>2
<1> QED BY <1>6, <1>8, <1>9, <1>10, <1>13, <1>14, <1>15, <1>16, <1>17, <1>18, <1>20, <1>27, <1>28 DEF Inv

-----------------------------------------------------------------------------
(* The invariant holds at first, and every step keeps it. *)

LEMMA InitInv == Init => Inv
<1> SUFFICES ASSUME Init PROVE Inv
  OBVIOUS
<1>1. /\ WellFormed(view) /\ target = view /\ cache = [p \in Paths |-> Empty]
      /\ journal = <<>> /\ phase = "idle" /\ todo = <<>> /\ pending = {} /\ open = {} /\ dirty = {}
      /\ call = [c \in Clients |-> Quiet] /\ pc = [c \in Clients |-> "idle"] /\ calls = 0 /\ applies = 0
  BY StartsAssumption DEF Init
<1>2. view \in Namespaces /\ target \in Namespaces
  BY <1>1, WellFormedParts
<1>3. Underway = {} /\ Changing = {} /\ Renames = {} /\ ToAppend = {} /\ Promised = {}
  <2>1. Underway = {}
    BY <1>1 DEF Underway
  <2> QED BY <2>1 DEF Changing, Renames, ToAppend, Promised
<1>4. Typing
  <2>1. cache \in Namespaces
    BY <1>1, NodeForms DEF Namespaces
  <2>2. journal \in Seq(Ents) /\ todo \in Seq(Ents)
    BY <1>1
  <2>3. calls \in 0..MaxCalls /\ applies \in 0..MaxApplies
    BY <1>1, BoundsAssumption
  <2> QED BY <1>1, <2>1, <2>2, <2>3 DEF Typing
<1>5. CallState /\ Apart /\ Phases
  BY <1>1, <1>3 DEF CallState, Apart, Phases, IsFsync, Quiet
<1>6. Unapplied = <<>> /\ Len(Unapplied) = 0
  BY <1>1 DEF Unapplied
<1>7. Result = target
  <2>1. Base = target
    BY <1>2, <1>6, FinalEmpty DEF Base
  <2> QED BY <1>2, <1>3, <2>1, MergeNothing DEF Result
<1>8. Fits /\ Leads /\ Fresh /\ MakesOnce
  BY <1>1, <1>3, <1>6, <1>7 DEF Fits, Leads, Fresh, MakesOnce, Agree
<1>9. Effects /\ CopyTypes /\ OwnCopies /\ NoCopies /\ CopiesMove
  BY <1>1, <1>3 DEF Effects, CopyTypes, OwnCopies, NoCopies, CopiesMove
<1>10. Owed /\ PendingThere
  BY <1>1, <1>7 DEF Owed, Held, Brought, PendingThere
<1> QED BY <1>4, <1>5, <1>8, <1>9, <1>10 DEF Inv

LEMMA NextKeeps == FilesStay /\ Inv /\ [Next]_vars => Inv'
<1> SUFFICES ASSUME FilesStay, Inv, [Next]_vars PROVE Inv'
  OBVIOUS
<1>1. CASE UNCHANGED vars
  <2>1. UNCHANGED <<view, cache, target, journal, phase, todo, pending, applies, open, dirty, call, pc, calls>>
    BY <1>1 DEF vars, dirs, apply, files, client
  <2>2. Typing' /\ Phases'
    <3>1. Renames' = Renames
      BY <2>1, ClientsKept
    <3> QED BY <2>1, <3>1 DEF Inv, Typing, Phases
  <2>3. Unapplied' = Unapplied /\ Written' = Written
    BY <2>1 DEF Unapplied, Written
  <2> QED BY <2>1, <2>2, <2>3, ReplayKept
<1>2. ASSUME NEW c \in Clients, NEW e \in Changes, Change(c, e) PROVE Inv'
  BY <1>2, ChangeKeeps
<1>3. ASSUME NEW c \in Clients, AppendEntry(c) \/ CacheStep(c) PROVE Inv'
  BY <1>3, AppendEntryKeeps, CacheStepKeeps
<1>4. ASSUME NEW c \in Clients, NEW p \in Paths, Write(c, p) PROVE Inv'
  BY <1>4, WriteKeeps
<1>5. ASSUME NEW p \in Paths, Backup(p) PROVE Inv'
  BY <1>5, BackupKeeps
<1>6. CASE ApplyStart \/ ApplyUpdate \/ ApplyRename \/ ApplyFsync \/ ApplyEnd
  BY <1>6, ApplyStartKeeps, ApplyUpdateKeeps, ApplyRenameKeeps, ApplyFsyncKeeps, ApplyEndKeeps
<1>7. ASSUME NEW n \in Nodes, Open(n) \/ Close(n) \/ WriteBack(n) PROVE Inv'
  BY <1>7, OpenKeeps, WriteBackKeeps
<1> QED BY <1>1, <1>2, <1>3, <1>4, <1>5, <1>6, <1>7 DEF Next

(* Every state keeps the calls, the copies, the journal and the target in step
   (mcachefs_journal_append, mcachefs_journal_apply and the steps of a call). *)
THEOREM Invariance == ASSUME FilesStay PROVE Spec => []Inv
<1>1. Init => Inv
  BY InitInv
<1>2. Inv /\ [Next]_vars => Inv'
  BY NextKeeps
<1> QED BY <1>1, <1>2, PTL DEF Spec

-----------------------------------------------------------------------------
(* The types, whatever the departures *)

Types ==
  /\ view \in Namespaces /\ cache \in Namespaces /\ target \in Namespaces
  /\ journal \in Seq(Ents) /\ todo \in Seq(Ents)
  /\ phase \in {"idle", "update", "queue", "sync"}
  /\ todo # <<>> => phase \in {"update", "queue"}
  /\ pending # {} => phase \in {"queue", "sync"}
  /\ pending \subseteq Nodes /\ open \subseteq Nodes /\ dirty \subseteq Nodes
  /\ pc \in [Clients -> {"idle", "append", "cache"}]
  /\ call \in [Clients -> Ents \cup {Quiet}]
  /\ calls \in 0..MaxCalls /\ applies \in 0..MaxApplies
  /\ \A c \in Clients : /\ pc[c] = "idle" <=> call[c] = Quiet
                        /\ pc[c] = "cache" => call[c].op \in {"mknod", "unlink", "rename"}

LEMMA QuietIsNoEntry == Quiet \notin Ents
  BY DEF Quiet, Ents

(* A client goes on with a call, or returns from it. *)
LEMMA CallTypes ==
  ASSUME Types, NEW c \in Clients, NEW e \in Ents, NEW l \in {"append", "cache"},
         l = "cache" => e.op \in {"mknod", "unlink", "rename"},
         \/ pc' = [pc EXCEPT ![c] = l] /\ call' = [call EXCEPT ![c] = e]
         \/ pc' = [pc EXCEPT ![c] = "idle"] /\ call' = [call EXCEPT ![c] = Quiet]
  PROVE  /\ pc' \in [Clients -> {"idle", "append", "cache"}]
         /\ call' \in [Clients -> Ents \cup {Quiet}]
         /\ \A d \in Clients : /\ pc'[d] = "idle" <=> call'[d] = Quiet
                               /\ pc'[d] = "cache" => call'[d].op \in {"mknod", "unlink", "rename"}
<1>1. e # Quiet
  BY QuietIsNoEntry
<1>2. /\ pc' \in [Clients -> {"idle", "append", "cache"}]
      /\ call' \in [Clients -> Ents \cup {Quiet}]
  BY DEF Types
<1>3. ASSUME NEW d \in Clients
      PROVE  /\ pc'[d] = "idle" <=> call'[d] = Quiet
             /\ pc'[d] = "cache" => call'[d].op \in {"mknod", "unlink", "rename"}
  <2>1. CASE d = c
    BY <1>1, <2>1 DEF Types
  <2>2. CASE d # c
    BY <2>2 DEF Types
  <2> QED BY <2>1, <2>2
<1> QED BY <1>2, <1>3

LEMMA ApplyEntryType ==
  ASSUME NEW ns \in Namespaces, NEW e \in Ents
  PROVE  ApplyEntry(ns, e) \in Namespaces
  BY DoForms DEF ApplyEntry, Updates

LEMMA ClientTypes ==
  ASSUME Types, NEW c \in Clients
  PROVE  /\ \A e \in Changes : Change(c, e) => Types'
         /\ AppendEntry(c) \/ CacheStep(c) => Types'
         /\ \A p \in Paths : Write(c, p) => Types'
<1>1. ASSUME NEW e \in Changes, Change(c, e) PROVE Types'
  <2> DEFINE l == IF e.op = "unlink" THEN "cache" ELSE "append"
  <2>1. e \in Ents /\ e \in Updates
    BY ChangesForms
  <2>2. view' \in Namespaces /\ UNCHANGED <<cache, target, journal, phase, todo, pending, applies>>
    BY <1>1, <2>1, DoForms DEF Change, Types, apply
  <2>3. pc' = [pc EXCEPT ![c] = l] /\ call' = [call EXCEPT ![c] = e]
    BY <1>1 DEF Change, Goto
  <2>4. calls' \in 0..MaxCalls
    BY <1>1, BoundsAssumption DEF Change, MayCall, Types
  <2>5. open' \subseteq Nodes /\ dirty' \subseteq Nodes
    BY <1>1 DEF Change, Types
  <2>6. l \in {"append", "cache"} /\ (l = "cache" => e.op \in {"mknod", "unlink", "rename"})
    OBVIOUS
  <2> HIDE DEF l
  <2> QED BY <2>1, <2>2, <2>3, <2>4, <2>5, <2>6, CallTypes DEF Types
<1>2. ASSUME AppendEntry(c) PROVE Types'
  <2> DEFINE e == call[c]
             J == [i \in DOMAIN journal |-> Rewritten(journal[i], e.path, e.to)]
  <2>1. pc[c] = "append" /\ phase \in {"idle", "sync"} /\ UNCHANGED <<view, cache, target, phase, todo, pending, applies, open, calls>>
    BY <1>2 DEF AppendEntry, dirs, apply
  <2>2. e \in Ents
    BY <2>1 DEF Types
  <2>3. J \in Seq(Ents) \/ e.op # "rename"
    <3> SUFFICES ASSUME e.op = "rename" PROVE J \in Seq(Ents)
      OBVIOUS
    <3>1. e.path \in Paths /\ e.to \in Paths
      BY <2>2 DEF Ents, Proper
    <3>2. journal \in Seq(Ents) /\ DOMAIN journal = 1..Len(journal) /\ Len(journal) \in Nat
          /\ \A i \in 1..Len(journal) : journal[i] \in Ents
      BY LenProperties, ElementOfSeq DEF Types
    <3> HIDE DEF e
    <3>3. \A i \in 1..Len(journal) : Rewritten(journal[i], e.path, e.to) \in Ents
      BY <3>1, <3>2, RewriteForms
    <3>4. J \in [1..Len(journal) -> Ents]
      BY <3>2, <3>3
    <3> QED BY <3>2, <3>4, SeqDef
  <2>4. journal' = IF e.op = "rename" THEN Append(J, e) ELSE Append(journal, e)
    BY <1>2 DEF AppendEntry, Appended
  <2> HIDE DEF J
  <2>5. journal' \in Seq(Ents)
    BY <2>2, <2>3, <2>4 DEF Types
  <2>6. \/ e.op \in {"mknod", "rename"} /\ pc' = [pc EXCEPT ![c] = "cache"] /\ call' = call
        \/ pc' = [pc EXCEPT ![c] = "idle"] /\ call' = [call EXCEPT ![c] = Quiet]
    BY <1>2 DEF AppendEntry, Goto, Return
  <2>7. dirty' \subseteq Nodes
    BY <1>2 DEF AppendEntry, Types
  <2>8. /\ pc' \in [Clients -> {"idle", "append", "cache"}]
        /\ call' \in [Clients -> Ents \cup {Quiet}]
        /\ \A d \in Clients : /\ pc'[d] = "idle" <=> call'[d] = Quiet
                              /\ pc'[d] = "cache" => call'[d].op \in {"mknod", "unlink", "rename"}
    <3>1. CASE e.op \in {"mknod", "rename"} /\ pc' = [pc EXCEPT ![c] = "cache"] /\ call' = call
      <4>1. call' = [call EXCEPT ![c] = e]
        BY <3>1 DEF Types
      <4> HIDE DEF e
      <4> QED BY <2>2, <3>1, <4>1, CallTypes
    <3>2. CASE pc' = [pc EXCEPT ![c] = "idle"] /\ call' = [call EXCEPT ![c] = Quiet]
      BY <2>2, <3>2, CallTypes
    <3> QED BY <2>6, <3>1, <3>2
  <2> QED BY <2>1, <2>5, <2>7, <2>8 DEF Types
<1>3. ASSUME CacheStep(c) PROVE Types'
  <2> DEFINE e == call[c]
  <2>1. pc[c] = "cache" /\ UNCHANGED <<view, target, journal, phase, todo, pending, applies, open, dirty, calls>>
    BY <1>3 DEF CacheStep, apply, files
  <2>2. e \in Ents /\ e.op \in {"mknod", "unlink", "rename"}
    BY <2>1 DEF Types
  <2>3. /\ e.op = "mknod" => cache' = [cache EXCEPT ![e.path] = File(e.node)]
        /\ e.op = "unlink" => cache' = [cache EXCEPT ![e.path] = Empty]
        /\ e.op = "rename" => cache' = CacheRename(e)
    BY <1>3 DEF CacheStep
  <2>4. \/ e.op = "unlink" /\ pc' = [pc EXCEPT ![c] = "append"] /\ call' = call
        \/ pc' = [pc EXCEPT ![c] = "idle"] /\ call' = [call EXCEPT ![c] = Quiet]
    BY <1>3 DEF CacheStep, Goto, Return
  <2>5. \/ pc' = [pc EXCEPT ![c] = "append"] /\ call' = [call EXCEPT ![c] = e]
        \/ pc' = [pc EXCEPT ![c] = "idle"] /\ call' = [call EXCEPT ![c] = Quiet]
    BY <2>4 DEF Types
  <2> HIDE DEF e
  <2>6. cache' \in Namespaces
    <3>1. CASE e.op = "mknod"
      BY <2>2, <2>3, <3>1, NodeForms DEF Types, Namespaces, Ents, Proper
    <3>2. CASE e.op = "unlink"
      BY <2>3, <3>2, NodeForms DEF Types, Namespaces
    <3>3. CASE e.op = "rename"
      <4>1. e.path \in Paths /\ e.to \in Paths /\ cache \in Namespaces
        BY <2>2, <3>3 DEF Ents, Proper, Types
      <4> QED BY <2>3, <3>3, <4>1, MoveForms DEF CacheRename
    <3> QED BY <2>2, <3>1, <3>2, <3>3
  <2> QED BY <2>1, <2>2, <2>5, <2>6, CallTypes DEF Types
<1>4. ASSUME NEW p \in Paths, Write(c, p) PROVE Types'
  <2> DEFINE n == view[p].node
             e == Entry("fsync", p, LOST, n)
  <2>1. /\ UNCHANGED <<target, journal, phase, todo, pending, applies, open>> /\ n \in Nodes
        /\ view[p].ver < MaxVer /\ calls < MaxCalls /\ calls' = calls + 1
        /\ view' = [view EXCEPT ![p].ver = @ + 1] /\ cache' = [cache EXCEPT ![p].ver = view[p].ver + 1]
        /\ \/ UNCHANGED <<dirty, pc, call>>
           \/ /\ dirty' = dirty \cup {n}
              /\ pc' = [pc EXCEPT ![c] = "append"] /\ call' = [call EXCEPT ![c] = e]
    BY <1>4 DEF Write, MayCall, Goto, files, apply, IsFile
  <2>2. e \in Ents
    BY <2>1 DEF Entry, Ents, Proper
  <2>3. view \in Namespaces /\ cache \in Namespaces
    BY DEF Types
  <2>4. view[p] \in Entries /\ cache[p] \in Entries
    BY <2>3 DEF Namespaces
  <2>5. view[p].ver + 1 \in 0..MaxVer
    BY <2>1, <2>4, BoundsAssumption DEF Entries
  <2>6. [view[p] EXCEPT !.ver = @ + 1] \in Entries /\ [cache[p] EXCEPT !.ver = view[p].ver + 1] \in Entries
    BY <2>4, <2>5 DEF Entries
  <2>7. view' \in Namespaces /\ cache' \in Namespaces
    BY <2>1, <2>3, <2>6 DEF Namespaces
  <2>8. calls' \in 0..MaxCalls
    BY <2>1, BoundsAssumption DEF Types
  <2> HIDE DEF e
  <2>9. CASE UNCHANGED <<dirty, pc, call>>
    BY <2>1, <2>7, <2>8, <2>9 DEF Types
  <2>10. CASE dirty' = dirty \cup {n} /\ pc' = [pc EXCEPT ![c] = "append"] /\ call' = [call EXCEPT ![c] = e]
    <3>1. dirty' \subseteq Nodes
      BY <2>1, <2>10 DEF Types
    <3> QED BY <2>1, <2>2, <2>7, <2>8, <2>10, <3>1, CallTypes DEF Types
  <2> QED BY <2>1, <2>9, <2>10
<1> QED BY <1>1, <1>2, <1>3, <1>4

LEMMA ApplyTypes ==
  Types /\ (ApplyStart \/ ApplyUpdate \/ ApplyRename \/ ApplyFsync \/ ApplyEnd) => Types'
<1> SUFFICES ASSUME Types PROVE ApplyStart \/ ApplyUpdate \/ ApplyRename \/ ApplyFsync \/ ApplyEnd => Types'
  OBVIOUS
<1>1. ASSUME ApplyStart PROVE Types'
  <2>1. applies' \in 0..MaxApplies
    BY <1>1, BoundsAssumption DEF ApplyStart, Types
  <2> QED BY <1>1, <2>1 DEF ApplyStart, Types, dirs, files, client
<1>2. ASSUME ApplyUpdate \/ ApplyFsync PROVE Types'
  <2>1. Head(todo) \in Ents /\ Tail(todo) \in Seq(Ents) /\ todo' = Tail(todo)
    BY <1>2, HeadTailProperties DEF ApplyUpdate, ApplyFsync, Types
  <2>2. CASE ApplyUpdate
    <3>1. target' \in Namespaces
      BY <2>1, <2>2, ApplyEntryType DEF ApplyUpdate, Types
    <3> QED BY <2>1, <2>2, <3>1 DEF ApplyUpdate, Types, files, client
  <2>3. CASE ApplyFsync
    <3>1. pending' \subseteq Nodes
      BY <2>3 DEF ApplyFsync, Found, IsFile, Types
    <3> QED BY <2>1, <2>3, <3>1 DEF ApplyFsync, Types, dirs, files, client
  <2> QED BY <1>2, <2>2, <2>3
<1>3. ASSUME ApplyRename PROVE Types'
  <2>1. journal' \in Seq(Ents)
    BY <1>3, EmptySeq DEF ApplyRename
  <2> QED BY <1>3, <2>1 DEF ApplyRename, Types, dirs, files, client
<1>4. ASSUME ApplyEnd PROVE Types'
  BY <1>4 DEF ApplyEnd, Ended, Types, dirs, files, client
<1> QED BY <1>1, <1>2, <1>3, <1>4

LEMMA TypesStep == Types /\ [Next]_vars => Types'
<1> SUFFICES ASSUME Types, [Next]_vars PROVE Types'
  OBVIOUS
<1>1. CASE UNCHANGED vars
  BY <1>1 DEF vars, dirs, apply, files, client, Types
<1>2. ASSUME NEW c \in Clients, NEW e \in Changes, Change(c, e) PROVE Types'
  BY <1>2, ClientTypes
<1>3. ASSUME NEW c \in Clients, AppendEntry(c) \/ CacheStep(c) PROVE Types'
  BY <1>3, ClientTypes
<1>4. ASSUME NEW c \in Clients, NEW p \in Paths, Write(c, p) PROVE Types'
  BY <1>4, ClientTypes
<1>5. ASSUME NEW p \in Paths, Backup(p) PROVE Types'
  <2>1. cache' \in Namespaces
    BY <1>5 DEF Backup, Types, Namespaces
  <2> QED BY <1>5, <2>1 DEF Backup, Types, apply, files, client
<1>6. CASE ApplyStart \/ ApplyUpdate \/ ApplyRename \/ ApplyFsync \/ ApplyEnd
  BY <1>6, ApplyTypes
<1>7. ASSUME NEW n \in Nodes, Open(n) \/ Close(n) PROVE Types'
  <2>1. open' \subseteq Nodes /\ dirty' \subseteq Nodes
    BY <1>7 DEF Open, Close, Types
  <2> QED BY <1>7, <2>1 DEF Open, Close, Types, dirs, apply, client
<1>8. ASSUME NEW n \in Nodes, WriteBack(n) PROVE Types'
  <2>1. target' \in Namespaces
    <3>1. PathOf(n) \in Paths
      BY <1>8, PathOfForm DEF WriteBack
    <3> QED BY <1>8, <3>1 DEF WriteBack, Types, Namespaces
  <2>2. /\ todo' = todo /\ phase = "sync" /\ phase' = Ended(pending') /\ pending' \subseteq Nodes /\ dirty' \subseteq Nodes
        /\ UNCHANGED <<view, cache, journal, applies, open, call, pc, calls>>
    BY <1>8 DEF WriteBack, Types, client
  <2> QED BY <2>1, <2>2 DEF Types, Ended
<1> QED BY <1>1, <1>2, <1>3, <1>4, <1>5, <1>6, <1>7, <1>8 DEF Next

LEMMA TypesFollow == Types => TypeOK
<1> SUFFICES ASSUME Types PROVE TypeOK
  OBVIOUS
<1>1. ASSUME NEW j \in {journal, todo}, NEW e \in Range(j)
      PROVE  /\ e.op \in {"mknod", "mkdir", "unlink", "rmdir", "rename", "fsync"}
             /\ e.path \in Paths \cup {LOST} /\ e.to \in Paths \cup {LOST}
  <2>1. j \in Seq(Ents)
    BY DEF Types
  <2>2. DOMAIN j = 1..Len(j)
    BY <2>1, LenProperties
  <2>3. PICK i \in 1..Len(j) : e = j[i]
    BY <2>2 DEF Range
  <2>4. e \in Ents
    BY <2>1, <2>3, ElementOfSeq
  <2> QED BY <2>4 DEF Ents
<1> QED BY <1>1 DEF TypeOK, Types

-----------------------------------------------------------------------------
(* What the invariant says of the properties *)

LEMMA NotInCall ==
  ASSUME NEW p \in Paths, ~InCall(p)
  PROVE  /\ \A c \in Changing : p \notin Changed(call[c])
         /\ \A c \in Renames : p \notin Changed(call[c])
         /\ ~WritingOf(p)
<1>1. \A c \in Underway : p \notin Changed(call[c])
  BY DEF InCall, Changed
<1>2. ASSUME NEW c \in Underway, IsFsync(call[c]), call[c].path = p PROVE FALSE
  <2>1. p \in Touched(call[c])
    BY <1>2 DEF Touched, IsFsync
  <2>2. Below(p, p)
    BY Tree
  <2> QED BY <2>1, <2>2 DEF InCall
<1> QED BY <1>1, <1>2 DEF Changing, Renames, WritingOf

LEMMA ReplayFollows == Inv => ReplayGivesTheView
<1> SUFFICES ASSUME Inv PROVE ReplayGivesTheView
  OBVIOUS
<1>1. Replayed = Result
  BY ReplayedIsResult
<1>2. \A p \in Paths : Result[p].node = view[p].node
  BY LeadsAt
<1> QED BY <1>1, <1>2 DEF ReplayGivesTheView, NamesOf

LEMMA CopiesFollowNames == Inv => CopiesAreOwn
<1> SUFFICES ASSUME Inv, NEW p \in Paths, cache[p].node # NONE, ~InCall(p) PROVE cache[p] = view[p]
  BY DEF CopiesAreOwn
<1>1. cache[p] \in {Empty, view[p]}
  BY NotInCall DEF Inv, OwnCopies
<1> QED BY <1>1, NodeForms

LEMMA OwedFollows == EntriesSuffice /\ Inv => DataIsOwed
<1> SUFFICES ASSUME EntriesSuffice, Inv, NEW p \in Paths, IsFile(view[p]), ~InCall(p), Replayed[p] # view[p]
             PROVE  /\ cache[p] = view[p]
                    /\ \/ view[p].node \in pending
                       \/ \E e \in Range(journal \o todo) : IsFsync(e) /\ e.path = p
  BY DEF DataIsOwed
<1>1. Result[p] # view[p]
  BY ReplayedIsResult
<1>2. CopyAt(p, view[p]) /\ (view[p].node \in pending \/ EntryFor(p) \/ WritingOf(p))
  BY <1>1 DEF Inv, Owed, Held, Brought
<1>3. (\A c \in Renames : p \notin Changed(call[c])) /\ ~WritingOf(p) /\ ~\E c \in Renames : Under(c, p)
  BY NotInCall, InvForms, UnderForms
<1>4. cache[p] = view[p]
  BY <1>2, <1>3 DEF CopyAt
<1>5. EntryFor(p) => \E e \in Range(journal \o todo) : IsFsync(e) /\ e.path = p
  <2> SUFFICES ASSUME EntryAt(p) PROVE \E e \in Range(journal \o todo) : IsFsync(e) /\ e.path = p
    BY <1>3 DEF EntryFor
  <2>1. PICK i \in 1..Len(Written) : IsFsync(Written[i]) /\ Written[i].path = p
    BY DEF EntryAt
  <2>2. Written[i] \in Range(journal \o todo)
    BY EntriesIn DEF Inv, Typing, Written
  <2> QED BY <2>1, <2>2
<1> QED BY <1>2, <1>3, <1>4, <1>5

(* The namespaces stay namespaces, and the phases of mcachefs_journal_apply go
   with what it has yet to do, whatever the optional behaviours. *)
THEOREM TypeCorrect == Spec => []TypeOK
<1>1. Init => Types
  BY InitInv DEF Inv, Typing, CallState, Phases, Types, WellFormed
<1>2. Types /\ [Next]_vars => Types'
  BY TypesStep
<1> QED BY <1>1, <1>2, TypesFollow, PTL DEF Spec

(* At any moment, in the middle of mcachefs_journal_apply_updates too, replaying
   what the journal holds and will hold gives the names users see. *)
THEOREM ReplayLeadsToTheView == ASSUME FilesStay PROVE Spec => []ReplayGivesTheView
  BY Invariance, ReplayFollows, PTL

(* The creation, the unlink and the rename of copies (mcachefs_createfile_cache,
   and after mcachefs_metadata_rename_entry) leave under a name the copy of the
   file users see there, or none. *)
THEOREM CopiesFollowTheirFiles == ASSUME FilesStay PROVE Spec => []CopiesAreOwn
  BY Invariance, CopiesFollowNames, PTL

(* What mcachefs_write_file wrote is on the target, or in the copy with an fsync
   entry or a write-back to bring it: mcachefs_journal_rebuild loses none. *)
THEOREM NoDataIsForgotten == ASSUME FilesStay, EntriesSuffice PROVE Spec => []DataIsOwed
  BY Invariance, OwedFollows, PTL

-----------------------------------------------------------------------------
(* The refinement of Mirror: the namespaces the target has yet to go through,
   and the files whose data it lacks *)

Shapes == [Paths -> Nodes \cup {NONE, DIR}]

LEMMA ShapesForm ==
  ASSUME NEW k \in Nat, NEW r \in [1..k -> Namespaces], NEW s, s = [i \in DOMAIN r |-> NamesOf(r[i])]
  PROVE  s \in Seq(Shapes) /\ Len(s) = k /\ DOMAIN s = 1..k /\ \A i \in 1..k : s[i] = NamesOf(r[i])
<1>1. \A ns \in Namespaces : NamesOf(ns) \in Shapes
  BY DEF NamesOf, Shapes, Namespaces, Entries
<1>2. s = [i \in 1..k |-> NamesOf(r[i])]
  OBVIOUS
<1>3. s \in [1..k -> Shapes]
  BY <1>1, <1>2
<1>4. s \in Seq(Shapes) /\ Len(s) = k
  BY <1>3, SeqDef, LenProperties
<1> QED BY <1>2, <1>4

LEMMA PastForms ==
  ASSUME target \in Namespaces, Unapplied \in Seq(Ents)
  PROVE  /\ Past \in Seq(Shapes) /\ Len(Past) = Len(Unapplied) + 1 /\ Len(Unapplied) \in Nat
         /\ DOMAIN Past = 1..Len(Unapplied) + 1
         /\ \A i \in 1..Len(Unapplied) + 1 : Past[i] = NamesOf(Run(target, Unapplied)[i])
<1>1. Run(target, Unapplied) \in [1..Len(Unapplied) + 1 -> Namespaces] /\ Len(Unapplied) \in Nat
  BY RunForms, LenProperties
<1>2. Len(Unapplied) + 1 \in Nat
  BY <1>1
<1> QED BY <1>1, <1>2, ShapesForm DEF Past

LEMMA PastFollows ==
  ASSUME Inv
  PROVE  /\ target \in Namespaces /\ Unapplied \in Seq(Ents)
         /\ Past \in Seq(Shapes) /\ Len(Past) = Len(Unapplied) + 1 /\ Len(Unapplied) \in Nat
         /\ DOMAIN Past = 1..Len(Unapplied) + 1
         /\ \A i \in 1..Len(Unapplied) + 1 : Past[i] = NamesOf(Run(target, Unapplied)[i])
  BY InvForms, PastForms DEF Formed

(* A file is stale when the version users see is not the one a replay leaves. *)
Behind(n) == \E p \in Paths : view[p].node = n /\ OnTarget(n) \cup {0} # {view[p].ver, 0}

LEMMA StaleForm ==
  ASSUME Unique(view), NEW n \in Nodes
  PROVE  n \in Stale <=> Behind(n)
<1>1. \A p \in Paths : view[p].node = n => InView(n) /\ PathOf(n) = p
  <2> SUFFICES ASSUME NEW p \in Paths, view[p].node = n PROVE InView(n) /\ PathOf(n) = p
    OBVIOUS
  <2>1. InView(n)
    BY DEF InView
  <2>2. PathOf(n) \in Paths /\ view[PathOf(n)].node = n
    BY <2>1, PathOfForm
  <2> QED BY <2>1, <2>2 DEF Unique, IsFile
<1>2. InView(n) => \E p \in Paths : view[p].node = n
  BY DEF InView
<1> QED BY <1>1, <1>2 DEF Stale, Behind

(* What the target has of a file users see is what a replay leaves of it. *)
LEMMA OnTargetForm ==
  ASSUME Inv, NEW p \in Paths, IsFile(view[p])
  PROVE  OnTarget(view[p].node) \cup {0} = {Result[p].ver, 0}
<1> DEFINE n == view[p].node
<1>1. Result[p].node = n /\ IsFile(Result[p]) /\ n \in Nodes
  BY LeadsAt DEF IsFile
<1>2. Carried
  BY DataIsCarried DEF Inv
<1>3. CASE \E r \in Paths : target[r].node = n
  <2>1. PICK r \in Paths : target[r].node = n
    BY <1>3
  <2>2. Result[p] = target[r]
    BY <1>1, <1>2, <2>1 DEF Carried
  <2>3. \A q \in Paths : target[q].node = n => q = r
    BY <1>1, <2>1, WellFormedParts DEF Unique, IsFile, Inv, Typing
  <2>4. OnTarget(n) = {target[r].ver}
    BY <2>1, <2>3 DEF OnTarget
  <2> QED BY <2>2, <2>4
<1>4. CASE ~\E r \in Paths : target[r].node = n
  <2>1. Result[p] = File(n)
    BY <1>1, <1>2, <1>4 DEF Carried, Absent
  <2>2. Result[p].ver = 0
    BY <1>1, <2>1, NodeForms
  <2>3. OnTarget(n) = {}
    BY <1>4 DEF OnTarget
  <2> QED BY <2>2, <2>3
<1> QED BY <1>3, <1>4

(* A step that changes what is stale of one file only *)
LEMMA OneFile ==
  ASSUME Past' = Past, NEW k, \A n \in Nodes : n # k => (n \in Stale' <=> n \in Stale)
  PROVE  [M!Next]_M!vars
<1>1. Stale \subseteq Nodes /\ Stale' \subseteq Nodes
  BY DEF Stale
<1>2. CASE Stale' = Stale
  BY <1>2 DEF M!vars
<1>3. CASE k \in Stale' /\ k \notin Stale
  <2>1. Stale' = Stale \cup {k} /\ k \in Nodes
    BY <1>1, <1>3
  <2>2. M!Write
    BY <2>1 DEF M!Write
  <2> QED BY <2>2 DEF M!Next
<1>4. CASE k \in Stale /\ k \notin Stale'
  <2>1. Stale' = Stale \ {k}
    BY <1>1, <1>4
  <2>2. M!Bring
    BY <1>4, <2>1 DEF M!Bring
  <2> QED BY <2>2 DEF M!Next
<1> QED BY <1>1, <1>2, <1>3, <1>4

LEMMA PastSame ==
  ASSUME UNCHANGED target, Unapplied' = Unapplied
  PROVE  Past' = Past
  BY DEF Past

LEMMA StaleSame ==
  ASSUME UNCHANGED <<view, target>>
  PROVE  Stale' = Stale
  BY DEF Stale, InView, OnTarget, PathOf

LeftByReplay == \A p \in Paths : IsFile(view[p]) => OnTarget(view[p].node) \cup {0} = {Result[p].ver, 0}

LEMMA OnTargetForms == Inv => LeftByReplay
  BY OnTargetForm DEF LeftByReplay

LEMMA AdvanceStep ==
  ASSUME Inv, ApplyUpdate
  PROVE  M!Advance
<1> DEFINE e == Head(todo)
<1>1. /\ UNCHANGED <<view, call, pc>> /\ phase = "update" /\ phase' = phase
      /\ todo # <<>> /\ todo' = Tail(todo) /\ target' = ApplyEntry(target, e)
  BY DEF ApplyUpdate, client
<1>2. Unapplied = todo /\ Unapplied' = Tail(todo)
  BY <1>1 DEF Unapplied
<1>3. /\ target \in Namespaces /\ todo \in Seq(Ents)
      /\ Past \in Seq(Shapes) /\ Len(Past) = Len(todo) + 1 /\ Len(todo) \in Nat
      /\ DOMAIN Past = 1..Len(todo) + 1
      /\ \A i \in 1..Len(todo) + 1 : Past[i] = NamesOf(Run(target, todo)[i])
  BY <1>2, PastFollows
<1>4. /\ Tail(todo) \in Seq(Ents) /\ target' \in Namespaces
      /\ Final(target', Tail(todo)) = Final(target, todo)
      /\ Run(target', Tail(todo)) = Tail(Run(target, todo))
  BY <1>1, <1>3, RunTail
<1>5. Len(todo) >= 1 /\ Len(Tail(todo)) = Len(todo) - 1
  BY <1>1, <1>3, HeadTailProperties, LenProperties, EmptySeq
<1>6. Inv'
  BY ApplyUpdateKeeps
<1>7. /\ Past' \in Seq(Shapes) /\ Len(Past') = Len(todo)
      /\ \A i \in 1..Len(todo) : Past'[i] = NamesOf(Run(target', Tail(todo))[i])
  <2> DEFINE r == Run(target', Tail(todo))
  <2>1. r \in [1..Len(todo) -> Namespaces]
    <3>1. r \in [1..Len(Tail(todo)) + 1 -> Namespaces]
      BY <1>4, RunForms
    <3>2. Len(Tail(todo)) + 1 = Len(todo)
      BY <1>3, <1>5
    <3> QED BY <3>1, <3>2
  <2>2. Past' = [i \in DOMAIN r |-> NamesOf(r[i])]
    BY <1>2 DEF Past, NamesOf, Run, ApplyEntry, Possible, Do
  <2> HIDE DEF r
  <2>3. Past' \in Seq(Shapes) /\ Len(Past') = Len(todo) /\ \A i \in 1..Len(todo) : Past'[i] = NamesOf(r[i])
    <3>1. Len(todo) \in Nat
      BY <1>3
    <3> QED BY <2>1, <2>2, <3>1, ShapesForm
  <2> QED BY <2>3 DEF r
<1>8. Past' = Tail(Past)
  <2>1. \A i \in 1..Len(todo) : Run(target', Tail(todo))[i] = Run(target, todo)[i + 1]
    <3>1. /\ Run(target, todo) \in Seq(Namespaces) /\ Len(Run(target, todo)) = Len(todo) + 1
      BY <1>3, RunForms
    <3>2. Run(target, todo) # <<>>
      BY <1>3, <3>1, EmptySeq
    <3>3. \A i \in 1..Len(todo) : Tail(Run(target, todo))[i] = Run(target, todo)[i + 1]
      BY <1>3, <3>1, <3>2, HeadTailProperties
    <3> QED BY <1>4, <3>3
  <2>2. \A i \in 1..Len(todo) : Past'[i] = Past[i + 1]
    BY <1>3, <1>7, <2>1
  <2>3. Past # <<>>
    BY <1>3, EmptySeq
  <2>4. /\ Tail(Past) \in Seq(Shapes) /\ Len(Tail(Past)) = Len(todo)
        /\ \A i \in 1..Len(todo) : Tail(Past)[i] = Past[i + 1]
    BY <1>3, <2>3, HeadTailProperties
  <2> QED BY <1>3, <1>7, <2>2, <2>4, SeqEqual
<1>9. Result' = Result
  <2>1. Base' = Base
    BY <1>1, <1>2, <1>4 DEF Base
  <2> QED BY <1>1, <2>1, ResultKept
<1>10. Stale' = Stale
  <2>1. ASSUME NEW p \in Paths, IsFile(view[p])
        PROVE  (OnTarget(view[p].node))' \cup {0} = OnTarget(view[p].node) \cup {0}
    <3>1. OnTarget(view[p].node) \cup {0} = {Result[p].ver, 0}
      BY <2>1, OnTargetForm
    <3>2. LeftByReplay'
      BY <1>6, OnTargetForms, PTL
    <3>3. OnTarget(view[p].node)' \cup {0} = {Result'[p].ver, 0}
      BY <1>1, <2>1, <3>2 DEF LeftByReplay
    <3> QED BY <1>9, <3>1, <3>3
  <2>2. \A n \in Nodes : InView(n) => PathOf(n) \in Paths /\ IsFile(view[PathOf(n)]) /\ view[PathOf(n)].node = n
    BY PathOfForm DEF IsFile
  <2>3. \A n : InView(n)' = InView(n) /\ PathOf(n)' = PathOf(n)
    BY <1>1 DEF InView, PathOf
  <2>4. \A n \in Nodes : InView(n) => OnTarget(n)' \cup {0} = OnTarget(n) \cup {0}
    BY <1>1, <2>1, <2>2
  <2> QED BY <1>1, <2>3, <2>4 DEF Stale
<1> QED BY <1>3, <1>5, <1>8, <1>10 DEF M!Advance

LEMMA AppendStep ==
  ASSUME Inv, NEW c \in Clients, AppendEntry(c)
  PROVE  M!Change
<1> DEFINE l == Len(journal)
<1>1. UNCHANGED <<view, target, phase, todo>>
  BY DEF AppendEntry, dirs, apply
<1>2. /\ phase \in {"idle", "sync"} /\ l \in Nat /\ Len(journal') = l + 1 /\ journal' \in Seq(Ents)
      /\ \A i \in 1..l + 1 : Run(target, journal')[i] = Run(target, journal)[i]
  BY AppendForms
<1>3. Unapplied = journal /\ Unapplied' = journal'
  BY <1>1, <1>2 DEF Unapplied
<1> HIDE DEF l
<1>4. /\ target \in Namespaces
      /\ Past \in Seq(Shapes) /\ Len(Past) = l + 1
      /\ DOMAIN Past = 1..l + 1
      /\ \A i \in 1..l + 1 : Past[i] = NamesOf(Run(target, journal)[i])
  BY <1>3, PastFollows DEF l
<1>5. /\ Past' \in Seq(Shapes) /\ Len(Past') = l + 2
      /\ \A i \in 1..l + 2 : Past'[i] = NamesOf(Run(target, journal')[i])
  <2> DEFINE r == Run(target, journal')
  <2>1. r \in [1..l + 2 -> Namespaces]
    <3>1. r \in [1..Len(journal') + 1 -> Namespaces] /\ Len(journal') + 1 = l + 2
      BY <1>2, <1>4, RunForms
    <3> QED BY <3>1
  <2>2. Past' = [i \in DOMAIN r |-> NamesOf(r[i])]
    BY <1>1, <1>3 DEF Past, NamesOf, Run, ApplyEntry, Possible, Do
  <2> HIDE DEF r
  <2>3. Past' \in Seq(Shapes) /\ Len(Past') = l + 2 /\ \A i \in 1..l + 2 : Past'[i] = NamesOf(r[i])
    <3>1. l + 2 \in Nat
      BY <1>2
    <3> QED BY <2>1, <2>2, <3>1, ShapesForm
  <2> QED BY <2>3 DEF r
<1>6. \A i \in 1..l + 1 : Past'[i] = Past[i]
  BY <1>2, <1>4, <1>5
<1>7. Past' # <<>>
  BY <1>2, <1>5, EmptySeq
<1>8. Last(Past') \in Shapes
  BY <1>2, <1>5, <1>7 DEF Last
<1>9. Front(Past') = Past
  <2>1. /\ Front(Past') \in Seq(Shapes) /\ Len(Front(Past')) = l + 1
        /\ \A i \in 1..l + 1 : Front(Past')[i] = Past'[i]
    <3>1. Front(Past') = [i \in 1..l + 1 |-> Past'[i]]
      BY <1>2, <1>5 DEF Front
    <3>2. \A i \in 1..l + 1 : Past'[i] \in Shapes
      BY <1>2, <1>5, ElementOfSeq
    <3>3. Front(Past') \in [1..l + 1 -> Shapes]
      BY <3>1, <3>2
    <3> QED BY <1>2, <3>1, <3>3, SeqDef, LenProperties
  <2> QED BY <1>2, <1>4, <1>6, <2>1, SeqEqual
<1>10. Stale' = Stale
  BY <1>1, StaleSame
<1>11. Len(Past') = Len(Past) + 1
  BY <1>2, <1>4, <1>5
<1> QED BY <1>8, <1>9, <1>10, <1>11 DEF M!Change, M!Front, M!Last, Front, Last, Shapes

StaleIsBehind == \A n \in Nodes : n \in Stale <=> Behind(n)

LEMMA StaleForms == Inv => StaleIsBehind
<1> SUFFICES ASSUME Inv PROVE StaleIsBehind
  OBVIOUS
<1>1. Unique(view)
  BY WellFormedParts DEF Inv, Typing
<1> QED BY <1>1, StaleForm DEF StaleIsBehind

LEMMA ChangeStep ==
  ASSUME Inv, FilesStay, NEW c \in Clients, NEW e \in Changes, Change(c, e)
  PROVE  [M!Next]_M!vars
<1> DEFINE k == IF e.op = "mknod" THEN e.node ELSE view[e.path].node
<1>1. UNCHANGED <<target, journal, phase, todo>> /\ view' = Do(view, e)
  BY DEF Change, apply
<1>2. Past' = Past
  BY <1>1, PastSame DEF Unapplied
<1>3. e \in Updates /\ WellFormed(view) /\ Possible(view, e) /\ view \in Namespaces /\ e.path \in Paths
  BY ChangesForms, ChangePossible, InvForms, EntForms DEF Inv, Typing, Formed
<1>4. ASSUME NEW p \in Paths, IsFile(view[p]), view[p].node # k PROVE \E q \in Paths : view'[q] = view[p]
  <2>1. CASE p \notin Changed(e)
    BY <1>1, <1>3, <2>1, DoForms
  <2>2. CASE p \in Changed(e) /\ e.op = "rename"
    <3>1. e.to \in Paths /\ (Below(e.path, p) \/ Below(e.to, p))
      BY <1>3, <2>2, EntForms DEF Changed
    <3>2. ~Below(e.to, p)
      <4>1. view[e.to].node = NONE
        BY <1>3, <2>2, PossibleForms
      <4>2. view[p] # Empty
        BY <1>4, NodeForms
      <4> QED BY <1>3, <3>1, <4>1, <4>2, BelowNothing
    <3>3. Moved(p, e.path, e.to) \in Paths
      BY <1>3, <1>4, <2>2, <3>1, <3>2, PossibleForms, NodesAssumption DEF IsFile
    <3>4. Below(e.to, Moved(p, e.path, e.to)) /\ Moved(Moved(p, e.path, e.to), e.to, e.path) = p
      BY <1>3, <3>1, <3>2, <3>3, MovedPath
    <3>5. Move(view, e.path, e.to)[Moved(p, e.path, e.to)] = view[p]
      BY <1>3, <3>1, <3>3, <3>4, MoveIn
    <3> QED BY <1>1, <1>3, <2>2, <3>3, <3>5, DoForms
  <2>3. CASE p \in Changed(e) /\ e.op # "rename"
    <3>1. Below(e.path, p) /\ view[p] # Empty
      BY <1>3, <1>4, <2>3, EntForms, NodeForms DEF Changed
    <3>2. p # e.path
      <4>1. e.op \in {"mknod", "mkdir"} => view[e.path].node = NONE
        BY <1>3, PossibleForms
      <4> QED BY <1>4, <4>1, NodesAssumption DEF IsFile
    <3>3. view[p] = Empty
      <4>1. CASE e.op = "rmdir"
        <5>1. view[p].node = NONE
          BY <1>3, <3>1, <3>2, <4>1, PossibleForms DEF IsEmptyDir
        <5> QED BY <1>3, <3>1, <5>1, BelowNothing
      <4>2. CASE e.op # "rmdir"
        <5>1. view[e.path].node # DIR
          BY <1>3, <2>3, <4>2, EntForms, PossibleForms, NodesAssumption DEF IsFile
        <5> QED BY <1>3, <3>1, <3>2, <5>1, BelowNothing
      <4> QED BY <4>1, <4>2
    <3> QED BY <3>1, <3>3
  <2> QED BY <2>1, <2>2, <2>3
<1>5. ASSUME NEW p \in Paths, IsFile(view'[p]), view'[p].node # k PROVE \E q \in Paths : view[q] = view'[p]
  <2>1. CASE p \notin Changed(e)
    BY <1>1, <1>3, <2>1, DoForms
  <2>2. CASE p \in Changed(e)
    <3>1. \/ e.op = "mknod" /\ view'[p] = File(e.node)
          \/ \E q \in Paths : view'[p] = view[q]
      BY <1>1, <1>3, <1>5, <2>2, ChangedFiles
    <3>2. ~(e.op = "mknod" /\ view'[p] = File(e.node))
      BY <1>5 DEF File
    <3> QED BY <3>1, <3>2
  <2> QED BY <2>1, <2>2
<1> HIDE DEF k
<1>6. \A n \in Nodes : n # k => (Behind(n)' <=> Behind(n))
  <2> SUFFICES ASSUME NEW n \in Nodes, n # k PROVE Behind(n)' <=> Behind(n)
    OBVIOUS
  <2>1. OnTarget(n)' = OnTarget(n)
    BY <1>1 DEF OnTarget
  <2>2. ASSUME Behind(n) PROVE Behind(n)'
    <3>1. PICK p \in Paths : view[p].node = n /\ OnTarget(n) \cup {0} # {view[p].ver, 0}
      BY <2>2 DEF Behind
    <3>2. PICK q \in Paths : view'[q] = view[p]
      BY <1>4, <3>1 DEF IsFile
    <3> QED BY <2>1, <3>1, <3>2 DEF Behind
  <2>3. ASSUME Behind(n)' PROVE Behind(n)
    <3>1. PICK p \in Paths : view'[p].node = n /\ OnTarget(n) \cup {0} # {view'[p].ver, 0}
      BY <2>1, <2>3 DEF Behind
    <3>2. PICK q \in Paths : view[q] = view'[p]
      BY <1>5, <3>1 DEF IsFile
    <3> QED BY <3>1, <3>2 DEF Behind
  <2> QED BY <2>2, <2>3
<1>7. StaleIsBehind /\ StaleIsBehind'
  <2>1. Inv'
    BY ChangeKeeps
  <2> QED BY <2>1, StaleForms, PTL
<1>8. \A n \in Nodes : n # k => (n \in Stale' <=> n \in Stale)
  BY <1>6, <1>7 DEF StaleIsBehind
<1> QED BY <1>2, <1>8, OneFile

LEMMA WriteStep ==
  ASSUME Inv, NEW c \in Clients, NEW p \in Paths, Write(c, p)
  PROVE  [M!Next]_M!vars
<1>1. UNCHANGED <<target, journal, phase, todo>> /\ view' = [view EXCEPT ![p].ver = @ + 1]
  BY DEF Write, apply
<1>2. Past' = Past
  BY <1>1, PastSame DEF Unapplied
<1>3. view \in Namespaces
  BY InvForms DEF Formed
<1>4. \A q \in Paths : view'[q].node = view[q].node /\ (q # p => view'[q] = view[q])
  BY <1>1, <1>3 DEF Namespaces, Entries
<1>5. StaleIsBehind /\ StaleIsBehind'
  <2>1. Inv'
    BY WriteKeeps
  <2> QED BY <2>1, StaleForms, PTL
<1>6. \A n : OnTarget(n)' = OnTarget(n)
  BY <1>1 DEF OnTarget
<1>7. \A n \in Nodes : n # view[p].node => (Behind(n)' <=> Behind(n))
  BY <1>4, <1>6 DEF Behind
<1>8. \A n \in Nodes : n # view[p].node => (n \in Stale' <=> n \in Stale)
  BY <1>5, <1>7 DEF StaleIsBehind
<1> QED BY <1>2, <1>8, OneFile

LEMMA WriteBackStep ==
  ASSUME Inv, NEW n \in Nodes, WriteBack(n)
  PROVE  [M!Next]_M!vars
<1> DEFINE p == PathOf(n)
<1>1. /\ UNCHANGED <<view, journal, todo>> /\ n \in pending /\ phase = "sync" /\ phase' \in {"idle", "sync"} /\ InView(n)
      /\ target' = IF IsFile(cache[p]) /\ IsFile(target[p]) THEN [target EXCEPT ![p] = cache[p]] ELSE target
  BY DEF WriteBack, Ended
<1>2. p \in Paths /\ view[p].node = n
  BY <1>1, PathOfForm
<1> HIDE DEF p
<1>3. Formed
  BY InvForms
<1>4. target[p].node = n /\ \A c \in Changing : p \notin Changed(call[c])
  BY <1>1, <1>2 DEF Inv, PendingThere
<1>5. cache[p] \in {Empty, view[p]}
  BY <1>2, <1>4 DEF Inv, OwnCopies
<1>6. target' \in Namespaces /\ \A q \in Paths : target'[q].node = target[q].node /\ (q # p => target'[q] = target[q])
  <2>1. CASE target' = target
    BY <1>3, <2>1 DEF Formed
  <2>2. CASE target' = [target EXCEPT ![p] = view[p]]
    BY <1>2, <1>3, <1>4, <2>2 DEF Formed, Namespaces
  <2> QED BY <1>1, <1>5, <2>1, <2>2, NodeForms
<1>7. Unapplied' = Unapplied
  BY <1>1 DEF Unapplied
<1>8. Past' = Past
  <2> DEFINE r == Run(target, Unapplied)
             s == Run(target', Unapplied)
             l == Len(Unapplied) + 1
  <2>1. Agree(target, target', Paths)
    BY <1>6 DEF Agree
  <2>2. \A i \in 1..l : Agree(r[i], s[i], Paths)
    BY <1>3, <1>6, <2>1, RunNames DEF Formed
  <2>3. r \in [1..l -> Namespaces] /\ s \in [1..l -> Namespaces]
    BY <1>3, <1>6, RunForms DEF Formed
  <2>4. Past = [i \in DOMAIN r |-> NamesOf(r[i])]
    BY DEF Past
  <2>5. Past' = [i \in DOMAIN s |-> NamesOf(s[i])]
    BY <1>7 DEF Past, NamesOf, Run, ApplyEntry, Possible, Do
  <2> HIDE DEF r, s, l
  <2>6. \A i \in 1..l : NamesOf(r[i]) = NamesOf(s[i])
    BY <2>2 DEF Agree, NamesOf
  <2> QED BY <2>3, <2>4, <2>5, <2>6
<1>9. StaleIsBehind /\ StaleIsBehind'
  <2>1. Inv'
    BY WriteBackKeeps
  <2> QED BY <2>1, StaleForms, PTL
<1>10. \A m \in Nodes : m # n => OnTarget(m)' = OnTarget(m)
  <2> SUFFICES ASSUME NEW m \in Nodes, m # n PROVE OnTarget(m)' = OnTarget(m)
    OBVIOUS
  <2>1. {r \in Paths : target'[r].node = m} = {r \in Paths : target[r].node = m}
    BY <1>6
  <2>2. \A r \in Paths : target[r].node = m => target'[r] = target[r]
    BY <1>4, <1>6
  <2> QED BY <2>1, <2>2 DEF OnTarget
<1>11. \A m \in Nodes : m # n => (Behind(m)' <=> Behind(m))
  BY <1>1, <1>10 DEF Behind
<1>12. \A m \in Nodes : m # n => (m \in Stale' <=> m \in Stale)
  BY <1>9, <1>11 DEF StaleIsBehind
<1> QED BY <1>8, <1>12, OneFile

LEMMA StartStep == Init => M!Init
<1> SUFFICES ASSUME Init PROVE M!Init
  OBVIOUS
<1>1. Inv
  BY InitInv
<1>2. target = view /\ Unapplied = <<>> /\ Len(Unapplied) = 0
  BY DEF Init, Unapplied
<1>3. Past \in [{1} -> Shapes]
  <2>1. Past \in Seq(Shapes) /\ Len(Past) = 1
    BY <1>1, <1>2, PastFollows
  <2>2. DOMAIN Past = 1..1 /\ \A i \in 1..1 : Past[i] \in Shapes
    BY <2>1, LenProperties, ElementOfSeq
  <2>3. 1..1 = {1}
    OBVIOUS
  <2>4. Past = [i \in {1} |-> Past[i]]
    BY <1>1, <1>2, <2>2, <2>3, PastFollows DEF Past
  <2> QED BY <2>2, <2>3, <2>4
<1>4. Stale = {}
  <2>1. \A n \in Nodes : ~Behind(n)
    <3> SUFFICES ASSUME NEW n \in Nodes, NEW p \in Paths, view[p].node = n PROVE OnTarget(n) \cup {0} = {view[p].ver, 0}
      BY DEF Behind
    <3>1. \A q \in Paths : target[q].node = n => q = p
      BY <1>1, <1>2, WellFormedParts DEF Inv, Typing, Unique, IsFile
    <3>2. OnTarget(n) = {view[p].ver}
      BY <1>2, <3>1 DEF OnTarget
    <3> QED BY <3>2
  <2>2. Stale \subseteq Nodes
    BY DEF Stale
  <2> QED BY <1>1, <2>1, <2>2, StaleForms DEF StaleIsBehind
<1> QED BY <1>3, <1>4 DEF M!Init, Shapes

LEMMA MirrorStep == FilesStay /\ Inv /\ [Next]_vars => [M!Next]_M!vars
<1> SUFFICES ASSUME FilesStay, Inv, [Next]_vars PROVE [M!Next]_M!vars
  OBVIOUS
<1>1. ASSUME UNCHANGED <<view, target>>, Unapplied' = Unapplied PROVE [M!Next]_M!vars
  BY <1>1, PastSame, StaleSame DEF M!vars
<1>2. CASE UNCHANGED vars
  BY <1>1, <1>2 DEF vars, dirs, apply, Unapplied
<1>3. ASSUME NEW c \in Clients, NEW e \in Changes, Change(c, e) PROVE [M!Next]_M!vars
  BY <1>3, ChangeStep
<1>4. ASSUME NEW c \in Clients, AppendEntry(c) PROVE [M!Next]_M!vars
  BY <1>4, AppendStep DEF M!Next
<1>5. ASSUME NEW c \in Clients, CacheStep(c) PROVE [M!Next]_M!vars
  BY <1>1, <1>5 DEF CacheStep, apply, Unapplied
<1>6. ASSUME NEW c \in Clients, NEW p \in Paths, Write(c, p) PROVE [M!Next]_M!vars
  BY <1>6, WriteStep
<1>7. ASSUME NEW p \in Paths, Backup(p) PROVE [M!Next]_M!vars
  BY <1>1, <1>7 DEF Backup, apply, Unapplied
<1>8. CASE ApplyStart \/ ApplyRename \/ ApplyFsync \/ ApplyEnd
  <2>1. UNCHANGED <<view, target>>
    BY <1>8 DEF ApplyStart, ApplyRename, ApplyFsync, ApplyEnd, dirs
  <2>2. Unapplied' = Unapplied
    BY <1>8 DEF ApplyStart, ApplyRename, ApplyFsync, ApplyEnd, Ended, Unapplied
  <2> QED BY <1>1, <2>1, <2>2
<1>9. CASE ApplyUpdate
  BY <1>9, AdvanceStep DEF M!Next
<1>10. ASSUME NEW n \in Nodes, Open(n) \/ Close(n) PROVE [M!Next]_M!vars
  BY <1>1, <1>10 DEF Open, Close, dirs, apply, Unapplied
<1>11. ASSUME NEW n \in Nodes, WriteBack(n) PROVE [M!Next]_M!vars
  BY <1>11, WriteBackStep
<1> QED BY <1>2, <1>3, <1>4, <1>5, <1>6, <1>7, <1>8, <1>9, <1>10, <1>11 DEF Next

(* mcachefs_journal_apply takes the target through the namespaces users had, all
   of them in their order, and brings data for files that lack it. *)
THEOREM TargetMirrorsUsers == ASSUME FilesStay PROVE Spec => ImplementsMirror
<1>1. Init => M!Init
  BY StartStep
<1>2. Inv /\ [Next]_vars => [M!Next]_M!vars
  BY MirrorStep
<1>3. Spec => []Inv
  BY Invariance
<1> QED BY <1>1, <1>2, <1>3, PTL DEF Spec, ImplementsMirror, M!Spec

=================================================================================
