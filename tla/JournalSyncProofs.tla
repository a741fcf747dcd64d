--------------------------- MODULE JournalSyncProofs ---------------------------
(***************************************************************************)
(* The accounting of the application of the journal in Journal when no     *)
(* file is removed meanwhile, and then that no Bug() is reached, for any   *)
(* files, clients, transfer threads and bounds.                            *)
(***************************************************************************)
EXTENDS JournalProofs

NoFileIsRemoved == UseIsNotLost /\ "unlink" \notin Ops

(* A write-back that has been taken from the queue and has not reported *)
Reports(t) == Type[t] = WRITEBACK /\ tpc[t] \in {"do_transfer", "copy", "notify"}
Reporting == {t \in Threads : Reports(t)}
Owed == Waiting(WRITEBACK) + Cardinality(Reporting)

PlacesFitTypes ==
  \A t \in Threads : /\ tpc[t] = "notify" => Type[t] = WRITEBACK
                     /\ tpc[t] \in {"create", "unlink"} => Type[t] = BACKUP

(* The write-backs of the running mcachefs_journal_apply are owed as soon as
   they are queued, and counted when they are posted. *)
Accounted ==
  /\ apc # "idle" <=> jlock
  /\ jlock => /\ action = "sync" /\ fsyncfile
              /\ total + (IF apc = "post" THEN 1 ELSE 0) = ok + error + Owed
  /\ ~jlock => /\ action = "sync" <=> Owed > 0
               /\ fsyncfile <=> action = "sync"
               /\ action = "sync" => total = ok + error + Owed

SyncInv == exists = Paths /\ PlacesFitTypes /\ Accounted

-----------------------------------------------------------------------------
LEMMA OwedType ==
  ASSUME Typing
  PROVE  /\ IsFiniteSet(Reporting) /\ Cardinality(Reporting) \in Nat
         /\ Waiting(WRITEBACK) \in Nat /\ Owed \in Nat
<1>1. IsFiniteSet(Reporting)
  BY ProcessesAssumption, FS_Subset DEF Reporting
<1>2. Cardinality(Reporting) \in Nat
  BY <1>1, FS_CardinalityType
<1>3. Waiting(WRITEBACK) \in Nat
  BY CountsAreNaturals DEF Types
<1> QED BY <1>1, <1>2, <1>3 DEF Owed

LEMMA OwedUnchanged ==
  ASSUME UNCHANGED Waiting(WRITEBACK), \A t \in Threads : Reports(t)' <=> Reports(t)
  PROVE  Owed' = Owed
<1>1. Reporting' = Reporting
  BY DEF Reporting
<1> QED BY <1>1 DEF Owed

LEMMA AccountedUnchanged ==
  ASSUME Accounted, UNCHANGED <<jlock, action, fsyncfile, total, ok, error>>, Owed' = Owed,
         apc' = "post" <=> apc = "post", apc' = "idle" <=> apc = "idle"
  PROVE  Accounted'
  BY DEF Accounted

LEMMA UnreportedIsOwed ==
  ASSUME queue \in Seq(Items), Accounted
  PROVE  SyncAccounting
<1>1. Unreported = Owed
  <2>1. {i \in 1..Len(queue) : queue[i].type = WRITEBACK} = Positions(queue, OfType(WRITEBACK))
    BY PositionsOfType
  <2> QED BY <2>1 DEF Unreported, Owed, Waiting, Reporting, Reports
<1> QED BY <1>1, Zenon DEF Accounted, SyncAccounting

-----------------------------------------------------------------------------
LEMMA ClientOwed ==
  ASSUME Typing, NEW c \in Clients, ClientStep(c) \/ ClientCall(c)
  PROVE  /\ Owed' = Owed
         /\ UNCHANGED <<jlock, action, fsyncfile, total, ok, error, tpc, cur, apc, apply_m, todo>>
<1>1. UNCHANGED <<jlock, action, fsyncfile, total, ok, error, tpc, cur, apc, apply_m, todo>>
  BY DEF ClientStep, ClientCall, Backfile, UseIncrement, QueueBackup, PostBackup,
    AppendFsync, UnlinkCache, AppendUpdate, CreateCache, Open, Write, Release, Unlink,
    Mknod, JournalAppend, jvars, counts, thread, applier
<1>2. Waiting(WRITEBACK)' = Waiting(WRITEBACK)
  <2>1. CASE QueueBackup(c)
    <3>1. handle[c] \in Mfiles /\ queue \in Seq(Items) /\ QueueFile(handle[c], BACKUP)
      BY <2>1, NullIsNoFile DEF QueueBackup, Typing, ProcessTypes, QueueTypes, Located, WithHandle
    <3>2. BACKUP \in Types /\ WRITEBACK \in Types /\ WRITEBACK # BACKUP
      BY DEF Types, BACKUP, WRITEBACK
    <3>3. Waiting(WRITEBACK)' =
            Waiting(WRITEBACK) + (IF ~Queued(handle[c]) /\ WRITEBACK = BACKUP THEN 1 ELSE 0)
      BY <3>1, <3>2, WaitingQueueFile
    <3> QED BY <3>2, <3>3, OwedType
  <2>2. CASE ~QueueBackup(c)
    <3>1. UNCHANGED queue
      BY <2>2 DEF ClientStep, ClientCall, Backfile, UseIncrement, PostBackup,
        AppendFsync, UnlinkCache, AppendUpdate, CreateCache, Open, Write, Release, Unlink,
        Mknod, transfer
    <3> QED BY <3>1 DEF Waiting
  <2> QED BY <2>1, <2>2
<1>3. Owed' = Owed
  BY <1>1, <1>2, OwedUnchanged DEF Reports
<1> QED BY <1>1, <1>3

LEMMA ClientSync ==
  ASSUME NoFileIsRemoved, Typing, SyncInv, NEW c \in Clients, ClientStep(c) \/ ClientCall(c)
  PROVE  SyncInv'
<1>1. exists' = exists
  BY DEF NoFileIsRemoved, ClientStep, ClientCall, Backfile, UseIncrement, QueueBackup, PostBackup,
    AppendFsync, UnlinkCache, AppendUpdate, CreateCache, Open, Write, Release, FileRelease, Unlink,
    Mknod, meta
<1>2. Accounted'
  BY ClientOwed, AccountedUnchanged DEF SyncInv
<1>3. PlacesFitTypes'
  BY ClientOwed DEF SyncInv, PlacesFitTypes
<1> QED BY <1>1, <1>2, <1>3 DEF SyncInv

(* The applier queues one write-back more. *)
LEMMA ApplyOwed ==
  ASSUME Typing, ApplyStart \/ ApplyStep
  PROVE  Owed' = Owed + (IF ApplyQueue /\ ~Queued(apply_m) THEN 1 ELSE 0)
<1>1. Reporting' = Reporting
  BY DEF ApplyStart, ApplyStep, ApplyNext, ApplyGet, ApplyQueue, ApplyPost, ApplyEnd, thread,
    Reporting, Reports
<1>2. CASE ApplyQueue
  <2>1. apply_m \in Mfiles /\ WRITEBACK \in Types /\ queue \in Seq(Items)
    BY <1>2, NullIsNoFile DEF ApplyQueue, Typing, JournalTypes, Located, Types, QueueTypes
  <2>2. Waiting(WRITEBACK)' = Waiting(WRITEBACK) + (IF ~Queued(apply_m) THEN 1 ELSE 0)
    BY <1>2, <2>1, WaitingQueueFile DEF ApplyQueue
  <2> QED BY <1>1, <1>2, <2>2, OwedType DEF Owed
<1>3. CASE ~ApplyQueue
  <2>1. queue' = queue
    BY <1>3 DEF ApplyStart, ApplyStep, ApplyNext, ApplyGet, ApplyPost, ApplyEnd, transfer
  <2> QED BY <1>1, <1>3, <2>1, OwedType DEF Owed, Waiting
<1> QED BY <1>2, <1>3

LEMMA ApplySync ==
  ASSUME Typing, SyncInv, ApplyStart \/ ApplyStep
  PROVE  SyncInv'
<1>0. /\ FileTypes /\ QueueTypes /\ JournalTypes /\ Located /\ Accounted
      /\ total \in Nat /\ ok \in Nat /\ error \in Nat /\ Owed \in Nat
  BY OwedType DEF Typing, JournalTypes, SyncInv
<1>1. UNCHANGED <<exists, tpc>> /\ PlacesFitTypes'
  BY DEF SyncInv, PlacesFitTypes, ApplyStart, ApplyStep, ApplyNext, ApplyGet, ApplyQueue,
    ApplyPost, ApplyEnd, meta, thread
<1>2. ~ApplyQueue => Owed' = Owed
  BY <1>0, ApplyOwed
<1>3. CASE ApplyStart
  <2>1. Owed' = Owed
    BY <1>2, <1>3 DEF ApplyStart, ApplyQueue
  <2>2. CASE total # 0
    <3>1. UNCHANGED <<jlock, action, fsyncfile, total, ok, error, apc>>
      BY <1>3, <2>2, Zenon DEF ApplyStart, jvars, counts
    <3> QED BY <1>0, <1>1, <2>1, <3>1, AccountedUnchanged DEF SyncInv
  <2>3. CASE total = 0 /\ jfile
    <3>1. /\ apc' = "next" /\ jlock' = TRUE /\ action' = "sync" /\ fsyncfile' = TRUE
          /\ total' = 0 /\ ok' = 0 /\ error' = 0 /\ ~jlock /\ action = "none"
      BY <1>3, <2>3, Zenon DEF ApplyStart
    <3>2. Owed = 0
      BY <1>0, <3>1 DEF Accounted
    <3>3. Accounted'
      BY <2>1, <3>1, <3>2 DEF Accounted
    <3> QED BY <1>1, <3>3 DEF SyncInv
  <2>4. CASE total = 0 /\ ~jfile
    <3>1. /\ UNCHANGED <<apc, jlock, fsyncfile>> /\ action' = "update" /\ ~jlock /\ action = "none"
      BY <1>3, <2>4, Zenon DEF ApplyStart
    <3>3. Accounted'
      BY <1>0, <2>1, <3>1 DEF Accounted
    <3> QED BY <1>1, <3>3 DEF SyncInv
  <2> QED BY <2>2, <2>3, <2>4
<1>4. ASSUME UNCHANGED <<jlock, action, fsyncfile>>, apc # "idle", apc' = "next",
             total' = ok' + error' + Owed'
      PROVE  Accounted'
  <2>1. jlock /\ action = "sync" /\ fsyncfile
    BY <1>0, <1>4 DEF Accounted
  <2>2. fsyncfile' = fsyncfile /\ jlock' = jlock /\ action' = action
    BY <1>4
  <2>3. jlock' /\ action' = "sync" /\ fsyncfile'
    BY <2>1, <2>2, Zenon
  <2> QED BY <1>4, <2>3 DEF Accounted
<1>5. CASE ApplyNext
  <2>1. Owed' = Owed /\ apc = "next"
    BY <1>2, <1>5 DEF ApplyNext, ApplyQueue
  <2>2. CASE apc' \in {apc, "get"} /\ UNCHANGED jvars
    BY <1>0, <1>1, <2>1, <2>2, AccountedUnchanged DEF jvars, counts, SyncInv
  <2>3. CASE Answered(0, 1)
    <3>1. total = ok + error + Owed
      BY <1>0, <2>1 DEF Accounted
    <3>2. total' = ok' + error' + Owed'
      BY <1>0, <2>1, <2>3, <3>1 DEF Answered
    <3>3. Accounted'
      BY <1>4, <2>1, <2>3, <3>2 DEF Answered
    <3> QED BY <1>1, <3>3 DEF SyncInv
  <2> QED BY <1>5, <2>2, <2>3 DEF ApplyNext
<1>6. CASE ApplyGet
  <2>1. Owed' = Owed /\ apc = "get"
    BY <1>2, <1>6 DEF ApplyGet, ApplyQueue
  <2>2. CASE apc' = "queue" /\ UNCHANGED jvars
    BY <1>0, <1>1, <2>1, <2>2, AccountedUnchanged DEF jvars, counts, SyncInv
  <2>3. CASE Answered(0, 1)
    <3>1. total = ok + error + Owed
      BY <1>0, <2>1 DEF Accounted
    <3>2. total' = ok' + error' + Owed'
      BY <1>0, <2>1, <2>3, <3>1 DEF Answered
    <3>3. Accounted'
      BY <1>4, <2>1, <2>3, <3>2 DEF Answered
    <3> QED BY <1>1, <3>3 DEF SyncInv
  <2> QED BY <1>6, <2>2, <2>3 DEF ApplyGet
<1>7. CASE ApplyQueue
  <2>3. apc = "queue"
    BY <1>7 DEF ApplyQueue
  <2>4. Owed' = Owed + (IF ~Queued(apply_m) THEN 1 ELSE 0)
    BY <1>7, ApplyOwed
  <2>5. CASE Queued(apply_m)
    <3>1. Answered(1, 0)
      BY <1>7, <2>5 DEF ApplyQueue
    <3>2. Owed' = Owed /\ total = ok + error + Owed
      BY <1>0, <2>3, <2>4, <2>5 DEF Accounted
    <3>3. total' = ok' + error' + Owed'
      BY <1>0, <3>1, <3>2 DEF Answered
    <3>4. Accounted'
      BY <1>4, <2>3, <3>1, <3>3 DEF Answered
    <3> QED BY <1>1, <3>4 DEF SyncInv
  <2>6. CASE ~Queued(apply_m)
    <3>1. apc' = "post" /\ UNCHANGED <<jlock, action, fsyncfile, total, ok, error>>
      BY <1>7, <2>6 DEF ApplyQueue, jvars, counts
    <3>2. /\ jlock /\ action = "sync" /\ fsyncfile /\ total = ok + error + Owed
      BY <1>0, <2>3 DEF Accounted
    <3>3. jlock' /\ total' + 1 = ok' + error' + Owed'
      BY <1>0, <2>4, <2>6, <3>1, <3>2
    <3>4. Accounted'
      BY <3>1, <3>2, <3>3 DEF Accounted
    <3> QED BY <1>1, <3>4 DEF SyncInv
  <2> QED BY <2>5, <2>6
<1>8. CASE ApplyPost
  <2>1. Owed' = Owed /\ apc = "post" /\ Answered(0, 0)
    BY <1>2, <1>8 DEF ApplyPost, ApplyQueue
  <2>2. total + 1 = ok + error + Owed
    BY <1>0, <2>1 DEF Accounted
  <2>3. total' = ok' + error' + Owed'
    BY <1>0, <2>1, <2>2 DEF Answered
  <2>4. Accounted'
    BY <1>4, <2>1, <2>3 DEF Answered
  <2> QED BY <1>1, <2>4 DEF SyncInv
<1>9. CASE ApplyEnd
  <2>1. /\ Owed' = Owed /\ apc = "next" /\ apc' = "idle" /\ jlock' = FALSE
        /\ UNCHANGED <<total, ok, error>>
    BY <1>2, <1>9 DEF ApplyEnd, ApplyQueue, counts
  <2>2. jlock /\ action = "sync" /\ fsyncfile /\ total = ok + error + Owed
    BY <1>0, <2>1 DEF Accounted
  <2>3. CASE ok + error = total
    <3>1. action' = "none" /\ fsyncfile' = FALSE
      BY <1>9, <2>3 DEF ApplyEnd
    <3>2. Owed = 0
      BY <1>0, <2>2, <2>3
    <3>3. Accounted'
      BY <2>1, <3>1, <3>2 DEF Accounted
    <3> QED BY <1>1, <3>3 DEF SyncInv
  <2>4. CASE ok + error # total
    <3>1. UNCHANGED <<action, fsyncfile>>
      BY <1>9, <2>4 DEF ApplyEnd
    <3>2. Owed > 0
      BY <1>0, <2>2, <2>4
    <3>3. Accounted'
      BY <2>1, <2>2, <3>1, <3>2 DEF Accounted
    <3> QED BY <1>1, <3>3 DEF SyncInv
  <2> QED BY <2>3, <2>4
<1> QED BY <1>3, <1>5, <1>6, <1>7, <1>8, <1>9 DEF ApplyStep

(* A file that is being transferred still has its metadata. *)
LEMMA TransfersExist ==
  ASSUME Typing, UseInv, SyncInv, NEW t \in Threads, ~Waits(t)
  PROVE  path[cur[t]] \in exists
<1>1. cur[t] \in Mfiles /\ Users(cur[t]) > 0
  BY UsersAreThere DEF Typing, ProcessTypes, Located
<1> QED BY <1>1, UsersHavePaths DEF SyncInv

LEMMA ThreadOwed ==
  ASSUME Typing, UseInv, QueueMatchesSem, SyncInv, NEW t \in Threads, ThreadStep(t), ~NotifySyncEnd(t)
  PROVE  Owed' = Owed
<1> USE DEF TGoto
<1>0. tpc \in [Threads -> ThreadLabels] /\ PlacesFitTypes /\ Owed \in Nat
  BY OwedType DEF Typing, ProcessTypes, SyncInv
<1>1. CASE GetNext(t)
  <2>1. /\ Mine(t) # {} /\ queue' = RemoveAt(queue, Taken(t))
        /\ tpc[t] = "get_next" /\ tpc' = [tpc EXCEPT ![t] = "do_transfer"]
    BY <1>1, WokenFinds, Zenon DEF GetNext, Taken
  <2>2. Waiting(WRITEBACK)' = Waiting(WRITEBACK) - (IF WRITEBACK = Type[t] THEN 1 ELSE 0)
    BY <2>1, WaitingTaken DEF Types
  <2>3. CASE Type[t] = WRITEBACK
    <3>1. Reporting' = Reporting \cup {t} /\ t \notin Reporting
      BY <1>0, <2>1, <2>3 DEF Reporting, Reports
    <3>2. Cardinality(Reporting') = Cardinality(Reporting) + 1
      BY <3>1, OwedType, FS_AddElement
    <3> QED BY <2>2, <2>3, <3>2, OwedType DEF Owed
  <2>4. CASE Type[t] # WRITEBACK
    <3>1. Reporting' = Reporting
      BY <1>0, <2>1, <2>4 DEF Reporting, Reports
    <3> QED BY <2>2, <2>4, <3>1, OwedType DEF Owed
  <2> QED BY <2>3, <2>4
<1>2. CASE DoTransfer(t)
  <2>1. path[cur[t]] \in exists
    BY <1>2, TransfersExist DEF DoTransfer, Waits
  <2>2. /\ queue' = queue /\ tpc[t] = "do_transfer"
        /\ tpc' = [tpc EXCEPT ![t] = IF Type[t] = BACKUP THEN "create" ELSE "copy"]
    BY <1>2, <2>1 DEF DoTransfer, transfer
  <2>3. \A u \in Threads : Reports(u)' <=> Reports(u)
    BY <1>0, <2>2, TypeAssumption DEF Reports, Types, BACKUP, WRITEBACK
  <2> QED BY <2>2, <2>3, OwedUnchanged DEF Waiting
<1>3. CASE Copy(t)
  <2>1. /\ queue' = queue /\ tpc[t] = "copy"
        /\ \E l \in {"release", "unlink", "notify"} :
             tpc' = [tpc EXCEPT ![t] = l] /\ (Type[t] = WRITEBACK <=> l = "notify")
    BY <1>3 DEF Copy, transfer
  <2>2. \A u \in Threads : Reports(u)' <=> Reports(u)
    BY <1>0, <2>1 DEF Reports
  <2> QED BY <2>1, <2>2, OwedUnchanged DEF Waiting
<1>4. CASE \/ SemWait(t) \/ CreateBacking(t) \/ UnlinkBacking(t) \/ ReleaseTransfer(t)
  <2>1. queue' = queue
    BY <1>4 DEF SemWait, CreateBacking, UnlinkBacking, ReleaseTransfer, transfer
  <2>2. \A u \in Threads : Reports(u)' <=> Reports(u)
    BY <1>0, <1>4 DEF PlacesFitTypes, SemWait, CreateBacking, UnlinkBacking, ReleaseTransfer,
      Reports, BACKUP, WRITEBACK
  <2> QED BY <2>1, <2>2, OwedUnchanged DEF Waiting
<1> QED BY <1>1, <1>2, <1>3, <1>4 DEF ThreadStep

LEMMA ThreadSync ==
  ASSUME Typing, UseInv, QueueMatchesSem, SyncInv, NEW t \in Threads, ThreadStep(t)
  PROVE  SyncInv'
<1> USE DEF TGoto
<1>0. /\ QueueTypes /\ JournalTypes /\ ProcessTypes /\ Accounted /\ PlacesFitTypes
      /\ total \in Nat /\ ok \in Nat /\ error \in Nat /\ Owed \in Nat
      /\ tpc \in [Threads -> ThreadLabels]
  BY OwedType DEF Typing, JournalTypes, ProcessTypes, SyncInv
<1>1. UNCHANGED <<exists, apc>>
  BY DEF ThreadStep, SemWait, GetNext, DoTransfer, CreateBacking, Copy, UnlinkBacking,
    NotifySyncEnd, ReleaseTransfer, FileRelease, meta, applier
<1>2. PlacesFitTypes'
  BY <1>0, TypeAssumption DEF Types, BACKUP, WRITEBACK, PlacesFitTypes, ThreadStep, SemWait, GetNext, DoTransfer, CreateBacking, Copy,
    UnlinkBacking, NotifySyncEnd, ReleaseTransfer
<1>3. CASE ~NotifySyncEnd(t)
  <2>1. Owed' = Owed
    BY <1>3, ThreadOwed
  <2>2. UNCHANGED <<jlock, action, fsyncfile, total, ok, error>>
    BY <1>3 DEF ThreadStep, SemWait, GetNext, DoTransfer, CreateBacking, Copy, UnlinkBacking,
      ReleaseTransfer, jvars, counts
  <2>3. Accounted'
    BY <1>0, <1>1, <2>1, <2>2, AccountedUnchanged
  <2> QED BY <1>1, <1>2, <2>3 DEF SyncInv
<1>4. CASE NotifySyncEnd(t)
  <2> DEFINE ok1 == IF success[t] THEN ok + 1 ELSE ok
             error1 == IF success[t] THEN error ELSE error + 1
  <2>1. /\ tpc[t] = "notify" /\ ~jlock /\ tpc' = [tpc EXCEPT ![t] = "release"]
        /\ UNCHANGED <<queue, jlock>>
    BY <1>4 DEF NotifySyncEnd, transfer
  <2>2. Reporting' = Reporting \ {t} /\ t \in Reporting
    BY <1>0, <2>1 DEF Reporting, Reports, PlacesFitTypes
  <2>3. Cardinality(Reporting') = Cardinality(Reporting) - 1 /\ Cardinality(Reporting) > 0
    BY <2>2, OwedType, FS_RemoveElement, FS_EmptySet
  <2>4. Owed' = Owed - 1 /\ Owed > 0
    BY <2>1, <2>3, OwedType DEF Owed, Waiting
  <2>5. action = "sync" /\ fsyncfile /\ total = ok + error + Owed
    BY <1>0, <2>1, <2>4 DEF Accounted
  <2>6. ok1 + error1 = ok + error + 1 /\ ok1 \in Nat /\ error1 \in Nat
    BY <1>0
  <2>7. CASE ok1 + error1 = total
    <3>1. fsyncfile' = FALSE /\ action' = "none" /\ total' = 0 /\ ok' = 0 /\ error' = 0
      BY <1>4, <2>7, Zenon DEF NotifySyncEnd
    <3>2. Owed' = 0
      BY <1>0, <2>4, <2>5, <2>6, <2>7
    <3>3. Accounted'
      BY <1>0, <1>1, <2>1, <3>1, <3>2 DEF Accounted
    <3> QED BY <1>1, <1>2, <3>3 DEF SyncInv
  <2>8. CASE ok1 + error1 # total
    <3>1. ok' = ok1 /\ error' = error1 /\ UNCHANGED <<total, fsyncfile, action>>
      BY <1>4, <2>8, Zenon DEF NotifySyncEnd
    <3>2. Owed' > 0 /\ total' = ok' + error' + Owed'
      <4> HIDE DEF ok1, error1
      <4> QED BY <1>0, <2>4, <2>5, <2>6, <2>8, <3>1
    <3>3. Accounted'
      BY <1>0, <1>1, <2>1, <2>5, <3>1, <3>2 DEF Accounted
    <3> QED BY <1>1, <1>2, <3>3 DEF SyncInv
  <2> QED BY <2>7, <2>8
<1> QED BY <1>3, <1>4

LEMMA SyncInvStep ==
  ASSUME NoFileIsRemoved, Typing, UseInv, QueueMatchesSem, SyncInv, [Next]_vars
  PROVE  SyncInv'
<1>1. CASE Next
  BY <1>1, ClientSync, ApplySync, ThreadSync DEF Next
<1>2. CASE UNCHANGED vars
  <2>1. Owed' = Owed
    BY <1>2, OwedUnchanged DEF Waiting, Reports, vars, transfer, thread
  <2>2. Accounted'
    BY <1>2, <2>1, AccountedUnchanged DEF SyncInv, vars, jvars, counts, applier
  <2> QED BY <1>2, <2>2 DEF SyncInv, PlacesFitTypes, vars, meta, thread
<1> QED BY <1>1, <1>2

LEMMA SyncInvInit == Init => SyncInv
<1> SUFFICES ASSUME Init PROVE SyncInv
  OBVIOUS
<1>1. Positions(queue, OfType(WRITEBACK)) = {} /\ Reporting = {}
  BY DEF Init, Positions, Reporting, Reports
<1>2. Owed = 0
  BY <1>1, FS_EmptySet DEF Owed, Waiting
<1> QED BY <1>2 DEF Init, SyncInv, PlacesFitTypes, Accounted

LEMMA SyncInvHolds == ASSUME NoFileIsRemoved PROVE Spec => []SyncInv
<1>1. UseIsNotLost
  BY DEF NoFileIsRemoved
<1> QED BY <1>1, SyncInvInit, SyncInvStep, UseInvHolds, QueueMatchesSemHolds, PTL DEF Spec

(* When no file is removed, the .fsync file and the "sync" action last exactly
   as long as some write-back has not reported, and total counts the reported
   and the unreported ones (mcachefs_journal_apply, mcachefs_notify_sync_end). *)
THEOREM SyncAccountingHolds == ASSUME NoFileIsRemoved PROVE Spec => []SyncAccounting
<1>1. Typing /\ SyncInv => SyncAccounting
  BY UnreportedIsOwed DEF SyncInv, Typing, QueueTypes
<1> QED BY <1>1, SyncInvHolds, TypingHolds, PTL


-----------------------------------------------------------------------------
(* Every file that the journal or the transfer queue counts on has its copy in
   the cache, and no Bug() is reached, when no file is removed and no backup
   fails half-way: write-backs, and the creation of the copy, may fail, and the
   journal may be applied when it is empty. *)

CopiesStay == Ops \subseteq {"apply_empty", "writeback_fails", "create_fails"}

(* The clients about to queue a backup, the threads about to create the copy,
   and those that write it *)
Pending(c) == cpc[c] \in {"use", "queue"}
Starting(t) == Type[t] = BACKUP /\ tpc[t] \in {"do_transfer", "create"}
Filling(t) == Type[t] = BACKUP /\ tpc[t] = "copy"

HasCopy(m) == path[m] \in incache
ToFill(m, status) == cache_status[m] = status /\ path[m] \notin incache

(* All the users of a structure reach one that is not freed. *)
UsersAllocated ==
  /\ \A c \in Clients : handle[c] # NULL => handle[c] \in Allocated
  /\ \A t \in Threads : cur[t] # NULL => cur[t] \in Allocated
  /\ \A i \in 1..Len(queue) : queue[i].mfile \in Allocated
  /\ apc = "queue" => apply_m \in Allocated

(* One open file per path, at the fh of its metadata *)
FilesAreLinked == \A m \in Allocated : linked[m] /\ fh[path[m]] = m

(* A backup of a file without a copy is in one place at a time: asked by one
   client, or one entry of the queue, or under way in one thread. *)
ClientsAsk ==
  \A c \in Clients : Pending(c) =>
    /\ ToFill(handle[c], "asked")
    /\ \A d \in Clients \ {c} : Pending(d) => handle[d] # handle[c]
EntryAsks(e) ==
  /\ e.type = BACKUP => ToFill(e.mfile, "asked")
  /\ e.type = WRITEBACK => HasCopy(e.mfile)
  /\ \A c \in Clients : Pending(c) => handle[c] # e.mfile
QueueAsks ==
  \A i \in 1..Len(queue) :
    /\ EntryAsks(queue[i])
    /\ \A j \in 1..Len(queue) \ {i} : queue[j].mfile # queue[i].mfile
ThreadsFill ==
  \A t \in Threads :
    /\ Starting(t) => /\ ToFill(cur[t], "in_progress")
                      /\ \A u \in Threads \ {t} : Starting(u) => cur[u] # cur[t]
    /\ Filling(t) => HasCopy(cur[t])
    /\ tpc[t] # "unlink"

BackupInv == ClientsAsk /\ QueueAsks /\ ThreadsFill /\ DoneMeansCached

(* The files that the journal is to write back *)
Copied(s) == \A i \in 1..Len(s) : IsFsync(s[i]) => s[i].path \in incache
FsyncsHaveCopies ==
  /\ \A c \in Clients : cpc[c] = "append_fsync" => HasCopy(handle[c])
  /\ Copied(journal) /\ Copied(todo)
  /\ apc = "get" => IsFsync(Head(todo))
  /\ apc = "queue" => HasCopy(apply_m)

NothingIsRemoved == \A c \in Clients : cpc[c] \notin WithPath

CacheInv == FilesAreLinked /\ BackupInv /\ FsyncsHaveCopies /\ NothingIsRemoved

-----------------------------------------------------------------------------
LEMMA CopiesStayImplies ==
  ASSUME CopiesStay
  PROVE  NoFileIsRemoved /\ UseIsNotLost /\ "unlink" \notin Ops /\ "backup_fails" \notin Ops
  BY DEF CopiesStay, NoFileIsRemoved, UseIsNotLost

LEMMA QueueItems ==
  ASSUME Typing, NEW i \in 1..Len(queue)
  PROVE  /\ queue[i] \in Items /\ queue[i].mfile \in Mfiles /\ queue[i].mfile # NULL
         /\ queue[i].type = BACKUP \/ queue[i].type = WRITEBACK
<1>1. queue \in Seq(Items)
  BY DEF Typing, QueueTypes
<1>2. queue[i] \in Items
  BY <1>1
<1> QED BY <1>2, NullIsNoFile DEF Items, Types

LEMMA UsersAreAllocated == ASSUME Typing, UseInv PROVE UsersAllocated
<1> USE NullIsNoFile
<1>1. \A m \in Mfiles : Users(m) > 0 => m \in Allocated
  BY DEF UseInv, Safe, Allocated
<1>2. \A c \in Clients : handle[c] # NULL => handle[c] \in Allocated
  BY <1>1, UsersAreThere DEF Typing, ProcessTypes
<1>3. \A t \in Threads : cur[t] # NULL => cur[t] \in Allocated
  BY <1>1, UsersAreThere DEF Typing, ProcessTypes
<1>4. \A i \in 1..Len(queue) : queue[i].mfile \in Allocated
  BY <1>1, QueueItems, UsersAreThere
<1>5. apc = "queue" => apply_m \in Allocated
  <2>1. apc = "queue" => apply_m \in Mfiles
    BY DEF Typing, JournalTypes, Located
  <2> QED BY <1>1, <2>1, UsersAreThere
<1> QED BY <1>2, <1>3, <1>4, <1>5 DEF UsersAllocated

LEMMA SamePath ==
  ASSUME FilesAreLinked, NEW m \in Allocated, NEW n \in Allocated, path[m] = path[n]
  PROVE  m = n
  BY DEF FilesAreLinked

(* Where everyone has a file *)
LEMMA WhoHasFiles ==
  ASSUME Typing, UsersAllocated
  PROVE  /\ \A c \in Clients : Pending(c) \/ cpc[c] \in WithHandle => handle[c] \in Allocated
         /\ \A t \in Threads : ~Waits(t) => cur[t] \in Allocated
         /\ \A t \in Threads : Starting(t) \/ Filling(t) => cur[t] \in Allocated
<1>1. \A t \in Threads : ~Waits(t) => cur[t] \in Allocated
  BY DEF Typing, Located, UsersAllocated
<1>2. \A t \in Threads : Starting(t) \/ Filling(t) => ~Waits(t)
  BY DEF Starting, Filling, Waits
<1>3. \A c \in Clients : Pending(c) \/ cpc[c] \in WithHandle => handle[c] # NULL
  BY DEF Typing, Located, Pending, WithHandle
<1> QED BY <1>1, <1>2, <1>3 DEF UsersAllocated

-----------------------------------------------------------------------------
(* Steps that leave the backups alone: a file may be taken or freed. *)

Kept(m) == path'[m] = path[m] /\ cache_status'[m] = cache_status[m]

FilesKept ==
  /\ \A m \in Allocated : m \in Allocated' => Kept(m)
  /\ \A m \in Allocated' : m \in Allocated \/ cache_status'[m] = "none"

LEMMA FileidGetKeeps ==
  ASSUME Typing, UseInv, FilesAreLinked, NEW p \in Paths, NEW n \in Mfiles, FileidGet(p, n)
  PROVE  FilesKept /\ FilesAreLinked' /\ path'[n] = p
<1>0. FileTypes /\ FhIsTheFile
  BY DEF Typing, UseInv
<1>1. CASE fh[p] # NULL
  <2>1. n = fh[p] /\ UNCHANGED <<fh, path, cache_status, linked>>
    BY <1>1 DEF FileidGet
  <2> QED BY <1>0, <1>1, <2>1 DEF FilesKept, Kept, FilesAreLinked, Allocated, FhIsTheFile
<1>2. CASE fh[p] = NULL
  <2>1. /\ path[n] = None /\ fh' = [fh EXCEPT ![p] = n] /\ path' = [path EXCEPT ![n] = p]
        /\ cache_status' = [cache_status EXCEPT ![n] = "none"]
        /\ linked' = [linked EXCEPT ![n] = TRUE]
    BY <1>2 DEF FileidGet, Allocated
  <2>2. FilesKept
    BY <1>0, <2>1 DEF FilesKept, Kept, FileTypes, Allocated
  <2>3. ASSUME NEW m \in Allocated' PROVE linked'[m] /\ fh'[path'[m]] = m
    <3>1. CASE m = n
      BY <1>0, <2>1, <3>1 DEF FileTypes
    <3>2. CASE m # n
      <4>1. m \in Allocated /\ path'[m] = path[m] /\ linked'[m] = linked[m] /\ path[m] \in Paths
        BY <1>0, <2>1, <2>3, <3>2 DEF FileTypes, Allocated, MaybePaths
      <4>2. linked[m] /\ fh[path[m]] = m /\ m # NULL
        BY <4>1, NullIsNoFile DEF FilesAreLinked, Allocated
      <4>3. path[m] # p
        BY <1>2, <4>2
      <4> QED BY <1>0, <2>1, <4>1, <4>2, <4>3 DEF FileTypes
    <3> QED BY <3>1, <3>2
  <2>4. path'[n] = p
    BY <1>0, <2>1 DEF FileTypes
  <2> QED BY <2>2, <2>3, <2>4 DEF FilesAreLinked
<1> QED BY <1>1, <1>2

LEMMA FileReleaseKeeps ==
  ASSUME Typing, UseInv, FilesAreLinked, NEW n \in Allocated, FileRelease(n)
  PROVE  FilesKept /\ FilesAreLinked'
<1>0. FileTypes /\ n \in Mfiles /\ linked[n] /\ path[n] \in Paths
  BY DEF Typing, FileTypes, Allocated, FilesAreLinked, MaybePaths
<1>1. CASE use[n] > 1
  <2>1. UNCHANGED <<fh, path, cache_status, linked>>
    BY <1>1 DEF FileRelease
  <2> QED BY <2>1 DEF FilesKept, Kept, FilesAreLinked, Allocated
<1>2. CASE ~(use[n] > 1)
  <2>1. /\ path' = [path EXCEPT ![n] = None] /\ linked' = [linked EXCEPT ![n] = FALSE]
        /\ fh' = [fh EXCEPT ![path[n]] = NULL] /\ UNCHANGED cache_status
    BY <1>0, <1>2 DEF FileRelease
  <2>2. FilesKept
    BY <1>0, <2>1 DEF FilesKept, Kept, FileTypes, Allocated
  <2>3. ASSUME NEW m \in Allocated' PROVE linked'[m] /\ fh'[path'[m]] = m
    <3>1. m # n /\ m \in Allocated /\ path'[m] = path[m] /\ linked'[m] = linked[m] /\ path[m] \in Paths
      BY <1>0, <2>1, <2>3 DEF FileTypes, Allocated, MaybePaths
    <3>2. linked[m] /\ fh[path[m]] = m /\ path[m] # path[n]
      BY <3>1, SamePath DEF FilesAreLinked
    <3> QED BY <1>0, <2>1, <3>1, <3>2 DEF FileTypes
  <2> QED BY <2>2, <2>3 DEF FilesAreLinked
<1> QED BY <1>1, <1>2

LEMMA FilesUnchanged ==
  ASSUME UNCHANGED <<path, cache_status>> PROVE FilesKept
  BY DEF FilesKept, Kept, Allocated

LEMMA BackupsUnchanged ==
  ASSUME Typing, Typing', UsersAllocated, UsersAllocated', BackupInv, FilesKept,
         UNCHANGED <<queue, incache>>,
         \A c \in Clients : Pending(c)' => Pending(c) /\ handle'[c] = handle[c],
         \A t \in Threads : (Starting(t)' => Starting(t)) /\ (Filling(t)' => Filling(t)),
         \A t \in Threads : (Starting(t) \/ Filling(t))' => cur'[t] = cur[t],
         \A t \in Threads : tpc'[t] # "unlink"
  PROVE  BackupInv'
<1>1. ASSUME NEW c \in Clients, Pending(c)' PROVE handle[c] \in Allocated /\ Kept(handle[c])
  <2>1. handle[c] \in Allocated /\ handle'[c] = handle[c]
    BY <1>1, WhoHasFiles
  <2>2. handle'[c] \in Allocated'
    BY <1>1 DEF UsersAllocated, Typing, Located, Pending, WithHandle
  <2> QED BY <2>1, <2>2 DEF FilesKept
<1>2. ASSUME NEW t \in Threads, Starting(t)' \/ Filling(t)' PROVE cur[t] \in Allocated /\ Kept(cur[t])
  <2>1. cur[t] \in Allocated /\ cur'[t] = cur[t]
    BY <1>2, WhoHasFiles
  <2>2. cur'[t] \in Allocated'
    BY <1>2 DEF UsersAllocated, Typing, Located, Starting, Filling, Waits
  <2> QED BY <2>1, <2>2 DEF FilesKept
<1>3. ASSUME NEW i \in 1..Len(queue) PROVE Kept(queue[i].mfile)
  BY DEF UsersAllocated, FilesKept
<1>4. ClientsAsk'
  <2> SUFFICES ASSUME NEW c \in Clients, Pending(c)'
               PROVE  /\ ToFill(handle[c], "asked")'
                      /\ \A d \in Clients \ {c} : Pending(d)' => handle'[d] # handle'[c]
    BY DEF ClientsAsk
  <2>1. ToFill(handle[c], "asked") /\ Kept(handle[c]) /\ handle'[c] = handle[c]
    BY <1>1 DEF BackupInv, ClientsAsk
  <2>2. ToFill(handle[c], "asked")'
    BY <2>1 DEF ToFill, Kept
  <2>3. \A d \in Clients \ {c} : Pending(d)' => handle'[d] # handle'[c]
    BY <2>1 DEF BackupInv, ClientsAsk
  <2> QED BY <2>2, <2>3
<1>5. QueueAsks'
  <2>1. ASSUME NEW i \in 1..Len(queue) PROVE EntryAsks(queue[i])'
    <3>1. EntryAsks(queue[i]) /\ Kept(queue[i].mfile)
      BY <1>3 DEF BackupInv, QueueAsks
    <3> QED BY <3>1 DEF EntryAsks, ToFill, HasCopy, Kept
  <2> QED BY <2>1 DEF BackupInv, QueueAsks
<1>6. ThreadsFill'
  <2> SUFFICES ASSUME NEW t \in Threads
               PROVE  /\ Starting(t)' => /\ ToFill(cur[t], "in_progress")'
                                         /\ \A u \in Threads \ {t} : Starting(u)' => cur'[u] # cur'[t]
                      /\ Filling(t)' => HasCopy(cur[t])'
    BY DEF ThreadsFill
  <2>1. CASE Starting(t)'
    <3>1. ToFill(cur[t], "in_progress") /\ Kept(cur[t]) /\ cur'[t] = cur[t] /\ Starting(t)
      BY <1>2, <2>1 DEF BackupInv, ThreadsFill
    <3>2. ToFill(cur[t], "in_progress")'
      BY <3>1 DEF ToFill, Kept
    <3>3. \A u \in Threads \ {t} : Starting(u)' => cur'[u] # cur'[t]
      BY <3>1 DEF BackupInv, ThreadsFill
    <3>4. ~Filling(t)'
      BY <2>1 DEF Starting, Filling
    <3> QED BY <3>2, <3>3, <3>4
  <2>2. CASE Filling(t)'
    <3>1. HasCopy(cur[t]) /\ Kept(cur[t]) /\ cur'[t] = cur[t]
      BY <1>2, <2>2 DEF BackupInv, ThreadsFill
    <3>2. HasCopy(cur[t])'
      BY <3>1 DEF HasCopy, Kept
    <3>4. ~Starting(t)'
      BY <2>2 DEF Starting, Filling
    <3> QED BY <3>2, <3>4
  <2> QED BY <2>1, <2>2
<1>7. DoneMeansCached'
  <2> SUFFICES ASSUME NEW m \in Allocated', cache_status'[m] = "done"
               PROVE  path'[m] \in incache'
    BY DEF DoneMeansCached
  <2>1. m \in Allocated /\ Kept(m)
    BY DEF FilesKept
  <2> QED BY <2>1 DEF BackupInv, DoneMeansCached, Kept
<1> QED BY <1>4, <1>5, <1>6, <1>7 DEF BackupInv

-----------------------------------------------------------------------------
(* The fsync entries of the journal *)

LEMMA CopiedAppend ==
  ASSUME NEW s \in Seq(Entries), Copied(s), NEW e \in Entries, IsFsync(e) => e.path \in incache
  PROVE  Copied(Append(s, e))
  BY DEF Copied

LEMMA CopiedTail ==
  ASSUME NEW s \in Seq(Entries), Copied(s), s # <<>>
  PROVE  Copied(Tail(s)) /\ (IsFsync(Head(s)) => Head(s).path \in incache)
<1>1. \A i \in 1..Len(Tail(s)) : Tail(s)[i] = s[i + 1] /\ i + 1 \in 1..Len(s)
  OBVIOUS
<1>2. 1 \in 1..Len(s) /\ Head(s) = s[1]
  OBVIOUS
<1> QED BY <1>1, <1>2 DEF Copied

LEMMA CopiedMore ==
  ASSUME NEW s, Copied(s), incache \subseteq incache'
  PROVE  \A i \in 1..Len(s) : IsFsync(s[i]) => s[i].path \in incache'
  BY DEF Copied

(* A step that appends, starts and takes no fsync entry *)
LEMMA FsyncsUnchanged ==
  ASSUME Typing', UsersAllocated, UsersAllocated', FsyncsHaveCopies, FilesKept,
         UNCHANGED <<journal, todo>>, incache \subseteq incache',
         apc' = "get" => apc = "get", apc' = "queue" => apc = "queue" /\ apply_m' = apply_m,
         \A c \in Clients :
           cpc'[c] = "append_fsync" => cpc[c] = "append_fsync" /\ handle'[c] = handle[c]
  PROVE  FsyncsHaveCopies'
<1>1. ASSUME NEW c \in Clients, cpc'[c] = "append_fsync" PROVE HasCopy(handle[c])'
  <2>1. HasCopy(handle[c]) /\ handle'[c] = handle[c]
    BY <1>1 DEF FsyncsHaveCopies
  <2>2. handle'[c] # NULL
    BY <1>1 DEF Typing, Located, WithHandle
  <2>3. Kept(handle[c])
    BY <2>1, <2>2 DEF UsersAllocated, FilesKept
  <2> QED BY <2>1, <2>3 DEF HasCopy, Kept
<1>2. Copied(journal)' /\ Copied(todo)'
  BY CopiedMore DEF FsyncsHaveCopies, Copied
<1>3. apc' = "get" => IsFsync(Head(todo'))
  BY DEF FsyncsHaveCopies
<1>4. apc' = "queue" => HasCopy(apply_m)'
  BY DEF UsersAllocated, FilesKept, FsyncsHaveCopies, HasCopy, Kept
<1> QED BY <1>1, <1>2, <1>3, <1>4 DEF FsyncsHaveCopies

-----------------------------------------------------------------------------
(* The steps of the clients *)

LEMMA ClientFiles ==
  ASSUME CopiesStay, Typing, UseInv, UsersAllocated, CacheInv,
         NEW c \in Clients, ClientStep(c) \/ ClientCall(c)
  PROVE  /\ FilesAreLinked' /\ NothingIsRemoved' /\ UNCHANGED incache
         /\ ~Backfile(c) => FilesKept
<1>0. /\ FilesAreLinked /\ cpc \in [Clients -> ClientLabels] /\ cpc[c] \notin WithPath
      /\ \A d \in Clients : cpc[d] \notin WithPath
  BY DEF CacheInv, Typing, ProcessTypes, NothingIsRemoved
<1>1. ASSUME UNCHANGED <<fh, path, linked>> PROVE FilesAreLinked'
  BY <1>0, <1>1 DEF FilesAreLinked, Allocated
<1>2. ASSUME NEW l \in ClientLabels \ WithPath, cpc' = [cpc EXCEPT ![c] = l] PROVE NothingIsRemoved'
  BY <1>0, <1>2 DEF NothingIsRemoved
<1>3. {"idle", "backfile", "use", "queue", "post", "append_fsync"} \subseteq ClientLabels \ WithPath
  BY DEF ClientLabels, WithPath
<1>4. ASSUME NEW p \in Paths, Open(c, p)
      PROVE  FilesAreLinked' /\ NothingIsRemoved' /\ UNCHANGED incache /\ FilesKept
  <2>1. PICK n \in Mfiles : FileidGet(p, n)
    BY <1>4 DEF Open
  <2>2. cpc' = [cpc EXCEPT ![c] = "backfile"] /\ UNCHANGED incache
    BY <1>4 DEF Open, CGoto
  <2> QED BY <1>0, <1>2, <1>3, <2>1, <2>2, FileidGetKeeps
<1>5. CASE Release(c)
  <2>1. handle[c] \in Allocated /\ FileRelease(handle[c]) /\ UNCHANGED <<incache, cpc>>
    BY <1>5 DEF Release, FileRelease, UsersAllocated
  <2> QED BY <1>0, <1>5, <2>1, FileReleaseKeeps DEF NothingIsRemoved
<1>6. CASE Backfile(c)
  <2>1. UNCHANGED <<fh, path, linked, incache>>
    BY <1>6 DEF Backfile, meta
  <2>2. \E l \in {"idle", "use"} : cpc' = [cpc EXCEPT ![c] = l]
    BY <1>6 DEF Backfile, CGoto
  <2> QED BY <1>1, <1>2, <1>3, <1>6, <2>1, <2>2
<1>7. CASE UseIncrement(c) \/ QueueBackup(c) \/ PostBackup(c) \/ AppendFsync(c) \/ Write(c)
  <2>1. UNCHANGED <<fh, path, linked, incache, cache_status>>
    BY <1>7 DEF UseIncrement, QueueBackup, PostBackup, AppendFsync, Write, meta, mfile
  <2>2. \E l \in {"idle", "queue", "post", "append_fsync"} : cpc' = [cpc EXCEPT ![c] = l]
    BY <1>7 DEF UseIncrement, QueueBackup, PostBackup, AppendFsync, Write, CGoto
  <2> QED BY <1>1, <1>2, <1>3, <2>1, <2>2, FilesUnchanged
<1>8. ~UnlinkCache(c) /\ ~AppendUpdate(c) /\ ~CreateCache(c)
  BY <1>0 DEF UnlinkCache, AppendUpdate, CreateCache, WithPath
<1>9. \A p \in Paths : ~Unlink(c, p) /\ ~Mknod(c, p)
  BY CopiesStayImplies DEF Unlink, Mknod
<1> QED BY <1>4, <1>5, <1>6, <1>7, <1>8, <1>9 DEF ClientStep, ClientCall

LEMMA ClientFsyncs ==
  ASSUME CopiesStay, Typing, Typing', UseInv, UsersAllocated, UsersAllocated', CacheInv,
         NEW c \in Clients, ClientStep(c) \/ ClientCall(c)
  PROVE  FsyncsHaveCopies'
<1> USE DEF CGoto
<1>0. /\ cpc \in [Clients -> ClientLabels] /\ handle \in [Clients -> Mfiles \cup {NULL}]
      /\ FsyncsHaveCopies /\ DoneMeansCached /\ UNCHANGED <<incache, apc, apply_m, todo>>
  BY ClientFiles, ClientOwed DEF Typing, ProcessTypes, CacheInv, BackupInv
<1>1. CASE Write(c)
  <2>1. /\ handle[c] \in Allocated /\ cache_status[handle[c]] = "done"
        /\ cpc' = [cpc EXCEPT ![c] = "append_fsync"] /\ UNCHANGED <<path, handle, journal>>
    BY <1>1 DEF Write, UsersAllocated, jvars
  <2>2. HasCopy(handle[c])
    BY <1>0, <2>1 DEF DoneMeansCached, HasCopy
  <2> QED BY <1>0, <2>1, <2>2 DEF FsyncsHaveCopies, HasCopy, Copied
<1>2. CASE AppendFsync(c)
  <2>1. /\ cpc' = [cpc EXCEPT ![c] = "idle"] /\ UNCHANGED <<path, handle>>
        /\ journal' = Append(journal, [op |-> "fsync", path |-> path[handle[c]]])
    BY <1>2 DEF AppendFsync, JournalAppend, mfile
  <2>2. HasCopy(handle[c]) /\ Copied(journal)
    BY <1>0, <1>2 DEF FsyncsHaveCopies, AppendFsync
  <2>3. path[handle[c]] \in Paths /\ journal \in Seq(Entries)
    BY <2>2 DEF HasCopy, UseInv, PathsKnown
  <2>4. Copied(journal')
    BY <2>1, <2>2, <2>3, CopiedAppend DEF HasCopy, Entries
  <2> QED BY <1>0, <2>1, <2>4 DEF FsyncsHaveCopies, HasCopy, Copied
<1>3. CASE Backfile(c)
  <2>1. UNCHANGED <<path, handle, journal>> /\ \E l \in {"idle", "use"} : cpc' = [cpc EXCEPT ![c] = l]
    BY <1>3 DEF Backfile, jvars
  <2> QED BY <1>0, <2>1 DEF FsyncsHaveCopies, HasCopy, Copied
<1>4. CASE ~Write(c) /\ ~AppendFsync(c) /\ ~Backfile(c)
  <2>1. UNCHANGED journal
    <3>1. ~AppendUpdate(c)
      BY DEF CacheInv, NothingIsRemoved, WithPath, AppendUpdate
    <3> QED BY <1>4, <3>1 DEF ClientStep, ClientCall, UseIncrement, QueueBackup, PostBackup,
        UnlinkCache, CreateCache, Open, Release, Unlink, Mknod, jvars
  <2>2. \A d \in Clients :
          cpc'[d] = "append_fsync" => cpc[d] = "append_fsync" /\ handle'[d] = handle[d]
    BY <1>0, <1>4 DEF ClientStep, ClientCall, UseIncrement, QueueBackup, PostBackup,
      UnlinkCache, AppendUpdate, CreateCache, Open, Release, Unlink, Mknod
  <2>3. FilesKept
    BY <1>4, ClientFiles
  <2> QED BY <1>0, <2>1, <2>2, <2>3, FsyncsUnchanged
<1> QED BY <1>1, <1>2, <1>3, <1>4

-----------------------------------------------------------------------------
(* The queue, when the entries of all files but x are as they were *)

LEMMA QueueKept ==
  ASSUME Typing, QueueAsks, queue' = queue, NEW x,
         \A i \in 1..Len(queue) : queue[i].mfile # x,
         \A e \in Items : EntryAsks(e) /\ e.mfile # x => EntryAsks(e)'
  PROVE  QueueAsks'
<1>1. ASSUME NEW i \in 1..Len(queue) PROVE EntryAsks(queue[i])'
  <2>1. PICK e \in Items : e = queue[i]
    BY DEF Typing, QueueTypes
  <2>2. EntryAsks(e)'
    BY <2>1 DEF QueueAsks
  <2> QED BY <2>1, <2>2 DEF EntryAsks
<1> QED BY <1>1 DEF QueueAsks

LEMMA QueueTaken ==
  ASSUME Typing, QueueAsks, NEW k \in 1..Len(queue), queue' = RemoveAt(queue, k),
         \A e \in Items : EntryAsks(e) /\ e.mfile # queue[k].mfile => EntryAsks(e)'
  PROVE  QueueAsks'
<1> DEFINE at(i) == IF i < k THEN i ELSE i + 1
<1>1. queue \in Seq(Items) /\ Len(queue) \in Nat
  BY DEF Typing, QueueTypes
<1>2. Len(queue') = Len(queue) - 1 /\ \A i \in 1..Len(queue) - 1 : queue'[i] = queue[at(i)]
  BY <1>1, RemoveAtElements
<1>3. \A i \in 1..Len(queue) - 1 : at(i) \in 1..Len(queue) \ {k}
  BY <1>1
<1>4. \A i, j \in 1..Len(queue) - 1 : i # j => at(i) # at(j)
  BY <1>1
<1> HIDE DEF at
<1>5. ASSUME NEW i \in 1..Len(queue) - 1 PROVE EntryAsks(queue[i])'
  <2>1. PICK e \in Items : e = queue[at(i)]
    BY <1>1, <1>3
  <2>2. EntryAsks(e)'
    BY <1>3, <2>1 DEF QueueAsks
  <2>3. e = queue'[i]
    BY <1>2, <2>1
  <2> QED BY <2>2, <2>3 DEF EntryAsks
<1>6. \A i, j \in 1..Len(queue) - 1 : i # j => queue'[j].mfile # queue'[i].mfile
  BY <1>2, <1>3, <1>4 DEF QueueAsks
<1> QED BY <1>2, <1>5, <1>6 DEF QueueAsks

LEMMA QueueAdded ==
  ASSUME Typing, QueueAsks, NEW m \in Mfiles, NEW type \in Types, ~Queued(m), QueueFile(m, type),
         EntryAsks([mfile |-> m, type |-> type])',
         \A e \in Items : EntryAsks(e) => EntryAsks(e)'
  PROVE  QueueAsks'
<1> DEFINE a == [mfile |-> m, type |-> type]
<1>0. queue' = Append(queue, a)
  BY DEF QueueFile
<1>1. queue \in Seq(Items) /\ Len(queue) \in Nat /\ a \in Items /\ a.mfile = m
  BY DEF Typing, QueueTypes, Items
<1>2. EntryAsks(a)'
  OBVIOUS
<1>3. \A i \in 1..Len(queue) : queue[i].mfile # m
  BY DEF Queued
<1> HIDE DEF a
<1>4. /\ Len(queue') = Len(queue) + 1 /\ queue'[Len(queue) + 1] = a
      /\ \A i \in 1..Len(queue) : queue'[i] = queue[i]
  BY <1>0, <1>1
<1>5. ASSUME NEW i \in 1..Len(queue) + 1 PROVE EntryAsks(queue[i])'
  <2>1. CASE i = Len(queue) + 1
    <3>1. a = queue'[i]
      BY <1>4, <2>1
    <3> QED BY <1>2, <3>1 DEF EntryAsks, a
  <2>2. CASE i \in 1..Len(queue)
    <3>1. PICK e \in Items : e = queue[i]
      BY <1>1, <2>2
    <3>2. EntryAsks(e)'
      BY <2>2, <3>1 DEF QueueAsks
    <3>3. e = queue'[i]
      BY <1>4, <2>2, <3>1
    <3> QED BY <3>2, <3>3 DEF EntryAsks
  <2> QED BY <1>1, <2>1, <2>2
<1>6. \A i, j \in 1..Len(queue) + 1 : i # j => queue'[j].mfile # queue'[i].mfile
  BY <1>1, <1>3, <1>4 DEF QueueAsks
<1> QED BY <1>4, <1>5, <1>6 DEF QueueAsks

(* The status of a file that has its copy says nothing of a backup. *)
LEMMA StatusOfCopied ==
  ASSUME Typing, ClientsAsk, ThreadsFill, DoneMeansCached, NEW m \in Mfiles, HasCopy(m), NEW s,
         cache_status' = [cache_status EXCEPT ![m] = s], UNCHANGED <<path, incache>>,
         \A c \in Clients : Pending(c)' => Pending(c) /\ handle'[c] = handle[c],
         \A t \in Threads : Starting(t)' => Starting(t) /\ cur'[t] = cur[t],
         \A t \in Threads : Filling(t)' => Filling(t) /\ cur'[t] = cur[t],
         \A t \in Threads : tpc'[t] # "unlink"
  PROVE  /\ ClientsAsk' /\ ThreadsFill' /\ DoneMeansCached'
         /\ \A e \in Items : EntryAsks(e) => EntryAsks(e)'
<1>0. cache_status \in [Mfiles -> Statuses]
  BY DEF Typing, FileTypes
<1>1. ASSUME NEW n \in Mfiles, NEW status, ToFill(n, status)
      PROVE  cache_status'[n] = status /\ path'[n] \notin incache'
  BY <1>0, <1>1 DEF ToFill, HasCopy
<1>2. \A n : path[n] \in incache => path'[n] \in incache'
  OBVIOUS
<1>3. \A c \in Clients : Pending(c) => handle[c] \in Mfiles
  BY DEF Typing, ProcessTypes, Located, Pending, WithHandle
<1>4. \A t \in Threads : Starting(t) => cur[t] \in Mfiles
  BY DEF Typing, ProcessTypes, Located, Starting, Waits
<1>5. ClientsAsk'
  BY <1>1, <1>3 DEF ClientsAsk, ToFill
<1>6. ThreadsFill'
  BY <1>1, <1>2, <1>4 DEF ThreadsFill, ToFill, HasCopy
<1>7. DoneMeansCached'
  BY <1>0 DEF DoneMeansCached, Allocated, HasCopy
<1>8. ASSUME NEW e \in Items, EntryAsks(e) PROVE EntryAsks(e)'
  <2>1. e.mfile \in Mfiles
    BY DEF Items
  <2>2. e.type = BACKUP => ToFill(e.mfile, "asked")'
    BY <1>1, <1>8, <2>1 DEF EntryAsks, ToFill
  <2>3. e.type = WRITEBACK => HasCopy(e.mfile)'
    BY <1>8 DEF EntryAsks, HasCopy
  <2> QED BY <1>8, <2>2, <2>3 DEF EntryAsks
<1> QED BY <1>5, <1>6, <1>7, <1>8

LEMMA ClientBackups ==
  ASSUME CopiesStay, Typing, Typing', UseInv, UsersAllocated, UsersAllocated', CacheInv,
         NEW c \in Clients, ClientStep(c) \/ ClientCall(c)
  PROVE  BackupInv'
<1> USE DEF CGoto
<1>0. /\ cpc \in [Clients -> ClientLabels] /\ handle \in [Clients -> Mfiles \cup {NULL}]
      /\ cache_status \in [Mfiles -> Statuses] /\ queue \in Seq(Items)
      /\ BackupInv /\ FilesAreLinked /\ UNCHANGED <<incache, tpc, cur>>
  BY ClientFiles, ClientOwed DEF Typing, ProcessTypes, FileTypes, QueueTypes, CacheInv
<1>00. ClientsAsk /\ QueueAsks /\ ThreadsFill /\ DoneMeansCached
  BY <1>0 DEF BackupInv
<1>01. /\ \A t \in Threads : Starting(t)' => Starting(t) /\ cur'[t] = cur[t]
       /\ \A t \in Threads : Filling(t)' => Filling(t) /\ cur'[t] = cur[t]
       /\ \A t \in Threads : tpc'[t] # "unlink"
  BY <1>0, <1>00 DEF Starting, Filling, ThreadsFill
<1>1. CASE Backfile(c)
  <2>1. /\ handle[c] \in Allocated /\ handle[c] \in Mfiles
        /\ cpc[c] = "backfile" /\ UNCHANGED <<path, queue, handle>>
    BY <1>1, WhoHasFiles DEF Backfile, WithHandle, Allocated, transfer
  <2>2. CASE cache_status' = cache_status /\ cpc' = [cpc EXCEPT ![c] = "idle"]
    <3>1. \A d \in Clients : Pending(d)' => Pending(d) /\ handle'[d] = handle[d]
      BY <1>0, <2>1, <2>2 DEF Pending
    <3>2. FilesKept
      BY <2>1, <2>2, FilesUnchanged
    <3> QED BY <1>0, <1>01, <2>1, <3>1, <3>2, BackupsUnchanged
  <2>3. CASE /\ HasCopy(handle[c]) /\ cpc' = [cpc EXCEPT ![c] = "idle"]
             /\ cache_status' = [cache_status EXCEPT ![handle[c]] = "done"]
    <3>1. \A d \in Clients : Pending(d)' => Pending(d) /\ handle'[d] = handle[d]
      BY <1>0, <2>1, <2>3 DEF Pending
    <3>2. /\ ClientsAsk' /\ ThreadsFill' /\ DoneMeansCached'
          /\ \A e \in Items : EntryAsks(e) => EntryAsks(e)'
      BY <1>0, <1>00, <1>01, <2>1, <2>3, <3>1, StatusOfCopied
    <3>4. QueueAsks'
      BY <1>00, <2>1, <3>2, QueueItems, QueueKept
    <3> QED BY <3>2, <3>4 DEF BackupInv
  <2>4. CASE /\ cache_status[handle[c]] \in {"none", "error"} /\ ~HasCopy(handle[c])
             /\ cache_status' = [cache_status EXCEPT ![handle[c]] = "asked"]
             /\ cpc' = [cpc EXCEPT ![c] = "use"]
    <3>1. \A m \in Mfiles : ToFill(m, "asked") \/ ToFill(m, "in_progress") => m # handle[c]
      BY <2>4 DEF ToFill
    <3>2. \A m \in Mfiles \ {handle[c]} : cache_status'[m] = cache_status[m]
      BY <1>0, <2>1, <2>4
    <3>3. ToFill(handle[c], "asked")'
      BY <1>0, <2>1, <2>4 DEF ToFill, HasCopy
    <3>4. \A d \in Clients : Pending(d)' <=> (Pending(d) \/ d = c)
      BY <1>0, <2>1, <2>4 DEF Pending
    <3>5. \A d \in Clients : Pending(d) => handle[d] \in Mfiles
      BY WhoHasFiles DEF Allocated
    <3>6. ClientsAsk'
      <4>1. \A d \in Clients : Pending(d) => handle[d] # handle[c] /\ ToFill(handle[d], "asked")'
        BY <1>0, <1>00, <2>1, <3>1, <3>2, <3>5 DEF ClientsAsk, ToFill
      <4> QED BY <1>00, <2>1, <3>3, <3>4, <4>1 DEF ClientsAsk, ToFill
    <3>7. ThreadsFill'
      <4>1. \A t \in Threads : Starting(t) => cur[t] \in Mfiles
        BY WhoHasFiles DEF Allocated
      <4>2. \A t \in Threads : Starting(t) => ToFill(cur[t], "in_progress")'
        BY <1>0, <1>00, <2>1, <3>1, <3>2, <4>1 DEF ThreadsFill, ToFill
      <4> QED BY <1>0, <1>00, <1>01, <2>1, <4>2 DEF ThreadsFill, ToFill, HasCopy
    <3>8. DoneMeansCached'
      BY <1>0, <1>00, <2>1, <2>4 DEF DoneMeansCached, Allocated
    <3>9. \A i \in 1..Len(queue) : queue[i].mfile # handle[c]
      <4> SUFFICES ASSUME NEW i \in 1..Len(queue), queue[i].mfile = handle[c] PROVE FALSE
        OBVIOUS
      <4>1. queue[i].type \in {BACKUP, WRITEBACK} /\ queue[i].mfile \in Mfiles
        BY QueueItems
      <4> QED BY <1>00, <2>4, <3>1, <4>1 DEF QueueAsks, EntryAsks
    <3>10. ASSUME NEW e \in Items, EntryAsks(e), e.mfile # handle[c] PROVE EntryAsks(e)'
      <4>1. e.mfile \in Mfiles \ {handle[c]}
        BY <3>10 DEF Items
      <4>2. cache_status'[e.mfile] = cache_status[e.mfile]
        BY <3>2, <4>1
      <4>3. \A d \in Clients : Pending(d)' => handle'[d] # e.mfile
        BY <2>1, <3>4, <3>10 DEF EntryAsks
      <4> QED BY <1>0, <2>1, <3>10, <4>2, <4>3 DEF EntryAsks, ToFill, HasCopy
    <3>11. QueueAsks'
      BY <1>00, <2>1, <3>9, <3>10, QueueKept
    <3> QED BY <3>6, <3>7, <3>8, <3>11 DEF BackupInv
  <2> QED BY <1>1, <2>2, <2>3, <2>4 DEF Backfile, HasCopy
<1>2. CASE QueueBackup(c)
  <2>1. /\ cpc[c] = "queue" /\ handle[c] \in Mfiles /\ Pending(c)
        /\ UNCHANGED <<path, cache_status, handle>> /\ QueueFile(handle[c], BACKUP)
    BY <1>2, WhoHasFiles DEF QueueBackup, Pending, Allocated, mfile
  <2>2. ToFill(handle[c], "asked")
    BY <1>00, <2>1 DEF ClientsAsk
  <2>3. ~Queued(handle[c])
    BY <1>00, <2>1 DEF Queued, QueueAsks, EntryAsks
  <2>4. cpc' = [cpc EXCEPT ![c] = "post"]
    BY <1>2, <2>3 DEF QueueBackup
  <2>5. \A d \in Clients : Pending(d)' <=> Pending(d) /\ d # c
    BY <1>0, <2>1, <2>4 DEF Pending
  <2>6. ClientsAsk' /\ ThreadsFill' /\ DoneMeansCached'
    BY <1>0, <1>00, <1>01, <2>1, <2>5 DEF ClientsAsk, ThreadsFill, DoneMeansCached, ToFill, HasCopy,
      Allocated
  <2>7. \A e \in Items : EntryAsks(e) => EntryAsks(e)'
    BY <1>0, <2>1, <2>5 DEF EntryAsks, ToFill, HasCopy
  <2>8. EntryAsks([mfile |-> handle[c], type |-> BACKUP])'
    <3>1. \A d \in Clients : Pending(d)' => handle'[d] # handle[c]
      BY <1>00, <2>1, <2>5 DEF ClientsAsk
    <3>2. ToFill(handle[c], "asked")'
      BY <1>0, <2>1, <2>2 DEF ToFill
    <3> QED BY <2>1, <3>1, <3>2 DEF EntryAsks, BACKUP, WRITEBACK
  <2>9. QueueAsks'
    BY <1>00, <2>1, <2>3, <2>7, <2>8, QueueAdded DEF Types
  <2> QED BY <2>6, <2>9 DEF BackupInv
<1>3. CASE ~Backfile(c) /\ ~QueueBackup(c)
  <2>1. FilesKept
    BY <1>3, ClientFiles
  <2>2. UNCHANGED queue
    BY <1>3 DEF ClientStep, ClientCall, UseIncrement, PostBackup, AppendFsync, UnlinkCache,
      AppendUpdate, CreateCache, Open, Write, Release, Unlink, Mknod, transfer
  <2>3. \A d \in Clients : Pending(d)' => Pending(d) /\ handle'[d] = handle[d]
    BY <1>0, <1>3 DEF Pending, ClientStep, ClientCall, UseIncrement, PostBackup, AppendFsync,
      UnlinkCache, AppendUpdate, CreateCache, Open, Write, Release, Unlink, Mknod
  <2> QED BY <1>0, <1>01, <2>1, <2>2, <2>3, BackupsUnchanged
<1> QED BY <1>1, <1>2, <1>3

-----------------------------------------------------------------------------
(* The steps of the applier *)

LEMMA ApplyFiles ==
  ASSUME Typing, UseInv, FilesAreLinked, NothingIsRemoved, ApplyStart \/ ApplyStep
  PROVE  /\ FilesAreLinked' /\ NothingIsRemoved' /\ UNCHANGED <<incache, handle, cpc, tpc, cur>>
         /\ ~ApplyQueue => FilesKept
<1>1. UNCHANGED <<incache, handle, cpc, tpc, cur>>
  BY DEF ApplyStart, ApplyStep, ApplyNext, ApplyGet, ApplyQueue, ApplyPost, ApplyEnd, meta, client, thread
<1>2. NothingIsRemoved'
  BY <1>1 DEF NothingIsRemoved
<1>3. CASE ApplyGet /\ Head(todo).path \in exists
  <2>1. PICK n \in Mfiles : FileidGet(Head(todo).path, n)
    BY <1>3 DEF ApplyGet
  <2>2. Head(todo).path \in Paths
    BY <1>3 DEF Typing, FileTypes
  <2> QED BY <1>1, <1>2, <2>1, <2>2, FileidGetKeeps
<1>4. CASE ApplyQueue
  <2>1. UNCHANGED <<fh, path, linked>>
    BY <1>4 DEF ApplyQueue, meta
  <2> QED BY <1>1, <1>2, <1>4, <2>1 DEF FilesAreLinked, Allocated
<1>5. CASE ~(ApplyGet /\ Head(todo).path \in exists) /\ ~ApplyQueue
  <2>1. UNCHANGED <<fh, path, linked, cache_status>>
    BY <1>5 DEF ApplyStart, ApplyStep, ApplyNext, ApplyGet, ApplyPost, ApplyEnd, meta, mfile
  <2> QED BY <1>1, <1>2, <2>1, FilesUnchanged DEF FilesAreLinked, Allocated
<1> QED BY <1>3, <1>4, <1>5

LEMMA ApplyFsyncs ==
  ASSUME Typing, Typing', UseInv, UsersAllocated, UsersAllocated', CacheInv, ApplyStart \/ ApplyStep
  PROVE  FsyncsHaveCopies'
<1>0. /\ UNCHANGED <<incache, handle, cpc>> /\ FsyncsHaveCopies
      /\ Copied(journal) /\ Copied(todo) /\ todo \in Seq(Entries)
      /\ FilesAreLinked /\ (~ApplyQueue => FilesKept)
  BY ApplyFiles DEF CacheInv, FsyncsHaveCopies, UseInv, PathsKnown
<1>1. ASSUME FilesKept PROVE \A c \in Clients : cpc'[c] = "append_fsync" => HasCopy(handle[c])'
  <2> SUFFICES ASSUME NEW c \in Clients, cpc'[c] = "append_fsync" PROVE HasCopy(handle[c])'
    OBVIOUS
  <2>1. HasCopy(handle[c]) /\ handle'[c] = handle[c] /\ handle[c] # NULL
    BY <1>0 DEF FsyncsHaveCopies, Typing, Located, WithHandle
  <2>2. Kept(handle[c])
    BY <1>1, <2>1 DEF UsersAllocated, FilesKept
  <2> QED BY <1>0, <2>1, <2>2 DEF HasCopy, Kept
<1>2. CASE ApplyStart
  <2>1. FilesKept /\ apc # "get" /\ apc' # "get" /\ apc' # "queue"
    BY <1>0, <1>2 DEF ApplyStart, ApplyQueue
  <2>2. UNCHANGED <<journal, todo>> \/ (journal' = <<>> /\ todo' = journal)
    BY <1>2, Zenon DEF ApplyStart, jvars
  <2>3. Copied(journal)' /\ Copied(todo)'
    BY <1>0, <2>2 DEF Copied
  <2> QED BY <1>1, <2>1, <2>3 DEF FsyncsHaveCopies
<1>3. ASSUME ApplyStep, ~ApplyQueue PROVE Copied(journal)' /\ Copied(todo)'
  <2>1. UNCHANGED journal
    BY <1>3 DEF ApplyStep, ApplyNext, ApplyGet, ApplyPost, ApplyEnd, Answered, jvars
  <2>2. todo' = todo \/ (todo # <<>> /\ todo' = Tail(todo))
    BY <1>3 DEF ApplyStep, ApplyNext, ApplyGet, ApplyPost, ApplyEnd, Answered, Typing, Located
  <2>3. todo # <<>> => Copied(Tail(todo))
    BY <1>0, CopiedTail
  <2> QED BY <1>0, <2>1, <2>2, <2>3 DEF Copied
<1>4. CASE ApplyNext \/ ApplyPost \/ ApplyEnd
  <2>1. FilesKept /\ apc' # "queue"
    BY <1>0, <1>4 DEF ApplyNext, ApplyPost, ApplyEnd, Answered, ApplyQueue
  <2>2. apc' = "get" => IsFsync(Head(todo)) /\ todo' = todo
    BY <1>4 DEF ApplyNext, ApplyPost, ApplyEnd, Answered
  <2>3. ~ApplyQueue
    BY <1>4 DEF ApplyNext, ApplyPost, ApplyEnd, ApplyQueue
  <2> QED BY <1>1, <1>3, <1>4, <2>1, <2>2, <2>3 DEF FsyncsHaveCopies, ApplyStep
<1>5. CASE ApplyGet
  <2>1. FilesKept /\ ~ApplyQueue /\ apc' # "get" /\ todo # <<>> /\ IsFsync(Head(todo))
    BY <1>0, <1>5 DEF ApplyGet, ApplyQueue, Answered, FsyncsHaveCopies, Typing, Located
  <2>2. Head(todo).path \in incache
    BY <1>0, <2>1, CopiedTail
  <2>3. apc' = "queue" => HasCopy(apply_m)'
    <3> SUFFICES ASSUME apc' = "queue" PROVE HasCopy(apply_m)'
      OBVIOUS
    <3>1. Head(todo).path \in exists
      BY <1>5 DEF ApplyGet, Answered
    <3>2. PICK n \in Mfiles : FileidGet(Head(todo).path, n) /\ apply_m' = n
      BY <1>5, <3>1 DEF ApplyGet
    <3>3. path'[n] = Head(todo).path
      BY <1>0, <3>1, <3>2, FileidGetKeeps DEF Typing, FileTypes
    <3> QED BY <1>0, <2>2, <3>2, <3>3 DEF HasCopy
  <2> QED BY <1>1, <1>3, <1>5, <2>1, <2>3 DEF FsyncsHaveCopies, ApplyStep
<1>6. CASE ApplyQueue
  <2>1. UNCHANGED <<path, journal>> /\ apc' # "get" /\ apc' # "queue" /\ todo # <<>>
    BY <1>6 DEF ApplyQueue, Answered, jvars, Typing, Located
  <2>2. todo' = todo \/ todo' = Tail(todo)
    BY <1>6 DEF ApplyQueue, Answered
  <2>3. Copied(todo)'
    BY <1>0, <2>1, <2>2, CopiedTail DEF Copied
  <2> QED BY <1>0, <2>1, <2>3 DEF FsyncsHaveCopies, HasCopy, Copied
<1> QED BY <1>2, <1>4, <1>5, <1>6 DEF ApplyStep

LEMMA ApplyBackups ==
  ASSUME Typing, Typing', UseInv, UsersAllocated, UsersAllocated', CacheInv, ApplyStart \/ ApplyStep
  PROVE  BackupInv'
<1>0. /\ UNCHANGED <<incache, handle, cpc, tpc, cur>> /\ FsyncsHaveCopies /\ BackupInv
      /\ ClientsAsk /\ QueueAsks /\ ThreadsFill /\ DoneMeansCached
      /\ (~ApplyQueue => FilesKept)
  BY ApplyFiles DEF CacheInv, BackupInv
<1>1. /\ \A c \in Clients : Pending(c)' => Pending(c) /\ handle'[c] = handle[c]
      /\ \A t \in Threads : Starting(t)' => Starting(t) /\ cur'[t] = cur[t]
      /\ \A t \in Threads : Filling(t)' => Filling(t) /\ cur'[t] = cur[t]
      /\ \A t \in Threads : tpc'[t] # "unlink"
  BY <1>0 DEF Pending, Starting, Filling, ThreadsFill
<1>2. CASE ApplyQueue
  <2>1. /\ apply_m \in Mfiles /\ HasCopy(apply_m) /\ UNCHANGED path
        /\ cache_status' = [cache_status EXCEPT ![apply_m] = "done"]
        /\ QueueFile(apply_m, WRITEBACK)
    BY <1>0, <1>2 DEF ApplyQueue, FsyncsHaveCopies, UsersAllocated, Allocated
  <2>2. /\ ClientsAsk' /\ ThreadsFill' /\ DoneMeansCached'
        /\ \A e \in Items : EntryAsks(e) => EntryAsks(e)'
    BY <1>0, <1>1, <2>1, StatusOfCopied
  <2>3. QueueAsks'
    <3>1. CASE Queued(apply_m)
      <4>1. queue' = queue
        BY <2>1, <3>1 DEF QueueFile
      <4> QED BY <1>0, <2>2, <4>1, QueueItems, QueueKept
    <3>2. CASE ~Queued(apply_m)
      <4>1. PICK m \in Mfiles : m = apply_m
        BY <2>1
      <4>2. HasCopy(m)' /\ QueueFile(m, WRITEBACK) /\ ~Queued(m)
        BY <1>0, <2>1, <3>2, <4>1 DEF HasCopy
      <4>3. \A c \in Clients : Pending(c)' => handle'[c] # m
        BY <1>0, <1>1, <2>1, <4>1 DEF ClientsAsk, ToFill, HasCopy
      <4>4. EntryAsks([mfile |-> m, type |-> WRITEBACK])'
        BY <4>2, <4>3 DEF EntryAsks, BACKUP, WRITEBACK
      <4> QED BY <1>0, <2>2, <4>2, <4>4, QueueAdded DEF Types
    <3> QED BY <3>1, <3>2
  <2> QED BY <2>2, <2>3 DEF BackupInv
<1>3. CASE ~ApplyQueue
  <2>1. UNCHANGED queue
    BY <1>3 DEF ApplyStart, ApplyStep, ApplyNext, ApplyGet, ApplyPost, ApplyEnd, transfer
  <2> QED BY <1>0, <1>1, <1>3, <2>1, BackupsUnchanged
<1> QED BY <1>2, <1>3

-----------------------------------------------------------------------------
(* The steps of the transfer threads *)

LEMMA CreateIsBackup ==
  ASSUME SyncInv, NEW t \in Threads, tpc[t] = "create"
  PROVE  Type[t] = BACKUP
  BY DEF SyncInv, PlacesFitTypes

LEMMA ThreadFiles ==
  ASSUME CopiesStay, Typing, UseInv, UsersAllocated, CacheInv, NEW t \in Threads, ThreadStep(t)
  PROVE  /\ FilesAreLinked' /\ NothingIsRemoved' /\ incache \subseteq incache'
         /\ UNCHANGED <<handle, cpc, apc, apply_m, todo, journal>>
         /\ ~GetNext(t) /\ ~Copy(t) => FilesKept
<1>0. FileTypes /\ FilesAreLinked /\ tpc[t] # "unlink"
  BY DEF Typing, CacheInv, BackupInv, ThreadsFill
<1>1. UNCHANGED <<handle, cpc, apc, apply_m, todo, journal>>
  BY DEF ThreadStep, SemWait, GetNext, DoTransfer, CreateBacking, Copy, UnlinkBacking,
    NotifySyncEnd, ReleaseTransfer, client, applier, jvars
<1>2. NothingIsRemoved'
  BY <1>1 DEF CacheInv, NothingIsRemoved
<1>3. incache \subseteq incache'
  BY <1>0 DEF ThreadStep, SemWait, GetNext, DoTransfer, CreateBacking, Copy, UnlinkBacking,
    NotifySyncEnd, ReleaseTransfer, FileRelease, meta
<1>4. CASE ReleaseTransfer(t)
  <2>1. cur[t] \in Allocated /\ FileRelease(cur[t])
    BY <1>4, WhoHasFiles DEF ReleaseTransfer, Waits
  <2> QED BY <1>0, <1>1, <1>2, <1>3, <2>1, FileReleaseKeeps
<1>5. CASE DoTransfer(t)
  <2>1. UNCHANGED <<fh, path, cache_status>> /\ (linked' = linked \/ linked' = [linked EXCEPT ![cur[t]] = TRUE])
    BY <1>5, Zenon DEF DoTransfer, meta
  <2>2. FilesKept
    BY <2>1, FilesUnchanged
  <2>3. FilesAreLinked'
    BY <1>0, <2>1 DEF FilesAreLinked, FileTypes, Allocated
  <2> QED BY <1>1, <1>2, <1>3, <2>2, <2>3
<1>6. CASE ~ReleaseTransfer(t) /\ ~DoTransfer(t)
  <2>1. UNCHANGED <<fh, path, linked>>
    BY <1>6 DEF ThreadStep, SemWait, GetNext, CreateBacking, Copy, UnlinkBacking,
      NotifySyncEnd, meta, mfile
  <2>2. ~GetNext(t) /\ ~Copy(t) => UNCHANGED cache_status
    BY <1>6 DEF ThreadStep, SemWait, CreateBacking, UnlinkBacking, NotifySyncEnd, mfile
  <2>3. FilesAreLinked'
    BY <1>0, <2>1 DEF FilesAreLinked, Allocated
  <2> QED BY <1>1, <1>2, <1>3, <2>1, <2>2, <2>3, FilesUnchanged
<1> QED BY <1>4, <1>5, <1>6

LEMMA ThreadFsyncs ==
  ASSUME CopiesStay, Typing, Typing', UseInv, UsersAllocated, UsersAllocated', CacheInv,
         NEW t \in Threads, ThreadStep(t)
  PROVE  FsyncsHaveCopies'
<1>0. /\ incache \subseteq incache' /\ UNCHANGED <<handle, cpc, apc, apply_m, todo, journal>>
      /\ FsyncsHaveCopies /\ (~GetNext(t) /\ ~Copy(t) => FilesKept)
  BY ThreadFiles DEF CacheInv
<1>1. CASE GetNext(t) \/ Copy(t)
  <2>1. UNCHANGED path
    BY <1>1 DEF GetNext, Copy
  <2> QED BY <1>0, <2>1, CopiedMore DEF FsyncsHaveCopies, HasCopy, Copied
<1>2. CASE ~GetNext(t) /\ ~Copy(t)
  BY <1>0, <1>2, FsyncsUnchanged
<1> QED BY <1>1, <1>2

LEMMA ThreadBackups ==
  ASSUME CopiesStay, Typing, Typing', UseInv, UsersAllocated, UsersAllocated', CacheInv,
         QueueMatchesSem, SyncInv, NEW t \in Threads, ThreadStep(t)
  PROVE  BackupInv'
<1> USE DEF TGoto
<1>0. /\ tpc \in [Threads -> ThreadLabels] /\ cur \in [Threads -> Mfiles \cup {NULL}]
      /\ cache_status \in [Mfiles -> Statuses] /\ path \in [Mfiles -> MaybePaths]
      /\ queue \in Seq(Items) /\ Type \in [Threads -> Types]
      /\ FilesAreLinked /\ BackupInv /\ UNCHANGED <<handle, cpc>>
      /\ (~GetNext(t) /\ ~Copy(t) => FilesKept)
  BY ThreadFiles, TypeAssumption DEF Typing, ProcessTypes, FileTypes, QueueTypes, CacheInv
<1>00. ClientsAsk /\ QueueAsks /\ ThreadsFill /\ DoneMeansCached
  BY <1>0 DEF BackupInv
<1>01. \A c \in Clients : (Pending(c)' <=> Pending(c)) /\ handle'[c] = handle[c]
  BY <1>0 DEF Pending
<1>1. CASE GetNext(t)
  <2>0. Mine(t) # {}
    BY <1>1, WokenFinds DEF GetNext
  <2>1. /\ queue' = RemoveAt(queue, Taken(t)) /\ cur' = [cur EXCEPT ![t] = queue[Taken(t)].mfile]
        /\ tpc[t] = "get_next" /\ tpc' = [tpc EXCEPT ![t] = "do_transfer"]
        /\ UNCHANGED <<path, incache>>
        /\ cache_status' = [cache_status EXCEPT ![queue[Taken(t)].mfile] =
                              IF cache_status[queue[Taken(t)].mfile] = "asked" THEN "in_progress"
                              ELSE cache_status[queue[Taken(t)].mfile]]
    BY <1>1, <2>0, Zenon DEF GetNext, Taken, meta
  <2>2. PICK k \in 1..Len(queue) : k = Taken(t)
    BY <2>0, TakenIsMine
  <2>3. PICK m \in Mfiles : m = queue[k].mfile
    BY <2>0, <2>2, TakenIsMine
  <2>4. EntryAsks(queue[k]) /\ queue[k].type = Type[t]
    BY <1>00, <2>0, <2>2, TakenIsMine DEF QueueAsks
  <2>5. /\ queue' = RemoveAt(queue, k) /\ cur' = [cur EXCEPT ![t] = m]
        /\ cache_status' = [cache_status EXCEPT ![m] =
                              IF cache_status[m] = "asked" THEN "in_progress" ELSE cache_status[m]]
    BY <2>1, <2>2, <2>3
  <2>6. CASE Type[t] = WRITEBACK
    <3>1. HasCopy(m)
      BY <2>3, <2>4, <2>6 DEF EntryAsks
    <3>2. \A u \in Threads : Starting(u)' => Starting(u) /\ cur'[u] = cur[u]
      BY <1>0, <2>1, <2>5, <2>6 DEF Starting, BACKUP, WRITEBACK
    <3>3. \A u \in Threads : Filling(u)' => Filling(u) /\ cur'[u] = cur[u]
      BY <1>0, <2>1, <2>5, <2>6 DEF Filling, BACKUP, WRITEBACK
    <3>4. \A u \in Threads : tpc'[u] # "unlink"
      BY <1>0, <1>00, <2>1 DEF ThreadsFill
    <3>5. /\ ClientsAsk' /\ ThreadsFill' /\ DoneMeansCached'
          /\ \A e \in Items : EntryAsks(e) => EntryAsks(e)'
      <4>1. PICK s : cache_status' = [cache_status EXCEPT ![m] = s]
        BY <2>5
      <4>2. UNCHANGED <<path, incache>>
        BY <2>1
      <4> QED BY <1>00, <1>01, <3>1, <3>2, <3>3, <3>4, <4>1, <4>2, StatusOfCopied
    <3>6. QueueAsks'
      BY <1>00, <2>5, <3>5, QueueTaken
    <3> QED BY <3>5, <3>6 DEF BackupInv
  <2>7. CASE Type[t] = BACKUP
    <3>1. ToFill(m, "asked")
      BY <2>3, <2>4, <2>7 DEF EntryAsks
    <3>2. /\ \A n \in Mfiles \ {m} : cache_status'[n] = cache_status[n]
          /\ cache_status'[m] = "in_progress"
      BY <1>0, <2>5, <3>1 DEF ToFill
    <3>3. ToFill(m, "in_progress")'
      BY <2>1, <3>1, <3>2 DEF ToFill
    <3>4. \A u \in Threads \ {t} : (Starting(u)' <=> Starting(u)) /\ (Filling(u)' <=> Filling(u))
                                   /\ cur'[u] = cur[u] /\ tpc'[u] # "unlink"
      BY <1>0, <1>00, <2>1, <2>5 DEF Starting, Filling, ThreadsFill
    <3>5. cur'[t] = m /\ ~Filling(t)' /\ tpc'[t] # "unlink"
      BY <1>0, <2>1, <2>5 DEF Filling
    <3>6. \A u \in Threads \ {t} : Starting(u) => cur[u] # m /\ ToFill(cur[u], "in_progress")'
      <4>1. \A u \in Threads : Starting(u) => cur[u] \in Mfiles
        BY WhoHasFiles DEF Allocated
      <4> QED BY <1>00, <2>1, <3>1, <3>2, <4>1 DEF ThreadsFill, ToFill
    <3>7. ThreadsFill'
      <4>1. \A u \in Threads \ {t} : Filling(u) => HasCopy(cur[u])'
        BY <1>00, <2>1, <3>4 DEF ThreadsFill, HasCopy
      <4>2. \A u \in Threads \ {t} : Starting(u)' => ToFill(cur[u], "in_progress")'
        BY <3>4, <3>6 DEF ToFill
      <4>3. \A u \in Threads \ {t} : Starting(u)' => cur'[u] # m
        BY <3>4, <3>6
      <4>4. \A u, v \in Threads \ {t} : u # v /\ Starting(u)' /\ Starting(v)' => cur'[u] # cur'[v]
        BY <1>00, <3>4 DEF ThreadsFill
      <4>5. ToFill(cur[t], "in_progress")'
        BY <3>3, <3>5 DEF ToFill
      <4>6. \A u \in Threads \ {t} : Filling(u)' => HasCopy(cur[u])'
        BY <3>4, <4>1 DEF HasCopy
      <4> QED BY <3>4, <3>5, <4>2, <4>3, <4>4, <4>5, <4>6 DEF ThreadsFill
    <3>8. \A c \in Clients : Pending(c) => handle[c] # m /\ handle[c] \in Mfiles
      BY <2>3, <2>4, WhoHasFiles DEF EntryAsks, Allocated
    <3>9. ClientsAsk'
      BY <1>00, <1>01, <2>1, <3>2, <3>8 DEF ClientsAsk, ToFill
    <3>10. ASSUME NEW e \in Items, EntryAsks(e), e.mfile # m PROVE EntryAsks(e)'
      <4>1. e.mfile \in Mfiles \ {m}
        BY <3>10 DEF Items
      <4>2. cache_status'[e.mfile] = cache_status[e.mfile]
        BY <3>2, <4>1
      <4> QED BY <1>01, <2>1, <3>10, <4>2 DEF EntryAsks, ToFill, HasCopy
    <3>11. QueueAsks'
      BY <1>00, <2>3, <2>5, <3>10, QueueTaken
    <3>12. DoneMeansCached'
      BY <1>0, <1>00, <2>1, <3>2 DEF DoneMeansCached, Allocated
    <3> QED BY <3>7, <3>9, <3>11, <3>12 DEF BackupInv
  <2> QED BY <1>0, <2>6, <2>7 DEF Types
<1>2. CASE CreateBacking(t) /\ path[cur[t]] \notin incache /\ incache' # incache
  <2>1. /\ tpc[t] = "create" /\ tpc' = [tpc EXCEPT ![t] = "copy"]
        /\ UNCHANGED <<path, cache_status, queue, cur>>
        /\ incache' = incache \cup {path[cur[t]]}
    BY <1>2 DEF CreateBacking, mfile, transfer
  <2>2. cur[t] \in Allocated /\ cur[t] \in Mfiles /\ (Starting(t) => ToFill(cur[t], "in_progress"))
    BY <1>00, <2>1, WhoHasFiles DEF Waits, Allocated, ThreadsFill
  <2>3. Starting(t)
    BY <2>1, CreateIsBackup DEF Starting
  (* Only this file gets its copy. *)
  <2>4. ASSUME NEW m \in Allocated, NEW status, ToFill(m, status), m # cur[t]
        PROVE  cache_status'[m] = status /\ path'[m] \notin incache'
    <3>1. path[m] # path[cur[t]]
      BY <1>0, <2>2, <2>4, SamePath
    <3> QED BY <2>1, <2>4, <3>1 DEF ToFill
  <2>5. \A c \in Clients : Pending(c) => handle[c] \in Allocated /\ handle[c] # cur[t]
    BY <1>00, <2>2, <2>3, WhoHasFiles DEF ClientsAsk, ToFill
  <2>6. ClientsAsk'
    BY <1>00, <1>01, <2>4, <2>5 DEF ClientsAsk, ToFill
  <2>7. QueueAsks'
    <3>1. ASSUME NEW i \in 1..Len(queue) PROVE EntryAsks(queue[i])'
      <4>1. EntryAsks(queue[i]) /\ queue[i].mfile \in Allocated
        BY <1>00 DEF QueueAsks, UsersAllocated
      <4>2. queue[i].type = BACKUP => ToFill(queue[i].mfile, "asked")'
        <5>1. ToFill(queue[i].mfile, "asked") => queue[i].mfile # cur[t]
          BY <2>2, <2>3 DEF ToFill
        <5>2. ToFill(queue[i].mfile, "asked") => ToFill(queue[i].mfile, "asked")'
          BY <2>1, <2>4, <4>1, <5>1 DEF ToFill
        <5> QED BY <4>1, <5>2 DEF EntryAsks
      <4>3. queue[i].type = WRITEBACK => HasCopy(queue[i].mfile)'
        BY <2>1, <4>1 DEF EntryAsks, HasCopy
      <4> QED BY <1>01, <2>1, <4>1, <4>2, <4>3 DEF EntryAsks
    <3> QED BY <1>00, <2>1, <3>1 DEF QueueAsks
  <2>8. ThreadsFill'
    <3>1. \A u \in Threads \ {t} : /\ Starting(u)' <=> Starting(u)
                                   /\ Filling(u)' <=> Filling(u)
                                   /\ tpc'[u] # "unlink"
      BY <1>0, <1>00, <2>1 DEF Starting, Filling, ThreadsFill
    <3>2. ~Starting(t)' /\ tpc'[t] # "unlink" /\ HasCopy(cur[t])'
      BY <1>0, <2>1 DEF Starting, HasCopy
    <3>3. \A u \in Threads \ {t} : Starting(u) => cur[u] \in Allocated /\ cur[u] # cur[t]
      BY <1>00, <2>3, WhoHasFiles DEF ThreadsFill
    <3>4. \A u \in Threads \ {t} : Starting(u)' => ToFill(cur[u], "in_progress")'
      BY <1>00, <2>1, <2>4, <3>1, <3>3 DEF ThreadsFill, ToFill
    <3>5. \A u \in Threads \ {t} : Filling(u)' => HasCopy(cur[u])'
      BY <1>00, <2>1, <3>1 DEF ThreadsFill, HasCopy
    <3>6. \A u, v \in Threads : u # v /\ Starting(u)' /\ Starting(v)' => cur'[u] # cur'[v]
      BY <1>00, <2>1, <3>1, <3>2 DEF ThreadsFill
    <3> QED BY <3>1, <3>2, <3>4, <3>5, <3>6 DEF ThreadsFill
  <2>9. DoneMeansCached'
    BY <1>00, <2>1 DEF DoneMeansCached, Allocated
  <2> QED BY <2>6, <2>7, <2>8, <2>9 DEF BackupInv
<1>3. CASE Copy(t)
  <2>1. /\ tpc[t] = "copy" /\ UNCHANGED <<path, incache, queue, cur>>
        /\ tpc' = [tpc EXCEPT ![t] = IF Type[t] = WRITEBACK THEN "notify" ELSE "release"]
        /\ cache_status' = [cache_status EXCEPT ![cur[t]] = IF Type[t] = BACKUP THEN "done" ELSE @]
    BY <1>3, CopiesStayImplies DEF Copy, MayFail, transfer, meta, BACKUP, WRITEBACK
  <2>2. cur[t] \in Allocated
    BY <2>1, WhoHasFiles DEF Waits
  <2>3. PICK m \in Mfiles : m = cur[t]
    BY <2>2 DEF Allocated
  <2>4. \A u \in Threads : Starting(u)' => Starting(u) /\ cur'[u] = cur[u]
    BY <1>0, <2>1 DEF Starting
  <2>5. \A u \in Threads : Filling(u)' => Filling(u) /\ cur'[u] = cur[u]
    BY <1>0, <2>1 DEF Filling
  <2>6. \A u \in Threads : tpc'[u] # "unlink"
    BY <1>0, <1>00, <2>1 DEF ThreadsFill
  <2>7. UNCHANGED <<path, incache>> /\ queue' = queue
    BY <2>1
  <2>8. CASE Type[t] = BACKUP
    <3>1. HasCopy(m)
      BY <1>00, <2>1, <2>3, <2>8 DEF ThreadsFill, Filling
    <3>2. PICK s : cache_status' = [cache_status EXCEPT ![m] = s]
      BY <2>1, <2>3
    <3>3. /\ ClientsAsk' /\ ThreadsFill' /\ DoneMeansCached'
          /\ \A e \in Items : EntryAsks(e) => EntryAsks(e)'
      BY <1>00, <1>01, <2>4, <2>5, <2>6, <2>7, <3>1, <3>2, StatusOfCopied
    <3>4. QueueAsks'
      BY <1>00, <2>7, <3>3, QueueItems, QueueKept
    <3> QED BY <3>3, <3>4 DEF BackupInv
  <2>9. CASE Type[t] # BACKUP
    <3>1. cache_status' = cache_status
      BY <1>0, <2>1, <2>3, <2>9
    <3>2. FilesKept
      BY <2>7, <3>1, FilesUnchanged
    <3> QED BY <1>0, <1>01, <2>4, <2>5, <2>6, <2>7, <3>2, BackupsUnchanged
  <2> QED BY <2>8, <2>9
<1>4. CASE ~GetNext(t) /\ ~Copy(t) /\ incache' = incache
  <2>1. queue' = queue
    BY <1>4 DEF ThreadStep, SemWait, DoTransfer, CreateBacking, UnlinkBacking, NotifySyncEnd,
      ReleaseTransfer, transfer
  <2>2. \A u \in Threads \ {t} : tpc'[u] = tpc[u] /\ cur'[u] = cur[u]
    BY <1>0, <1>4 DEF ThreadStep, SemWait, DoTransfer, CreateBacking, UnlinkBacking, NotifySyncEnd,
      ReleaseTransfer
  <2>3. tpc'[t] # "unlink" /\ (Starting(t)' => Starting(t)) /\ (Filling(t)' => Filling(t))
        /\ (Starting(t)' \/ Filling(t)' => cur'[t] = cur[t])
    <3>1. CASE DoTransfer(t)
      <4>1. cur[t] \in Allocated
        BY <3>1, WhoHasFiles DEF DoTransfer, Waits
      <4>2. /\ tpc[t] = "do_transfer" /\ UNCHANGED cur
            /\ tpc' = [tpc EXCEPT ![t] = IF Type[t] = BACKUP THEN "create" ELSE "copy"]
        BY <1>0, <3>1, <4>1 DEF DoTransfer, FilesAreLinked
      <4> QED BY <1>0, <4>2 DEF Starting, Filling
    <3>2. CASE CreateBacking(t)
      <4>1. tpc' = [tpc EXCEPT ![t] = "release"]
        BY <1>4, <3>2 DEF CreateBacking
      <4> QED BY <1>0, <4>1 DEF Starting, Filling
    <3>3. CASE ~DoTransfer(t) /\ ~CreateBacking(t)
      <4>1. \E l \in {"get_next", "release", "sem_wait"} : tpc' = [tpc EXCEPT ![t] = l]
        BY <1>4, <3>3 DEF ThreadStep, SemWait, UnlinkBacking, NotifySyncEnd, ReleaseTransfer
      <4> QED BY <1>0, <4>1 DEF Starting, Filling
    <3> QED BY <3>1, <3>2, <3>3
  <2>4. \A u \in Threads : /\ Starting(u)' => Starting(u) /\ cur'[u] = cur[u]
                           /\ Filling(u)' => Filling(u) /\ cur'[u] = cur[u]
                           /\ tpc'[u] # "unlink"
    BY <1>00, <2>2, <2>3 DEF Starting, Filling, ThreadsFill
  <2> QED BY <1>0, <1>01, <1>4, <2>1, <2>4, BackupsUnchanged
<1>5. ~GetNext(t) /\ ~Copy(t) /\ incache' # incache => CreateBacking(t) /\ path[cur[t]] \notin incache
  BY <1>00 DEF ThreadsFill, ThreadStep, SemWait, DoTransfer, CreateBacking, UnlinkBacking, NotifySyncEnd,
    ReleaseTransfer, FileRelease, meta
<1> QED BY <1>1, <1>2, <1>3, <1>4, <1>5

-----------------------------------------------------------------------------
LEMMA CacheInvInit == Init => CacheInv
<1> SUFFICES ASSUME Init PROVE CacheInv
  OBVIOUS
<1>1. Allocated = {} /\ queue = <<>> /\ journal = <<>> /\ todo = <<>> /\ apc = "idle"
  BY DEF Init, Allocated
<1>2. /\ \A c \in Clients : cpc[c] = "idle"
      /\ \A t \in Threads : tpc[t] = "sem_wait"
  BY DEF Init
<1>3. ClientsAsk /\ ThreadsFill
  BY <1>2 DEF ClientsAsk, ThreadsFill, Pending, Starting, Filling
<1>4. QueueAsks /\ DoneMeansCached /\ FilesAreLinked
  BY <1>1 DEF QueueAsks, DoneMeansCached, FilesAreLinked
<1>5. FsyncsHaveCopies /\ NothingIsRemoved
  BY <1>1, <1>2 DEF FsyncsHaveCopies, Copied, NothingIsRemoved, WithPath
<1> QED BY <1>3, <1>4, <1>5 DEF CacheInv, BackupInv

LEMMA CacheInvStep ==
  ASSUME CopiesStay, Typing, Typing', UseInv, UsersAllocated, UsersAllocated', SyncInv,
         QueueMatchesSem, CacheInv, [Next]_vars
  PROVE  CacheInv'
<1>1. ASSUME NEW c \in Clients, ClientStep(c) \/ ClientCall(c) PROVE CacheInv'
  BY <1>1, ClientFiles, ClientFsyncs, ClientBackups DEF CacheInv
<1>2. ASSUME ApplyStart \/ ApplyStep PROVE CacheInv'
  BY <1>2, ApplyFiles, ApplyFsyncs, ApplyBackups DEF CacheInv
<1>3. ASSUME NEW t \in Threads, ThreadStep(t) PROVE CacheInv'
  BY <1>3, ThreadFiles, ThreadFsyncs, ThreadBackups DEF CacheInv
<1>4. CASE UNCHANGED vars
  <2>1. FilesAreLinked' /\ NothingIsRemoved'
    BY <1>4 DEF CacheInv, FilesAreLinked, NothingIsRemoved, Allocated, vars, meta, mfile, client
  <2>2. FilesKept
    BY <1>4, FilesUnchanged DEF vars, mfile
  <2>3. BackupInv'
    <3>1. \A c \in Clients : Pending(c)' => Pending(c) /\ handle'[c] = handle[c]
      BY <1>4 DEF vars, client, Pending
    <3>2. \A t \in Threads : /\ Starting(t)' => Starting(t) /\ cur'[t] = cur[t]
                             /\ Filling(t)' => Filling(t) /\ cur'[t] = cur[t]
                             /\ tpc'[t] # "unlink"
      BY <1>4 DEF vars, thread, Starting, Filling, CacheInv, BackupInv, ThreadsFill
    <3>3. UNCHANGED <<queue, incache>>
      BY <1>4 DEF vars, transfer, meta
    <3> QED BY <2>2, <3>1, <3>2, <3>3, BackupsUnchanged DEF CacheInv
  <2>4. FsyncsHaveCopies'
    BY <1>4 DEF CacheInv, FsyncsHaveCopies, Copied, HasCopy, vars, meta, mfile, jvars, client, applier
  <2> QED BY <2>1, <2>3, <2>4 DEF CacheInv
<1> QED BY <1>1, <1>2, <1>3, <1>4 DEF Next

LEMMA CacheInvHolds == ASSUME CopiesStay PROVE Spec => [](UsersAllocated /\ CacheInv)
<1>1. NoFileIsRemoved /\ UseIsNotLost
  BY CopiesStayImplies
<1>2. Typing /\ UseInv => UsersAllocated
  BY UsersAreAllocated
<1>3. Typing /\ Typing' /\ UseInv /\ UsersAllocated /\ UsersAllocated' /\ SyncInv /\ QueueMatchesSem
        /\ CacheInv /\ [Next]_vars => CacheInv'
  BY CacheInvStep
<1>4. Spec => [](Typing /\ UseInv) /\ []SyncInv /\ []QueueMatchesSem
  BY <1>1, UseInvHolds, SyncInvHolds, QueueMatchesSemHolds, PTL
<1> QED BY <1>2, <1>3, <1>4, CacheInvInit, PTL DEF Spec

(* When no file is removed and no backup fails half-way, an open file whose
   cache_status is DONE has its copy in the cache: mcachefs_read_file and
   mcachefs_write_file go there without looking. *)
THEOREM DoneMeansCachedHolds == ASSUME CopiesStay PROVE Spec => []DoneMeansCached
<1>1. CacheInv => DoneMeansCached
  BY DEF CacheInv, BackupInv
<1> QED BY <1>1, CacheInvHolds, PTL

-----------------------------------------------------------------------------
(* The counts of the application are zero when it is over, and while it runs
   only files that are owed are counted. *)
Totals ==
  /\ ~jlock /\ action # "sync" => total = 0
  /\ jlock /\ (total # 0 \/ apc = "post") => Owed > 0

BugInv == Totals /\ NoBug

LEMMA QueuedIsOwed ==
  ASSUME Typing, NEW i \in 1..Len(queue), queue[i].type = WRITEBACK
  PROVE  Owed > 0
<1>1. queue \in Seq(Items) /\ queue[i] \in Items
  BY QueueItems DEF Typing, QueueTypes
<1>2. i \in Positions(queue, OfType(WRITEBACK))
  BY <1>1 DEF Positions, OfType
<1>3. Waiting(WRITEBACK) # 0
  BY <1>1, <1>2, PositionsFinite, FS_EmptySet DEF Waiting
<1> QED BY <1>3, OwedType DEF Owed

LEMMA ApplyTotals ==
  ASSUME Typing, UseInv, SyncInv, CacheInv, BugInv, ApplyStart \/ ApplyStep
  PROVE  BugInv'
<1>0. /\ Totals /\ NoBug /\ Accounted /\ Owed \in Nat
      /\ total \in Nat /\ ok \in Nat /\ error \in Nat
      /\ apc \in {"idle", "next", "get", "queue", "post"}
  BY OwedType DEF BugInv, SyncInv, Typing, JournalTypes
<1>1. ~ApplyQueue => Owed' = Owed
  BY <1>0, ApplyOwed
(* Everything that is to be written back has its copy and its metadata. *)
<1>2. /\ Copied(todo) /\ todo \in Seq(Entries) /\ exists = Paths
      /\ apc \in {"get", "queue", "post"} => todo # <<>>
      /\ apc = "get" => IsFsync(Head(todo))
  BY DEF CacheInv, FsyncsHaveCopies, UseInv, PathsKnown, SyncInv, Typing, Located
<1>3. todo # <<>> => Head(todo).path \in exists /\ (IsFsync(Head(todo)) => Head(todo).path \in incache)
  <2>1. ASSUME todo # <<>> PROVE Head(todo) \in Entries
    BY <1>2, <2>1
  <2> QED BY <1>2, <2>1, CopiedTail DEF Entries
<1>4. CASE ApplyStart
  <2>1. ~jlock /\ action = "none" /\ apc = "idle"
    BY <1>4 DEF ApplyStart
  <2>2. total = 0
    BY <1>0, <2>1 DEF Totals
  <2>3. CASE jfile
    <3>1. jlock' = TRUE /\ apc' = "next" /\ total' = 0 /\ bug' = bug
      BY <1>4, <2>2, <2>3, Zenon DEF ApplyStart
    <3> QED BY <1>0, <3>1 DEF BugInv, Totals, NoBug
  <2>4. CASE ~jfile
    <3>1. jlock' = jlock /\ apc' = apc /\ total' = 0 /\ bug' = bug
      BY <1>4, <2>2, <2>4, Zenon DEF ApplyStart
    <3>2. ~jlock'
      BY <2>1, <3>1, Zenon
    <3> QED BY <1>0, <3>1, <3>2 DEF BugInv, Totals, NoBug
  <2> QED BY <2>3, <2>4
<1>5. CASE ApplyNext
  <2>1. apc = "next" /\ UNCHANGED <<jlock, action, total, bug>> /\ apc' \in {"next", "get"}
    BY <1>3, <1>5 DEF ApplyNext, jvars, counts
  <2>2. Owed' = Owed
    BY <1>1, <1>5 DEF ApplyNext, ApplyQueue
  <2> QED BY <1>0, <2>1, <2>2 DEF BugInv, Totals, NoBug
<1>6. CASE ApplyGet
  <2>1. apc = "get" /\ apc' = "queue" /\ UNCHANGED <<jlock, action, total, bug>>
    BY <1>2, <1>3, <1>6 DEF ApplyGet, jvars, counts
  <2>2. Owed' = Owed
    BY <1>1, <1>6 DEF ApplyGet, ApplyQueue
  <2> QED BY <1>0, <2>1, <2>2 DEF BugInv, Totals, NoBug
<1>7. ASSUME apc # "idle", UNCHANGED <<jlock, bug>>, Owed' > 0 PROVE BugInv'
  <2>1. jlock' = jlock /\ jlock
    BY <1>0, <1>7 DEF Accounted
  <2>2. jlock'
    BY <2>1, Zenon
  <2> QED BY <1>0, <1>7, <2>2 DEF BugInv, Totals, NoBug
<1>8. CASE ApplyQueue
  <2>1. apc = "queue" /\ UNCHANGED <<jlock, bug>> /\ HasCopy(apply_m)
    BY <1>8 DEF ApplyQueue, Answered, jvars, CacheInv, FsyncsHaveCopies
  <2>2. Owed' = Owed + (IF ~Queued(apply_m) THEN 1 ELSE 0)
    BY <1>8, ApplyOwed
  <2>3. CASE Queued(apply_m)
    <3>1. PICK i \in 1..Len(queue) : queue[i].mfile = apply_m
      BY <2>3 DEF Queued
    <3>2. EntryAsks(queue[i])
      BY DEF CacheInv, BackupInv, QueueAsks
    <3>3. queue[i].type = WRITEBACK
      BY <2>1, <3>1, <3>2, QueueItems DEF EntryAsks, ToFill, HasCopy
    <3>4. Owed > 0
      BY <3>3, QueuedIsOwed
    <3> QED BY <1>0, <1>7, <2>1, <2>2, <2>3, <3>4
  <2>4. CASE ~Queued(apply_m)
    BY <1>0, <1>7, <2>1, <2>2, <2>4
  <2> QED BY <2>3, <2>4
<1>9. CASE ApplyPost
  <2>1. apc = "post" /\ UNCHANGED <<jlock, bug>> /\ Owed' = Owed
    BY <1>1, <1>9 DEF ApplyPost, Answered, ApplyQueue
  <2>2. Owed > 0
    BY <1>0, <2>1 DEF Totals, Accounted
  <2> QED BY <1>7, <2>1, <2>2
<1>10. CASE ApplyEnd
  <2>1. apc = "next" /\ jlock' = FALSE /\ UNCHANGED <<total, bug>>
    BY <1>10 DEF ApplyEnd, counts
  <2>2. jlock /\ action = "sync" /\ total = ok + error + Owed /\ (total # 0 => Owed > 0)
    BY <1>0, <2>1 DEF Accounted, Totals
  <2>3. CASE ok + error = total
    <3>1. total = 0
      BY <1>0, <2>2, <2>3
    <3> QED BY <1>0, <2>1, <3>1 DEF BugInv, Totals, NoBug
  <2>4. CASE ok + error # total
    <3>1. action' = "sync"
      BY <1>10, <2>2, <2>4 DEF ApplyEnd
    <3> QED BY <1>0, <2>1, <3>1 DEF BugInv, Totals, NoBug
  <2> QED BY <2>3, <2>4
<1> QED BY <1>4, <1>5, <1>6, <1>8, <1>9, <1>10 DEF ApplyStep

LEMMA ThreadTotals ==
  ASSUME Typing, UseInv, QueueMatchesSem, SyncInv, BugInv, NEW t \in Threads, ThreadStep(t)
  PROVE  BugInv'
<1>0. Totals /\ NoBug /\ Accounted /\ PlacesFitTypes /\ UNCHANGED apc
  BY DEF BugInv, SyncInv, ThreadStep, SemWait, GetNext, DoTransfer, CreateBacking, Copy, UnlinkBacking,
    NotifySyncEnd, ReleaseTransfer, applier
<1>1. CASE NotifySyncEnd(t)
  <2>1. tpc[t] = "notify" /\ ~jlock /\ jlock' = jlock
    BY <1>1 DEF NotifySyncEnd
  <2>2. ~jlock'
    BY <2>1, Zenon
  <2>3. t \in Reporting
    BY <1>0, <2>1 DEF Reporting, Reports, PlacesFitTypes
  <2>4. Owed > 0
    BY <2>3, OwedType, FS_EmptySet DEF Owed
  <2>5. action = "sync" /\ fsyncfile
    BY <1>0, <2>1, <2>4 DEF Accounted
  <2>6. bug' = bug /\ (total' = 0 \/ action' = action)
    BY <1>1, <2>5, Zenon DEF NotifySyncEnd
  <2> QED BY <1>0, <2>2, <2>5, <2>6 DEF BugInv, Totals, NoBug
<1>2. CASE ~NotifySyncEnd(t)
  <2>1. UNCHANGED <<jlock, action, total>>
    BY <1>2 DEF ThreadStep, SemWait, GetNext, DoTransfer, CreateBacking, Copy, UnlinkBacking,
      ReleaseTransfer, jvars, counts
  <2>2. Owed' = Owed
    BY <1>2, ThreadOwed
  <2>3. bug' = bug
    <3>1. CASE GetNext(t)
      <4>1. Mine(t) # {}
        BY <3>1, WokenFinds DEF GetNext
      <4> QED BY <3>1, <4>1 DEF GetNext
    <3>2. CASE ReleaseTransfer(t)
      <4>1. cur[t] \in Mfiles /\ Users(cur[t]) > 0
        BY <3>2, UsersAreThere DEF ReleaseTransfer, Typing, ProcessTypes, Located, Waits
      <4> QED BY <3>2, <4>1, FileReleaseUse DEF ReleaseTransfer
    <3>3. CASE ~GetNext(t) /\ ~ReleaseTransfer(t)
      BY <1>2, <3>3 DEF ThreadStep, SemWait, DoTransfer, CreateBacking, Copy, UnlinkBacking
    <3> QED BY <3>1, <3>2, <3>3
  <2> QED BY <1>0, <2>1, <2>2, <2>3 DEF BugInv, Totals, NoBug
<1> QED BY <1>1, <1>2

LEMMA ClientTotals ==
  ASSUME CopiesStay, Typing, UseInv, CacheInv, BugInv, NEW c \in Clients, ClientStep(c) \/ ClientCall(c)
  PROVE  BugInv'
<1>1. Totals'
  BY ClientOwed DEF BugInv, Totals
<1>2. NoBug'
  <2>1. CASE Release(c)
    <3>1. handle[c] \in Mfiles /\ Users(handle[c]) > 0
      BY <2>1, UsersAreThere DEF Release, Typing, ProcessTypes
    <3> QED BY <2>1, <3>1, FileReleaseUse DEF Release, BugInv, NoBug
  <2>2. CASE ~Release(c)
    BY <2>2 DEF BugInv, NoBug, ClientStep, ClientCall, Backfile, UseIncrement, QueueBackup, PostBackup,
      AppendFsync, UnlinkCache, AppendUpdate, CreateCache, Open, Write, Unlink, Mknod
  <2> QED BY <2>1, <2>2
<1> QED BY <1>1, <1>2 DEF BugInv

LEMMA BugInvStep ==
  ASSUME CopiesStay, Typing, UseInv, QueueMatchesSem, SyncInv, CacheInv, BugInv, [Next]_vars
  PROVE  BugInv'
<1>1. CASE Next
  BY <1>1, ClientTotals, ApplyTotals, ThreadTotals DEF Next
<1>2. CASE UNCHANGED vars
  <2>1. Owed' = Owed
    BY <1>2, OwedUnchanged DEF Waiting, Reports, vars, transfer, thread
  <2>2. UNCHANGED <<jlock, action, total, apc, bug>>
    BY <1>2 DEF vars, jvars, counts, applier
  <2> QED BY <2>1, <2>2 DEF BugInv, Totals, NoBug
<1> QED BY <1>1, <1>2

LEMMA BugInvInit == Init => BugInv
  BY DEF Init, BugInv, Totals, NoBug

(* When no file is removed and no backup fails half-way, none of the Bug() of
   the modelled code is reached: the application that starts finds no pending
   fsync, the last write-back finds the .fsync file, a woken thread finds an
   entry, and no structure is released more often than it was taken. *)
THEOREM NoBugHolds == ASSUME CopiesStay PROVE Spec => []NoBug
<1>1. NoFileIsRemoved /\ UseIsNotLost
  BY CopiesStayImplies
<1>2. Typing /\ UseInv /\ QueueMatchesSem /\ SyncInv /\ CacheInv /\ BugInv /\ [Next]_vars => BugInv'
  BY BugInvStep
<1>3. Spec => [](Typing /\ UseInv) /\ []SyncInv /\ []QueueMatchesSem /\ [](UsersAllocated /\ CacheInv)
  BY <1>1, UseInvHolds, SyncInvHolds, QueueMatchesSemHolds, CacheInvHolds, PTL
<1>4. BugInv => NoBug
  BY DEF BugInv
<1> QED BY <1>2, <1>3, <1>4, BugInvInit, PTL DEF Spec

================================================================================
