---------------------------------- MODULE Locks ----------------------------------
(* The locks of mcachefs: four global mutexes (metadata, file, journal, transfer)
   and one mutex for each open file, taken by the calls of the kernel and by the
   threads of the program in nested critical sections.  A call is the list of the
   steps it makes as far as locks, reference counts and the transfer queue are
   concerned; what it does between them is in the other modules.  A critical
   section that takes no other lock is one step, possible when the mutex is free.

   There is one regular file "f", one vops file "v", a directory "d" and its child
   "e".  What a condition on the data decides is a choice.  Not modelled: the
   second open file that an unlink or a flush makes for the same path (it has a
   mutex of its own, taken in the same order), and the steps of the threads that
   wait, unlocked, for something else than a lock (FileSource, CacheCoherence).   *)
EXTENDS Naturals, FiniteSets, Sequences

CONSTANTS
  Clients,    (* the threads of libfuse                                   *)
  Calls,      (* the calls they make, a subset of DOMAIN PathCalls        *)
  NONE,       (* the owner of a free mutex                                *)
  MaxCalls,   (* bound: calls of each client that open a file or name a path *)
  MaxTicks    (* bound: periods of the file thread                        *)

Files == {"f", "v", "d", "e"}
Mutexes == {"journal", "metadata", "file", "transfer"} \cup Files
Transfers == {"backup", "writeback", "fill"}
Background == Transfers \cup {"ticker"}
Threads == Clients \cup Background

ASSUME ClientsAssumption == Clients \cap Background = {} /\ NONE \notin Threads
ASSUME BoundsAssumption == MaxCalls \in Nat /\ MaxTicks \in Nat

VARIABLES
  todo,      (* the steps each thread has still to make                         *)
  holder,    (* the thread that holds each mutex, or NONE                       *)
  live,      (* the files that have a structure, reached from the metadata      *)
  use,       (* its reference count                                             *)
  queue,     (* the files to transfer, with their type                          *)
  current,   (* the transfer threads that publish a file, with it               *)
  opened,    (* the file each client has open, or "none"                        *)
  calls, ticks

vars == <<todo, holder, live, use, queue, current, opened, calls, ticks>>

------------------------------------------------------------------------------------
(* The language of the lists.                                                      *)

Lock(m) == <<"lock", m>>
Unlock(m) == <<"unlock", m>>
Within(m) == << <<"within", m>> >>                  \* a section with no inner lock
Hold(m, s) == <<Lock(m)>> \o s \o <<Unlock(m)>>
Either(s, r) == << <<"either", s, r>> >>
Maybe(s) == Either(s, << >>)
If(c, x, s) == << <<"if", c, x, s>> >>
Do(op, x) == << <<op, x>> >>
Ask(x, t) == << <<"ask", x, t>> >>

------------------------------------------------------------------------------------
(* The open files and the transfer queue.                                          *)

FileidGet(x) == Hold("file", Do("get", x))

(* file_release: metadata, file, and the file's mutex to close its descriptors. *)
FileRelease(x) ==
  Hold("metadata", Hold("file",
    Do("unuse", x)
      \o IF x = "f" THEN If("unused", x, Within(x) \o Do("destroy", x))
         ELSE IF x = "v" THEN << >>
         ELSE If("unused", x, Do("destroy", x))))

Backfile == Either(Within("f"), Do("use", "f") \o Ask("f", "backup"))

Writeback ==
  Maybe(Either(Within("metadata"),
               Hold("metadata", FileidGet("f")) \o Ask("f", "writeback")))

JournalAppend == Within("journal")
WasRenamed == Within("journal")
Find == Within("metadata")

------------------------------------------------------------------------------------
(* What a call of the kernel on a path does.                                       *)

Getattr == Find
Chmod == Find \o Maybe(JournalAppend)
MakeEntry(after) == Find \o Maybe(Find \o after)
Mknod == MakeEntry(JournalAppend)
Link == Find \o Maybe(MakeEntry(Find \o Find \o JournalAppend))
Unlink == Find \o Maybe(JournalAppend)

UpdateFhPath == If("live", "f", Within("f"))
Rename == Hold("metadata", Maybe(UpdateFhPath)) \o Maybe(JournalAppend)

(* truncate of a vops file waits for the users to leave, under the metadata lock. *)
TruncateVops == Hold("metadata", If("live", "v", Do("alone", "v")))
Truncate == Find \o Maybe(JournalAppend)

PathCalls ==
  [getattr |-> Getattr, chmod |-> Chmod, mknod |-> Mknod, link |-> Link,
   unlink |-> Unlink, rename |-> Rename, truncate |-> Truncate,
   truncate_vops |-> TruncateVops]

ASSUME CallsAssumption == Calls \subseteq DOMAIN PathCalls

------------------------------------------------------------------------------------
(* What a call on an open file does.                                               *)

TransferDump ==
  Hold("transfer", If("current", "backup", Within("f"))
                     \o If("current", "writeback", Within("f")))
VopsBuild ==
  Maybe(Either(Either(TransferDump, Within("journal")),
               Either(Within("metadata"), Within("file"))))

(* Mistake: the metadata lock is given back before the open file is looked up. *)
Bad_Open(x) ==
  Within("metadata") \o FileidGet(x) \o IF x = "f" THEN Maybe(Backfile) ELSE VopsBuild
Open(x) ==
  Hold("metadata", FileidGet(x)) \o IF x = "f" THEN Maybe(Backfile) ELSE VopsBuild

GetFd == Within("f")
PutFd == Within("f")
UpdateMetadata == Within("metadata")
Freshen == Within("file")

Read(x) ==
  Freshen \o IF x = "v" THEN << >>
             ELSE Within("f") \o GetFd
                    \o Either(Maybe(WasRenamed), PutFd \o Maybe(UpdateMetadata))
Write(x) ==
  Freshen \o IF x = "v" THEN Within("v")
             ELSE Maybe(GetFd \o PutFd \o Within("f") \o Maybe(JournalAppend) \o UpdateMetadata)

JournalApply == Hold("journal", Writeback)
MetadataFlush ==
  Within("file") \o Within("journal")
    \o Maybe(Hold("metadata", Within("file")) \o Within("metadata"))
CleanupBacking == Within("metadata")
ScheduleFill(x) == FileidGet(x) \o Ask(x, "fill")
MetadataFill == Hold("metadata", Maybe(ScheduleFill("d")))

Action == Either(Either(JournalApply, MetadataFlush), Either(CleanupBacking, MetadataFill))

Release(x) == Maybe(IF x = "v" THEN Action ELSE Within("f")) \o FileRelease(x)

------------------------------------------------------------------------------------
(* What the threads of the program do.                                             *)

Tick ==
  Hold("file", If("live", "f", Maybe(Within("f")))) \o Within("metadata")

TransferFile ==
  GetFd \o Either(Maybe(WasRenamed), GetFd \o Within("f") \o PutFd)
DoTransfer(x, t) ==
  IF t = "fill"
  THEN Within("metadata")
         \o Maybe(Hold("metadata", IF x = "d" THEN Maybe(ScheduleFill("e")) ELSE << >>))
  ELSE Maybe(Find \o Maybe(Within("f") \o Maybe(TransferFile \o Within("f"))
                             \o IF t = "writeback" THEN Within("journal") ELSE << >>))

(* Mistake: the file is released while the dump can still reach it. *)
Bad_TransferThread(x, t) ==
  Hold("transfer", << <<"take", x, t>> >> \o Within(x) \o << <<"publish", x, t>> >>)
    \o DoTransfer(x, t) \o FileRelease(x) \o Do("retract", t)
TransferThread(x, t) ==
  Hold("transfer", << <<"take", x, t>> >> \o Within(x) \o << <<"publish", x, t>> >>)
    \o DoTransfer(x, t) \o Do("retract", t) \o FileRelease(x)

------------------------------------------------------------------------------------
Init ==
  /\ todo = [t \in Threads |-> << >>]
  /\ holder = [m \in Mutexes |-> NONE]
  /\ live = {}
  /\ use = [x \in Files |-> 0]
  /\ queue = {}
  /\ current = {}
  /\ opened = [c \in Clients |-> "none"]
  /\ calls = [c \in Clients |-> 0]
  /\ ticks = 0

------------------------------------------------------------------------------------
(* Starting.                                                                       *)

Starts(t, s) == todo[t] = << >> /\ todo' = [todo EXCEPT ![t] = s]

Call(c) ==
  /\ calls[c] < MaxCalls
  /\ calls' = [calls EXCEPT ![c] = @ + 1]
  /\ opened[c] = "none"
  /\ \/ \E n \in Calls : Starts(c, PathCalls[n]) /\ UNCHANGED opened
     \/ \E x \in {"f", "v"} :
          Starts(c, Open(x)) /\ opened' = [opened EXCEPT ![c] = x]
  /\ UNCHANGED <<holder, live, use, queue, current, ticks>>

CallIo(c) ==
  /\ opened[c] # "none"
  /\ Starts(c, Read(opened[c])) \/ Starts(c, Write(opened[c]))
  /\ UNCHANGED <<holder, live, use, queue, current, opened, calls, ticks>>

CallRelease(c) ==
  /\ opened[c] # "none"
  /\ Starts(c, Release(opened[c]))
  /\ opened' = [opened EXCEPT ![c] = "none"]
  /\ UNCHANGED <<holder, live, use, queue, current, calls, ticks>>

(* The semaphore of the type counts the entries of the queue. *)
Wake(t) ==
  /\ \E x \in Files : <<x, t>> \in queue /\ Starts(t, TransferThread(x, t))
  /\ UNCHANGED <<holder, live, use, queue, current, opened, calls, ticks>>

StartTick ==
  /\ ticks < MaxTicks
  /\ ticks' = ticks + 1
  /\ Starts("ticker", Tick)
  /\ UNCHANGED <<holder, live, use, queue, current, opened, calls>>

------------------------------------------------------------------------------------
(* Steps.                                                                          *)

Busy(t) == todo[t] # << >>
Next1(t) == Head(todo[t])
Op(t) == Next1(t)[1]
Arg(t) == Next1(t)[2]

Users(x) == {c \in Clients : opened[c] = x}

(* The mutex a thread needs for its next step, if any. *)
Needs(t) ==
  IF ~Busy(t) THEN {}
  ELSE IF Op(t) \in {"lock", "within", "use", "alone"} THEN {Arg(t)}
  ELSE IF Op(t) = "get" THEN {Arg(t)} \cap live
  ELSE IF Op(t) \in {"ask", "retract"} THEN {"transfer"}
  ELSE {}

Ready(t, op) == Busy(t) /\ Op(t) = op /\ \A m \in Needs(t) : holder[m] = NONE
(* The thread goes on with s, then with the rest of its list.  A mutex is given
   back in the step before: that never waits. *)
Unlocks(s) == {i \in DOMAIN s : \A j \in 1..i : s[j][1] = "unlock"}
GoesHolding(t, s, h) ==
  LET rest == s \o Tail(todo[t])
      n == Cardinality(Unlocks(rest))
      free == {rest[i][2] : i \in 1..n}
  IN /\ todo' = [todo EXCEPT ![t] = SubSeq(rest, n + 1, Len(rest))]
     /\ holder' = [m \in Mutexes |-> IF m \in free THEN NONE ELSE h[m]]
Goes(t, s) == GoesHolding(t, s, holder)

Acquire(t) ==
  /\ Ready(t, "lock")
  /\ GoesHolding(t, << >>, [holder EXCEPT ![Arg(t)] = t])
  /\ UNCHANGED <<live, use, queue, current>>

Section(t) ==
  /\ Ready(t, "within")
  /\ Goes(t, << >>)
  /\ UNCHANGED <<live, use, queue, current>>

Branch(t) ==
  /\ \/ Ready(t, "either") /\ (Goes(t, Next1(t)[2]) \/ Goes(t, Next1(t)[3]))
     \/ /\ Ready(t, "if")
        /\ LET x == Next1(t)[3]
           IN Goes(t, IF CASE Arg(t) = "live" -> x \in live
                           [] Arg(t) = "unused" -> use[x] = 0
                           [] Arg(t) = "current" -> \E y \in Files : <<y, x>> \in current
                      THEN Next1(t)[4] ELSE << >>)
  /\ UNCHANGED <<live, use, queue, current>>

(* fileid_get, and the use taken by backfile. *)
Get(t) ==
  /\ Ready(t, "get") \/ Ready(t, "use")
  /\ live' = live \cup {Arg(t)}
  /\ use' = [use EXCEPT ![Arg(t)] = @ + 1]
  /\ Goes(t, << >>)
  /\ UNCHANGED <<queue, current>>

Unuse(t) ==
  /\ Ready(t, "unuse")
  /\ use' = [use EXCEPT ![Arg(t)] = @ - 1]
  /\ Goes(t, << >>)
  /\ UNCHANGED <<live, queue, current>>

Destroy(t) ==
  /\ Ready(t, "destroy")
  /\ live' = live \ {Arg(t)}
  /\ Goes(t, << >>)
  /\ UNCHANGED <<use, queue, current>>

(* Mistake: an off by one, the caller's handle is taken for another user's. *)
Bad_MayTruncate(x) == use[x] = 0
(* The loop that waits is left when the other users have gone. *)
MayTruncate(x) == use[x] <= 1
Alone(t) ==
  /\ Ready(t, "alone")
  /\ MayTruncate(Arg(t))
  /\ Goes(t, << >>)
  /\ UNCHANGED <<live, use, queue, current>>

(* queue_file refuses a file that is already in the queue, whatever its type. *)
QueueFile(t) ==
  /\ Ready(t, "ask")
  /\ queue' = IF \E u \in Transfers : <<Arg(t), u>> \in queue THEN queue
              ELSE queue \cup {<<Arg(t), Next1(t)[3]>>}
  /\ Goes(t, << >>)
  /\ UNCHANGED <<live, use, current>>

(* The file a transfer thread works on, for the dump of the transfers. *)
Publish(t) ==
  /\ \/ Ready(t, "take") /\ queue' = queue \ {Tail(Next1(t))} /\ UNCHANGED current
     \/ Ready(t, "publish") /\ current' = current \cup {Tail(Next1(t))} /\ UNCHANGED queue
     \/ Ready(t, "retract") /\ current' = {e \in current : e[2] # t} /\ UNCHANGED queue
  /\ Goes(t, << >>)
  /\ UNCHANGED <<live, use>>

Step(t) ==
  /\ \/ Acquire(t) \/ Section(t) \/ Branch(t) \/ Get(t) \/ Unuse(t)
     \/ Destroy(t) \/ Alone(t) \/ QueueFile(t) \/ Publish(t)
  /\ UNCHANGED <<opened, calls, ticks>>

Finished ==
  /\ \A t \in Threads : ~Busy(t)
  /\ \A c \in Clients : opened[c] = "none" /\ calls[c] = MaxCalls
  /\ ticks = MaxTicks /\ queue = {}
  /\ UNCHANGED vars

Next ==
  \/ \E t \in Threads : Step(t)
  \/ \E c \in Clients : Call(c) \/ CallIo(c) \/ CallRelease(c)
  \/ \E t \in Transfers : Wake(t)
  \/ StartTick
  \/ Finished

Spec == Init /\ [][Next]_vars

------------------------------------------------------------------------------------
TypeOK ==
  /\ holder \in [Mutexes -> Threads \cup {NONE}]
  /\ live \subseteq Files
  /\ use \in [Files -> Nat]
  /\ queue \subseteq Files \X Transfers
  /\ current \subseteq Files \X Transfers
  /\ opened \in [Clients -> {"none", "f", "v"}]
  /\ calls \in [Clients -> 0..MaxCalls]
  /\ ticks \in 0..MaxTicks

(* t waits for u: for a mutex u holds; or for u to close the vops file t truncates,
   which u cannot do without the metadata lock. *)
WaitsFor(t, u) ==
  \/ \E m \in Needs(t) : holder[m] = u
  \/ Busy(t) /\ Op(t) = "alone" /\ ~MayTruncate(Arg(t)) /\ u \in Users(Arg(t))
  \/ t \in Users("v") /\ Busy(u) /\ Op(u) = "alone" /\ holder["metadata"] = u

(* No threads wait for each other in a circle: the four global locks are plain
   mutexes, taken in up to four levels by the calls and by the four kinds of
   threads, and a truncate waits for other calls with a lock held. *)
NoCircularWait ==
  LET waiting == {t \in Threads : \E u \in Threads : WaitsFor(t, u)}
  IN ~ \E S \in SUBSET waiting : S # {} /\ \A t \in S : \E u \in S : WaitsFor(t, u)

(* A file's mutex is destroyed, and its structure recycled, only when no thread
   is going to lock it: not a rename that found it by its metadata, not the dump
   that found it by a transfer thread, not the file thread. *)
MutexesOutliveTheirUsers ==
  \A t \in Threads : \A m \in Needs(t) : m \in Files => m \in live

(* What the debug build asserts (check_locked, check_unlocked): the metadata lock
   is not asked for with the file lock held, and open files are created and
   removed with both. *)
AsAsserted ==
  \A t \in Threads : Busy(t) =>
    /\ Needs(t) = {"metadata"} => holder["file"] # t
    /\ Op(t) \in {"get", "destroy"} => holder["metadata"] = t /\ holder["file"] = t

================================================================================
