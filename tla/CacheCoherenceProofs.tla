------------------------- MODULE CacheCoherenceProofs --------------------------
(***************************************************************************)
(* Proofs about CacheCoherence, for any clients, any inodes, any length of *)
(* the file and any bounds.                                                *)
(***************************************************************************)
EXTENDS CacheCoherence, FiniteSetTheorems, TLAPS

Versions == 0..MaxWrites \cup {Hole}
MaybeInodes == Inodes \cup {NULL}

ThreadLabels == {"idle", "do_transfer", "create", "getfd", "getfd_waited", "copy", "copy_write",
                 "publish", "succeeded", "failed", "unlink", "release"}
ClientLabels == {"idle", "backfile", "choose", "read_getfd", "pread", "pread_real", "return",
                 "write_wait", "write_getfd", "write_getfd_waited", "pwrite", "dirty", "append",
                 "update_metadata"}

(* A transfer with its descriptors; a client whose call has no block *)
Copying == {"copy", "copy_write", "publish"}
Blockless == {"idle", "backfile", "return"}

-----------------------------------------------------------------------------
(* Types, with where each thread must be to use what it holds *)

FileTypes ==
  /\ cachefile \in MaybeInodes /\ bfd \in MaybeInodes
  /\ size \in 0..NBlocks /\ total \in 0..NBlocks /\ transfered \in 0..NBlocks
  /\ cache_status \in {"none", "asked", "in_progress", "done", "error"}
  /\ dirty \in BOOLEAN /\ buse \in Nat /\ bwr \in {0, 1}
  /\ queued \in Types \cup {"none"}

DataTypes ==
  /\ real \in Contents /\ inode \in [Inodes -> Contents] /\ latest \in Contents
  /\ entry \in Contents /\ applying \in Contents
  /\ window \in [Types -> Versions]
  /\ got \in [Clients -> Versions] /\ fresh \in [Clients -> SUBSET Versions]
  /\ writes \in Nat

ThreadTypes ==
  /\ tpc \in [Types -> ThreadLabels] /\ tfd \in [Types -> MaybeInodes]
  /\ toff \in [Types -> 0..NBlocks] /\ tsize \in [Types -> 0..NBlocks]
  /\ \A t \in Types : /\ toff[t] <= tsize[t]
                      /\ tpc[t] \in Copying => tfd[t] # NULL
                      /\ tpc[t] = "copy_write" => toff[t] < tsize[t]
                      /\ tpc[t] = "create" => t = BACKUP

ClientTypes ==
  /\ cpc \in [Clients -> ClientLabels] /\ handle \in [Clients -> BOOLEAN]
  /\ blk \in [Clients -> Nat] /\ cfd \in [Clients -> MaybeInodes]
  /\ \A c \in Clients : /\ cpc[c] \in {"pread", "pwrite"} => cfd[c] # NULL
                        /\ cpc[c] \notin Blockless => blk[c] \in Blocks

(* The writes made and those begun are within the bound. *)
Writers == {c \in Clients : cpc[c] \in Writing}
WritesBounded == writes + Cardinality(Writers) <= MaxWrites

Typing == FileTypes /\ DataTypes /\ ThreadTypes /\ ClientTypes /\ WritesBounded

-----------------------------------------------------------------------------
(* Sizes and counts *)

LEMMA SizeOfType ==
  ASSUME NEW contents
  PROVE  SizeOf(contents) \in Nat
<1>1. IsFiniteSet(Blocks)
  BY BlocksAssumption, FS_Interval DEF Blocks
<1> QED BY <1>1, FS_Subset, FS_CardinalityType DEF SizeOf

LEMMA SmallerType ==
  ASSUME NEW a \in 0..NBlocks, NEW b \in Nat
  PROVE  Smaller(a, b) \in 0..NBlocks /\ Smaller(a, b) <= a /\ Smaller(a, b) <= b
BY BlocksAssumption DEF Smaller

LEMMA WritersFinite == IsFiniteSet(Writers) /\ Cardinality(Writers) \in Nat
BY ClientsAssumption, FS_Subset, FS_CardinalityType DEF Writers

(* No client begins to write. *)
LEMMA WritersStay ==
  ASSUME \A c \in Clients : cpc'[c] \in Writing => cpc[c] \in Writing
  PROVE  Cardinality(Writers') \in Nat /\ Cardinality(Writers') <= Cardinality(Writers)
<1>1. Writers' \subseteq Writers
  BY DEF Writers
<1> HIDE DEF Writers
<1> QED BY <1>1, WritersFinite, FS_Subset, FS_CardinalityType

(* One client begins to write. *)
LEMMA WritersGrow ==
  ASSUME NEW c \in Clients, \A d \in Clients \ {c} : cpc'[d] = cpc[d]
  PROVE  Cardinality(Writers') \in Nat /\ Cardinality(Writers') <= Cardinality(Writers) + 1
<1>1. Writers' \subseteq Writers \cup {c}
  BY DEF Writers
<1>2. /\ IsFiniteSet(Writers \cup {c})
      /\ Cardinality(Writers \cup {c}) <= Cardinality(Writers) + 1
  <2>1. IsFiniteSet(Writers \cup {c}) /\ Cardinality(Writers) \in Nat
    BY WritersFinite, FS_AddElement, FS_CardinalityType
  <2>2. Cardinality(Writers \cup {c}) \in {Cardinality(Writers), Cardinality(Writers) + 1}
    BY WritersFinite, FS_AddElement
  <2> QED BY <2>1, <2>2
<1>3. /\ IsFiniteSet(Writers')
      /\ Cardinality(Writers') <= Cardinality(Writers \cup {c})
  BY <1>1, <1>2, FS_Subset
<1>4. Cardinality(Writers') \in Nat /\ Cardinality(Writers \cup {c}) \in Nat /\ Cardinality(Writers) \in Nat
  BY <1>2, <1>3, WritersFinite, FS_CardinalityType
<1> QED BY <1>2, <1>3, <1>4

(* One client's write is made. *)
LEMMA WritersLeave ==
  ASSUME NEW c \in Clients, cpc[c] \in Writing, cpc'[c] \notin Writing,
         \A d \in Clients \ {c} : cpc'[d] = cpc[d]
  PROVE  Cardinality(Writers') \in Nat /\ Cardinality(Writers') = Cardinality(Writers) - 1
<1>1. Writers' = Writers \ {c} /\ c \in Writers
  BY DEF Writers
<1>2. IsFiniteSet(Writers \ {c}) /\ Cardinality(Writers \ {c}) = Cardinality(Writers) - 1
  BY <1>1, WritersFinite, FS_RemoveElement
<1> QED BY <1>1, <1>2, FS_CardinalityType

-----------------------------------------------------------------------------
(* Types: each step keeps them. *)

LEMMA InitialTypes == Initial \in Contents /\ Empty \in Contents /\ NoEntry \in Contents
BY BoundsAssumption DEF Initial, Empty, NoEntry, Contents

LEMMA TypingInit == Init => Typing
<1> SUFFICES ASSUME Init PROVE Typing
  OBVIOUS
<1>1. FileTypes
  <2>1. dirty \in BOOLEAN
    BY Zenon DEF Init
  <2>2. /\ cachefile = NULL /\ bfd = NULL /\ size = Size0 /\ total = 0 /\ transfered = 0
        /\ cache_status = "none" /\ buse = 0 /\ bwr = 0 /\ queued = "none"
    BY DEF Init
  <2> QED BY <2>1, <2>2, BlocksAssumption DEF FileTypes, MaybeInodes
<1>2. DataTypes
  BY InitialTypes DEF Init, DataTypes, Versions
<1>3. ThreadTypes
  BY BlocksAssumption DEF Init, ThreadTypes, ThreadLabels, MaybeInodes, Copying
<1>4. ClientTypes
  BY DEF Init, ClientTypes, ClientLabels, MaybeInodes, Blockless
<1>5. WritesBounded
  <2>1. Cardinality(Writers) = 0
    <3>1. Writers = {}
      BY DEF Init, Writers, Writing
    <3> QED BY <3>1, FS_EmptySet
  <2>2. writes = 0 /\ MaxWrites \in Nat
    BY BoundsAssumption DEF Init
  <2> QED BY <2>1, <2>2 DEF WritesBounded
<1> QED BY <1>1, <1>2, <1>3, <1>4, <1>5 DEF Typing

LEMMA GetfdTypes ==
  ASSUME FileTypes, NEW asked_wr \in {0, 1}, NEW waited, NEW i, Getfd(asked_wr, waited, i)
  PROVE  bfd' \in MaybeInodes /\ buse' \in Nat /\ bwr' \in {0, 1} /\ i \in MaybeInodes
BY DEF FileTypes, Getfd

LEMMA PutfdTypes ==
  ASSUME FileTypes, Putfd
  PROVE  bfd' \in MaybeInodes /\ buse' \in Nat /\ bwr' \in {0, 1}
BY DEF FileTypes, Putfd

LEMMA ReleaseFileTypes ==
  ASSUME FileTypes, NEW last, ReleaseFile(last), UNCHANGED <<cachefile, size, queued>>
  PROVE  FileTypes'
<1>1. CASE last
  <2>1. dirty' \in BOOLEAN
    BY <1>1, Zenon DEF ReleaseFile
  <2>2. /\ bfd' = NULL /\ total' = 0 /\ transfered' = 0
        /\ cache_status' = "none" /\ buse' = 0 /\ bwr' = 0
    BY <1>1 DEF ReleaseFile
  <2> QED BY <2>1, <2>2, BlocksAssumption DEF FileTypes, MaybeInodes
<1>2. CASE ~last
  BY <1>2 DEF FileTypes, ReleaseFile, mfile, source
<1> QED BY <1>1, <1>2

LEMMA FileTypesStep == ASSUME Typing, Next PROVE FileTypes'
<1>0. FileTypes /\ ThreadTypes /\ ClientTypes
  BY DEF Typing
<1>1. ASSUME NEW c \in Clients, ClientStep(c) PROVE FileTypes'
  <2>1. CASE Backfile(c)
    BY <1>0, <2>1 DEF FileTypes, Backfile, files, source, Types
  <2>2. CASE ReadWaitAccessible(c) \/ Return(c) \/ WriteWait(c) \/ AppendFsync(c)
    BY <1>0, <2>2 DEF FileTypes, ReadWaitAccessible, Return, WriteWait, AppendFsync,
      files, mfile, source
  <2>3. CASE ReadGetfd(c)
    <3>1. UNCHANGED <<files, mfile, queued>> /\ \E i : Getfd(0, FALSE, i)
      BY <2>3 DEF ReadGetfd
    <3> QED BY <1>0, <3>1, GetfdTypes DEF FileTypes, files, mfile
  <2>4. CASE Pread(c)
    <3>1. UNCHANGED <<files, mfile, queued>> /\ (Putfd \/ UNCHANGED source)
      BY <2>4 DEF Pread
    <3> QED BY <1>0, <3>1, PutfdTypes DEF FileTypes, files, mfile, source
  <2>5. CASE WriteGetfd(c)
    <3>1. /\ UNCHANGED <<files, mfile, queued>>
          /\ \/ UNCHANGED source
             \/ \E i : Getfd(1, cpc[c] = "write_getfd_waited", i)
             \/ bfd' = NULL /\ bwr' = bwr /\ buse' = (IF buse = 0 THEN 0 ELSE buse - 1)
      BY <2>5 DEF WriteGetfd
    <3> QED BY <1>0, <3>1, GetfdTypes DEF FileTypes, MaybeInodes, files, mfile, source
  <2>6. CASE Pwrite(c)
    <3>1. UNCHANGED <<cachefile, size, mfile, queued>> /\ Putfd
      BY <2>6 DEF Pwrite
    <3> QED BY <1>0, <3>1, PutfdTypes DEF FileTypes, mfile
  <2>7. CASE MarkDirty(c)
    BY <1>0, <2>7 DEF FileTypes, MarkDirty, files, source
  <2>8. CASE UpdateMetadata(c)
    <3>1. blk[c] \in Blocks
      BY <1>0, <2>8 DEF UpdateMetadata, ClientTypes, Blockless
    <3> QED BY <1>0, <2>8, <3>1 DEF FileTypes, UpdateMetadata, Blocks, mfile, source
  <2> QED BY <1>1, <2>1, <2>2, <2>3, <2>4, <2>5, <2>6, <2>7, <2>8 DEF ClientStep
<1>2. ASSUME NEW c \in Clients, ClientCall(c) PROVE FileTypes'
  <2>1. CASE Release(c)
    <3>1. UNCHANGED <<cachefile, size, queued>> /\ \E last : ReleaseFile(last)
      BY <2>1 DEF Release, files
    <3> QED BY <1>0, <3>1, ReleaseFileTypes
  <2>2. CASE ~Release(c)
    <3>1. UNCHANGED <<files, mfile, source, queued>>
      BY <1>2, <2>2, Zenon DEF ClientCall, Open, Read, Write
    <3> QED BY <1>0, <3>1 DEF FileTypes, files, mfile, source
  <2> QED BY <2>1, <2>2
<1>3. ASSUME NEW t \in Types, ThreadStep(t) PROVE FileTypes'
  <2>1. CASE Dequeue(t) \/ DoTransfer(t)
    BY <1>0, <2>1, BlocksAssumption DEF FileTypes, Dequeue, DoTransfer, files, source
  <2>2. CASE TransferGetfd(t)
    <3>1. /\ UNCHANGED <<files, mfile, queued>>
          /\ UNCHANGED source \/ \E i : Getfd(AskedWr(t), tpc[t] = "getfd_waited", i)
      BY <2>2 DEF TransferGetfd
    <3> QED BY <1>0, <3>1, GetfdTypes DEF FileTypes, AskedWr, files, mfile, source
  <2>3. CASE CopyRead(t) \/ CopyWrite(t)
    BY <1>0, <2>3 DEF FileTypes, CopyRead, CopyWrite, files, mfile, source
  <2>4. CASE Publish(t)
    BY <1>0, <2>4 DEF FileTypes, Publish, ThreadTypes, files, source
  <2>5. CASE CopyEnds(t)
    <3>1. UNCHANGED <<files, mfile, queued>> /\ Putfd
      BY <2>5 DEF CopyEnds
    <3> QED BY <1>0, <3>1, PutfdTypes DEF FileTypes, files, mfile
  <2>6. CASE TransferEnds(t)
    BY <1>0, <2>6, BlocksAssumption DEF FileTypes, TransferEnds, files, source
  <2>7. CASE ReleaseTransfer(t)
    <3>1. UNCHANGED <<cachefile, size, queued>> /\ \E last : ReleaseFile(last)
      BY <2>7 DEF ReleaseTransfer, files
    <3> QED BY <1>0, <3>1, ReleaseFileTypes
  <2> QED BY <1>3, <2>1, <2>2, <2>3, <2>4, <2>5, <2>6, <2>7 DEF ThreadStep
<1>4. ASSUME CreateBacking \/ UnlinkBacking \/ Apply \/ CleanupFile \/ CleanupBacking
      PROVE  FileTypes'
  BY <1>0, <1>4 DEF FileTypes, MaybeInodes, Types, CreateBacking, UnlinkBacking, Apply, CleanupFile,
    CleanupBacking, files, mfile, source
<1> QED BY <1>1, <1>2, <1>3, <1>4 DEF Next

LEMMA ThreadTypesStep == ASSUME Typing, Next PROVE ThreadTypes'
<1>0. FileTypes /\ ThreadTypes
  BY DEF Typing
<1>1. ASSUME UNCHANGED thread PROVE ThreadTypes'
  BY <1>0, <1>1 DEF ThreadTypes, thread
<1>2. ASSUME NEW t \in Types, ThreadStep(t) PROVE ThreadTypes'
  <2>1. CASE Dequeue(t) \/ DoTransfer(t) \/ Publish(t) \/ TransferEnds(t)
    BY <1>0, <2>1 DEF ThreadTypes, ThreadLabels, Copying, Types, Dequeue, DoTransfer, Publish,
      TransferEnds, TGoto
  <2>2. CASE TransferGetfd(t)
    <3>1. CASE TGoto(t, "getfd_waited") /\ UNCHANGED <<tfd, toff, tsize>>
      BY <1>0, <2>2, <3>1 DEF ThreadTypes, ThreadLabels, Copying, TGoto
    <3>2. CASE ~(TGoto(t, "getfd_waited") /\ UNCHANGED <<tfd, toff, tsize>>)
      <4>1. PICK i \in MaybeInodes :
              /\ tfd' = [tfd EXCEPT ![t] = i] /\ toff' = [toff EXCEPT ![t] = 0]
              /\ tsize' = [tsize EXCEPT ![t] =
                   IF i = NULL THEN 0
                   ELSE Smaller(total, SizeOf(IF t = BACKUP THEN real ELSE inode[i]))]
              /\ tpc' = [tpc EXCEPT ![t] = IF i = NULL THEN "failed" ELSE "copy"]
        BY <2>2, <3>2 DEF TransferGetfd, MaybeInodes, TGoto
      <4>2. tsize' \in [Types -> 0..NBlocks]
        <5>1. \A contents : Smaller(total, SizeOf(contents)) \in 0..NBlocks
          BY <1>0, SizeOfType, SmallerType DEF FileTypes
        <5> DEFINE s == Smaller(total, SizeOf(IF t = BACKUP THEN real ELSE inode[i]))
                   n == IF i = NULL THEN 0 ELSE s
        <5>2. s \in 0..NBlocks
          BY <5>1
        <5> HIDE DEF s
        <5>3. n \in 0..NBlocks
          BY <5>2, BlocksAssumption
        <5>4. tsize' = [tsize EXCEPT ![t] = n]
          BY <4>1 DEF s
        <5> HIDE DEF n
        <5> QED BY <1>0, <5>3, <5>4 DEF ThreadTypes
      <4>3. tpc' \in [Types -> ThreadLabels] /\ tfd' \in [Types -> MaybeInodes]
        BY <1>0, <4>1 DEF ThreadTypes, ThreadLabels
      <4>4. toff' \in [Types -> 0..NBlocks] /\ \A u \in Types : toff'[u] <= tsize'[u]
        BY <1>0, <4>1, <4>2, BlocksAssumption DEF ThreadTypes
      <4>5. \A u \in Types : /\ tpc'[u] \in Copying => tfd'[u] # NULL
                             /\ tpc'[u] = "copy_write" => toff'[u] < tsize'[u]
                             /\ tpc'[u] = "create" => u = BACKUP
        BY <1>0, <4>1 DEF ThreadTypes, Copying
      <4> QED BY <4>2, <4>3, <4>4, <4>5 DEF ThreadTypes
    <3> QED BY <3>1, <3>2
  <2>3. CASE CopyRead(t)
    BY <1>0, <2>3 DEF ThreadTypes, ThreadLabels, Copying, CopyRead, TGoto
  <2>4. CASE CopyWrite(t)
    BY <1>0, <2>4, BlocksAssumption DEF ThreadTypes, ThreadLabels, Copying, CopyWrite, TGoto
  <2>5. CASE CopyEnds(t)
    BY <1>0, <2>5 DEF ThreadTypes, ThreadLabels, Copying, CopyEnds, TGoto, MaybeInodes
  <2>6. CASE ReleaseTransfer(t)
    BY <1>0, <2>6, BlocksAssumption DEF ThreadTypes, ThreadLabels, Copying, ReleaseTransfer, TGoto
  <2> QED BY <1>2, <2>1, <2>2, <2>3, <2>4, <2>5, <2>6 DEF ThreadStep
<1>3. ASSUME CreateBacking \/ UnlinkBacking PROVE ThreadTypes'
  BY <1>0, <1>3 DEF ThreadTypes, ThreadLabels, Copying, Types, CreateBacking, UnlinkBacking, TGoto
<1>4. ASSUME NEW c \in Clients, ClientStep(c) \/ ClientCall(c) PROVE UNCHANGED thread
  BY <1>4, Zenon DEF ClientStep, ClientCall, Backfile, ReadWaitAccessible, ReadGetfd, Pread, Return,
    WriteWait, WriteGetfd, Pwrite, MarkDirty, AppendFsync, UpdateMetadata, Open, Release, Read, Write
<1>5. ASSUME Apply \/ CleanupFile \/ CleanupBacking PROVE UNCHANGED thread
  BY <1>5, Zenon DEF Apply, CleanupFile, CleanupBacking
<1> QED BY <1>1, <1>2, <1>3, <1>4, <1>5 DEF Next

LEMMA ClientTypesStep == ASSUME Typing, Next PROVE ClientTypes'
<1>0. FileTypes /\ ClientTypes
  BY DEF Typing
<1>1. ASSUME UNCHANGED <<cpc, handle, blk, cfd>> PROVE ClientTypes'
  BY <1>0, <1>1 DEF ClientTypes
<1>2. ASSUME NEW c \in Clients, ClientStep(c) PROVE ClientTypes'
  <2>1. CASE ReadGetfd(c)
    BY <1>0, <2>1 DEF ClientTypes, ClientLabels, Blockless, MaybeInodes, ReadGetfd, Goto
  <2>2. CASE WriteGetfd(c)
    BY <1>0, <2>2, InodesAssumption DEF ClientTypes, ClientLabels, Blockless, MaybeInodes, WriteGetfd, Goto
  <2>3. CASE Pread(c) \/ Pwrite(c)
    BY <1>0, <2>3 DEF ClientTypes, ClientLabels, Blockless, MaybeInodes, Pread, Pwrite, Goto
  <2>4. CASE Backfile(c) \/ ReadWaitAccessible(c) \/ Return(c) \/ WriteWait(c)
             \/ MarkDirty(c) \/ AppendFsync(c) \/ UpdateMetadata(c)
    <3>1. /\ UNCHANGED <<handle, blk, cfd>>
          /\ \E l \in ClientLabels \ {"pread", "pwrite"} :
               cpc' = [cpc EXCEPT ![c] = l] /\ (cpc[c] \in Blockless => l \in Blockless)
      BY <2>4 DEF Backfile, ReadWaitAccessible, Return, WriteWait, MarkDirty, AppendFsync,
        UpdateMetadata, Goto, ClientLabels, Blockless
    <3> QED BY <1>0, <3>1 DEF ClientTypes
  <2> QED BY <1>2, <2>1, <2>2, <2>3, <2>4 DEF ClientStep
<1>3. ASSUME NEW c \in Clients, ClientCall(c) PROVE ClientTypes'
  <2>1. CASE Open(c) \/ Release(c)
    BY <1>0, <2>1 DEF ClientTypes, ClientLabels, Blockless, Open, Release, Goto
  <2>2. ASSUME NEW b \in Blocks, Read(c, b) \/ Write(c, b) PROVE ClientTypes'
    BY <1>0, <2>2 DEF ClientTypes, ClientLabels, Blockless, Blocks, Read, Write, Goto
  <2> QED BY <1>3, <2>1, <2>2 DEF ClientCall
<1>4. ASSUME NEW t \in Types, ThreadStep(t) PROVE UNCHANGED <<cpc, handle, blk, cfd>>
  BY <1>4, Zenon DEF ThreadStep, Dequeue, DoTransfer, TransferGetfd, CopyRead, CopyWrite, Publish,
    CopyEnds, TransferEnds, ReleaseTransfer, client
<1>5. ASSUME CreateBacking \/ UnlinkBacking \/ Apply \/ CleanupFile \/ CleanupBacking
      PROVE  UNCHANGED <<cpc, handle, blk, cfd>>
  BY <1>5, Zenon DEF CreateBacking, UnlinkBacking, Apply, CleanupFile, CleanupBacking, client
<1> QED BY <1>1, <1>2, <1>3, <1>4, <1>5 DEF Next

LEMMA WritesBoundedStep == ASSUME Typing, Next PROVE WritesBounded' /\ writes' \in 0..MaxWrites
<1>0. ClientTypes /\ WritesBounded /\ writes \in Nat /\ MaxWrites \in Nat
  BY BoundsAssumption DEF Typing, DataTypes
<1>1. ASSUME UNCHANGED writes, \A c \in Clients : cpc'[c] \in Writing => cpc[c] \in Writing
      PROVE  WritesBounded' /\ writes' \in 0..MaxWrites
  BY <1>0, <1>1, WritersStay, WritersFinite DEF WritesBounded
<1>2. ASSUME NEW c \in Clients, ClientStep(c) PROVE WritesBounded' /\ writes' \in 0..MaxWrites
  <2>1. CASE Pwrite(c)
    <3>1. /\ cpc[c] \in Writing /\ cpc'[c] \notin Writing /\ writes' = writes + 1
          /\ \A d \in Clients \ {c} : cpc'[d] = cpc[d]
      BY <1>0, <2>1 DEF Pwrite, Writing, Goto, ClientTypes
    <3> QED BY <1>0, <3>1, WritersLeave, WritersFinite DEF WritesBounded
  <2>2. CASE ~Pwrite(c)
    <3> DEFINE Stays == /\ UNCHANGED writes
                        /\ \A d \in Clients \ {c} : cpc'[d] = cpc[d]
                        /\ cpc'[c] \in Writing => cpc[c] \in Writing
    <3>0. cpc \in [Clients -> ClientLabels]
      BY <1>0 DEF ClientTypes
    <3>1. ASSUME Backfile(c) PROVE Stays
      BY <3>0, <3>1 DEF Backfile, Goto, Writing, history
    <3>2. ASSUME ReadWaitAccessible(c) PROVE Stays
      BY <3>0, <3>2 DEF ReadWaitAccessible, Goto, Writing, history
    <3>3. ASSUME ReadGetfd(c) PROVE Stays
      BY <3>0, <3>3 DEF ReadGetfd, Goto, Writing, history
    <3>4. ASSUME Pread(c) \/ Return(c) PROVE Stays
      BY <3>0, <3>4 DEF Pread, Return, Goto, Writing, history
    <3>5. ASSUME WriteWait(c) \/ WriteGetfd(c) PROVE Stays
      BY <3>0, <3>5 DEF WriteWait, WriteGetfd, Goto, Writing, history
    <3>6. ASSUME MarkDirty(c) \/ AppendFsync(c) \/ UpdateMetadata(c) PROVE Stays
      BY <3>0, <3>6 DEF MarkDirty, AppendFsync, UpdateMetadata, Goto, Writing, history
    <3>7. Stays
      BY <1>2, <2>2, <3>1, <3>2, <3>3, <3>4, <3>5, <3>6 DEF ClientStep
    <3> QED BY <1>0, <1>1, <3>7
  <2> QED BY <2>1, <2>2
<1>3. ASSUME NEW c \in Clients, ClientCall(c) PROVE WritesBounded' /\ writes' \in 0..MaxWrites
  <2>1. CASE Open(c) \/ Release(c) \/ \E b \in Blocks : Read(c, b)
    <3> DEFINE Stays == UNCHANGED writes /\ \A d \in Clients : cpc'[d] \in Writing => cpc[d] \in Writing
    <3>0. cpc \in [Clients -> ClientLabels]
      BY <1>0 DEF ClientTypes
    <3>1. ASSUME Open(c) PROVE Stays
      BY <3>0, <3>1 DEF Open, Goto, Writing, history
    <3>2. ASSUME Release(c) PROVE Stays
      BY <3>2 DEF Release, history
    <3>3. ASSUME NEW b \in Blocks, Read(c, b) PROVE Stays
      BY <3>0, <3>3 DEF Read, Goto, Writing, history
    <3> QED BY <1>1, <2>1, <3>1, <3>2, <3>3
  <2>2. ASSUME NEW b \in Blocks, Write(c, b) PROVE WritesBounded' /\ writes' \in 0..MaxWrites
    <3>1. UNCHANGED writes /\ \A d \in Clients \ {c} : cpc'[d] = cpc[d]
      BY <1>0, <2>2 DEF Write, Goto, history, ClientTypes
    <3>2. writes + Cardinality(Writers) < MaxWrites
      BY <2>2 DEF Write, Writers
    <3> QED BY <1>0, <3>1, <3>2, WritersGrow, WritersFinite DEF WritesBounded
  <2> QED BY <1>3, <2>1, <2>2 DEF ClientCall
<1>4. ASSUME NEW t \in Types, ThreadStep(t) PROVE UNCHANGED <<cpc, writes>>
  BY <1>4, Zenon DEF ThreadStep, Dequeue, DoTransfer, TransferGetfd, CopyRead, CopyWrite, Publish,
    CopyEnds, TransferEnds, ReleaseTransfer, client, history
<1>5. ASSUME CreateBacking \/ UnlinkBacking \/ Apply \/ CleanupFile \/ CleanupBacking
      PROVE  UNCHANGED <<cpc, writes>>
  BY <1>5, Zenon DEF CreateBacking, UnlinkBacking, Apply, CleanupFile, CleanupBacking, client, history
<1> QED BY <1>1, <1>2, <1>3, <1>4, <1>5 DEF Next

LEMMA DataTypesStep == ASSUME Typing, Next PROVE DataTypes'
<1>0. /\ FileTypes /\ DataTypes /\ ThreadTypes /\ ClientTypes
      /\ MaxWrites \in Nat
  BY BoundsAssumption DEF Typing
<1>1. ASSUME NEW c \in Clients, ClientStep(c) PROVE DataTypes'
  <2>1. CASE Pwrite(c)
    <3>1. writes + 1 \in Versions /\ writes' \in Nat /\ writes' = writes + 1
      BY <1>0, <2>1, WritesBoundedStep DEF Pwrite, Versions
    <3>2. cfd[c] \in Inodes /\ blk[c] \in Blocks
      BY <1>0, <2>1 DEF Pwrite, ClientTypes, Blockless, MaybeInodes
    <3>3. inode' \in [Inodes -> Contents] /\ latest' \in Contents
      BY <1>0, <2>1, <3>1, <3>2 DEF Pwrite, DataTypes, Contents, Versions
    <3>4. fresh' \in [Clients -> SUBSET Versions]
      BY <1>0, <2>1, <3>1 DEF Pwrite, DataTypes
    <3>5. UNCHANGED <<real, entry, applying, window, got>>
      BY <2>1 DEF Pwrite, journal, thread
    <3> QED BY <1>0, <3>1, <3>3, <3>4, <3>5 DEF DataTypes
  <2>2. CASE Pread(c)
    <3>1. blk[c] \in Blocks /\ (cpc[c] = "pread" => cfd[c] \in Inodes)
      BY <1>0, <2>2 DEF Pread, ClientTypes, Blockless, MaybeInodes
    <3>2. real[blk[c]] \in Versions /\ (cpc[c] = "pread" => inode[cfd[c]][blk[c]] \in Versions)
      BY <1>0, <3>1 DEF DataTypes, Contents, Versions
    <3>3. got' \in [Clients -> Versions]
      BY <1>0, <2>2, <3>2 DEF Pread, DataTypes
    <3>4. UNCHANGED <<real, inode, latest, entry, applying, window, fresh, writes>>
      BY <2>2 DEF Pread, files, journal, thread, history
    <3> QED BY <1>0, <3>3, <3>4 DEF DataTypes
  <2>3. CASE ReadGetfd(c)
    <3>1. fresh' \in [Clients -> SUBSET Versions]
      BY <1>0, <2>3 DEF ReadGetfd, DataTypes
    <3>2. UNCHANGED <<real, inode, latest, entry, applying, window, got, writes>>
      BY <2>3 DEF ReadGetfd, files, journal, thread, history
    <3> QED BY <1>0, <3>1, <3>2 DEF DataTypes
  <2>4. CASE Return(c)
    <3>1. UNCHANGED <<real, inode, latest, entry, applying, window, writes>>
      BY <2>4 DEF Return, files, journal, thread, history
    <3> QED BY <1>0, <2>4, <3>1 DEF DataTypes, Return, Versions
  <2>5. CASE ~Pwrite(c) /\ ~Pread(c) /\ ~ReadGetfd(c) /\ ~Return(c)
    <3>1. /\ UNCHANGED <<real, inode, latest, applying, window, got, fresh, writes>>
          /\ entry' \in {entry, latest}
      BY <1>1, <2>5 DEF ClientStep, Backfile, ReadWaitAccessible, WriteWait, WriteGetfd, MarkDirty,
        AppendFsync, UpdateMetadata, files, journal, thread, history
    <3> QED BY <1>0, <3>1 DEF DataTypes
  <2> QED BY <2>1, <2>2, <2>3, <2>4, <2>5
<1>2. ASSUME NEW c \in Clients, ClientCall(c) PROVE DataTypes'
  <2>1. UNCHANGED <<real, inode, latest, entry, applying, window, got, writes>>
    BY <1>2 DEF ClientCall, Open, Release, Read, Write, files, journal, thread, history
  <2>2. fresh' = fresh \/ \E b \in Blocks : fresh' = [fresh EXCEPT ![c] = {latest[b]}]
    BY <1>2 DEF ClientCall, Open, Release, Read, Write
  <2>3. \A b \in Blocks : latest[b] \in Versions
    BY <1>0 DEF DataTypes, Contents, Versions
  <2> QED BY <1>0, <2>1, <2>2, <2>3 DEF DataTypes
<1>3. ASSUME NEW t \in Types, ThreadStep(t) PROVE DataTypes'
  <2>1. CASE CopyRead(t)
    <3>1. toff[t] + 1 \in Blocks
      BY <1>0, <2>1, BlocksAssumption DEF CopyRead, ThreadTypes, Blocks
    <3>2. tfd[t] \in Inodes
      BY <1>0, <2>1 DEF CopyRead, ThreadTypes, Copying, MaybeInodes
    <3>3. real[toff[t] + 1] \in Versions /\ inode[tfd[t]][toff[t] + 1] \in Versions
      BY <1>0, <3>1, <3>2 DEF DataTypes, Contents, Versions
    <3>4. window' \in [Types -> Versions]
      BY <1>0, <2>1, <3>3 DEF CopyRead, DataTypes
    <3>5. UNCHANGED <<real, inode, latest, entry, applying, got, fresh, writes>>
      BY <2>1 DEF CopyRead, files, journal, history, client
    <3> QED BY <1>0, <3>4, <3>5 DEF DataTypes
  <2>2. CASE CopyWrite(t)
    <3>1. toff[t] + 1 \in Blocks
      BY <1>0, <2>2, BlocksAssumption DEF CopyWrite, ThreadTypes, Blocks
    <3>2. tfd[t] \in Inodes /\ window[t] \in Versions
      BY <1>0, <2>2 DEF CopyWrite, ThreadTypes, DataTypes, Copying, MaybeInodes
    <3>3. real' \in Contents /\ inode' \in [Inodes -> Contents]
      BY <1>0, <2>2, <3>1, <3>2 DEF CopyWrite, DataTypes, Contents, Versions
    <3>4. window' \in [Types -> Versions]
      BY <1>0, <2>2 DEF CopyWrite, DataTypes, Versions
    <3>5. UNCHANGED <<latest, entry, applying, got, fresh, writes>>
      BY <2>2 DEF CopyWrite, journal, history, client
    <3> QED BY <1>0, <3>3, <3>4, <3>5 DEF DataTypes
  <2>3. CASE ~CopyRead(t) /\ ~CopyWrite(t)
    <3>1. /\ UNCHANGED <<real, inode, latest, entry, window, got, fresh, writes>>
          /\ applying' \in {applying, NoEntry}
      BY <1>3, <2>3 DEF ThreadStep, Dequeue, DoTransfer, TransferGetfd, Publish, CopyEnds,
        TransferEnds, ReleaseTransfer, files, journal, thread, history, client
    <3> QED BY <1>0, <3>1, InitialTypes DEF DataTypes
  <2> QED BY <2>1, <2>2, <2>3
<1>4. ASSUME CreateBacking \/ UnlinkBacking \/ Apply \/ CleanupFile \/ CleanupBacking
      PROVE  DataTypes'
  <2>1. /\ UNCHANGED <<real, latest, window, got, fresh, writes>>
        /\ entry' \in {entry, NoEntry} /\ applying' \in {applying, entry, NoEntry}
        /\ inode' = inode \/ \E i \in Inodes : inode' = [inode EXCEPT ![i] = Empty]
    BY <1>4 DEF CreateBacking, UnlinkBacking, Apply, CleanupFile, CleanupBacking, files, journal,
      thread, history, client
  <2> QED BY <1>0, <2>1, InitialTypes DEF DataTypes
<1> QED BY <1>1, <1>2, <1>3, <1>4 DEF Next

LEMMA TypingStep == Typing /\ [Next]_vars => Typing'
<1> SUFFICES ASSUME Typing, [Next]_vars PROVE Typing'
  OBVIOUS
<1>1. CASE Next
  BY <1>1, FileTypesStep, ThreadTypesStep, ClientTypesStep, WritesBoundedStep, DataTypesStep
    DEF Typing
<1>2. CASE UNCHANGED vars
  <2>1. UNCHANGED <<files, mfile, source, queued, journal, thread, history, client>>
    BY <1>2 DEF vars
  <2>2. Writers' = Writers
    BY <2>1 DEF Writers, client
  <2> QED BY <2>1, <2>2 DEF Typing, FileTypes, DataTypes, ThreadTypes, ClientTypes, WritesBounded, files,
    mfile, source, journal, thread, history, client
<1> QED BY <1>1, <1>2

LEMMA TypingHolds == Spec => []Typing
BY TypingInit, TypingStep, PTL DEF Spec

(* Every variable keeps its type, whatever fails and whatever is removed: no
   version is made beyond the writes, the sizes stay within the file. *)
THEOREM TypeCorrect == Spec => []TypeOK
<1>1. Typing => TypeOK
  BY BlocksAssumption DEF Typing, FileTypes, DataTypes, ThreadTypes, ClientTypes, MaybeInodes, TypeOK
<1> QED BY <1>1, TypingHolds, PTL

-----------------------------------------------------------------------------
(* The copy in the cache: absent, being filled by a BACKUP, or complete.   *)
(* What follows needs every BACKUP to be completed and every copy to stay: *)
(* a failed BACKUP removes the file others may have opened meanwhile, and  *)
(* mcachefs_cleanup_backing removes one with changes that are nowhere else *)
(* (README, Departures).                                                   *)

CopiesStay == "backup_fails" \notin Ops /\ "cleanup_cache" \notin Ops

Filling == tpc[BACKUP] \in {"getfd", "getfd_waited", "succeeded"} \cup Copying
Copied == cachefile # NULL /\ ~Filling

(* Where a client is once a write of its has found the copy complete *)
Written == {"write_getfd", "write_getfd_waited", "pwrite", "dirty", "append", "update_metadata"}

(* Until the copy is complete, nothing is modified and nothing written back. *)
Untouched ==
  /\ real = Initial /\ latest = Initial /\ size = Size0
  /\ entry = NoEntry /\ applying = NoEntry
  /\ queued # WRITEBACK /\ tpc[WRITEBACK] = "idle"
  /\ \A c \in Clients : cpc[c] \notin Written

Absent ==
  /\ cache_status \in {"none", "asked", "in_progress"}
  /\ queued = BACKUP <=> cache_status = "asked"
  /\ tpc[BACKUP] \in {"idle", "do_transfer", "create", "release"}
  /\ tpc[BACKUP] \in {"do_transfer", "create"} => cache_status = "in_progress"
  /\ transfered = 0
  /\ tpc[BACKUP] = "create" => total = Size0

(* What a BACKUP has written after n blocks *)
UpTo(n) == [b \in Blocks |-> IF b <= n THEN Initial[b] ELSE Hole]

Partial ==
  /\ cachefile # NULL /\ cache_status = "in_progress" /\ queued = "none"
  /\ tpc[BACKUP] \in {"getfd", "getfd_waited"} =>
       inode[cachefile] = Empty /\ transfered = 0 /\ total = Size0
  /\ tpc[BACKUP] \in Copying =>
       /\ inode[cachefile] = UpTo(toff[BACKUP])
       /\ transfered <= toff[BACKUP] /\ tsize[BACKUP] = Size0
  /\ tpc[BACKUP] = "copy_write" => window[BACKUP] = Initial[toff[BACKUP] + 1]
  /\ tpc[BACKUP] = "succeeded" => inode[cachefile] = Initial

Complete ==
  /\ inode[cachefile] = latest /\ size >= Size0
  /\ cache_status \in {"none", "done"} /\ queued # BACKUP
  /\ tpc[BACKUP] \in {"idle", "release"}

CopyInv ==
  /\ ~Copied => Untouched
  /\ cachefile = NULL => Absent
  /\ Filling => Partial
  /\ Copied => Complete

(* Every descriptor is open on the file at the path. *)
Descriptors ==
  /\ bfd \in {NULL, cachefile}
  /\ \A c \in Clients : cfd[c] \in {NULL, cachefile}
  /\ \A t \in Types : tfd[t] \in {NULL, cachefile}

(* An operation has a handle, and mcachefs_open has asked for the copy. *)
HandlesHold ==
  \A c \in Clients :
    /\ cpc[c] # "idle" => handle[c]
    /\ handle[c] /\ cpc[c] # "backfile" => cache_status # "none"

(* A reader of the copy finds its block there; a reader of the target, which
   found no complete copy, may see a WRITEBACK, but only of what it may see. *)
Reading == {"choose", "read_getfd", "pread", "pread_real"}

MayRead(c) ==
  /\ cpc[c] \in Reading => latest[blk[c]] \in fresh[c]
  /\ cpc[c] = "pread_real" => real[blk[c]] \in fresh[c]
  /\ cpc[c] = "pread_real" /\ tpc[WRITEBACK] = "copy_write" /\ toff[WRITEBACK] + 1 = blk[c] =>
       window[WRITEBACK] \in fresh[c]
  /\ cpc[c] \in {"read_getfd", "pread"} => Copied \/ (Filling /\ transfered >= blk[c])
  /\ cpc[c] = "return" => got[c] \in fresh[c]

(* What the target must get has been in the copy since the entry was appended. *)
WritingBack == tpc[WRITEBACK] \in {"do_transfer", "getfd", "getfd_waited", "succeeded", "failed"} \cup Copying

BackInv ==
  /\ queued = WRITEBACK \/ WritingBack => applying # NoEntry
  /\ WritingBack => queued # WRITEBACK
  /\ tpc[WRITEBACK] \in {"getfd", "getfd_waited"} => total >= Size0
  /\ tpc[WRITEBACK] \in Copying =>
       /\ tsize[WRITEBACK] >= Size0
       /\ \A b \in Blocks : b <= toff[WRITEBACK] => real[b] >= applying[b]
  /\ tpc[WRITEBACK] = "copy_write" => window[WRITEBACK] >= applying[toff[WRITEBACK] + 1]
  /\ WritebackIsComplete

Versioned ==
  \A b \in Blocks :
    /\ latest[b] <= writes
    /\ b <= Size0 => latest[b] # Hole
    /\ entry[b] <= latest[b] /\ applying[b] <= latest[b]

CacheInv ==
  /\ CopyInv
  /\ Descriptors
  /\ HandlesHold
  /\ \A c \in Clients : MayRead(c)
  /\ BackInv
  /\ Versioned

-----------------------------------------------------------------------------
(* The phases of the copy: each step keeps them. *)

(* Steps that do not see the copy, and let no client write without one *)
LEMMA CopyFrame ==
  ASSUME CopyInv, Copied \/ \A c \in Clients : cpc'[c] \in Written => cpc[c] \in Written,
         UNCHANGED <<files, cache_status, transfered, total, queued, entry, applying, latest>>,
         UNCHANGED <<tpc, toff, tsize, window>>
  PROVE  CopyInv'
<1>1. Filling' = Filling /\ Copied' = Copied /\ cachefile' = cachefile
  BY DEF Filling, Copied, files
<1>2. (Absent <=> Absent') /\ (Partial <=> Partial') /\ (Complete <=> Complete')
  BY DEF Absent, Partial, Complete, UpTo, files
<1>3. ~Copied /\ Untouched => Untouched'
  BY DEF Untouched, files
<1> QED BY <1>1, <1>2, <1>3 DEF CopyInv

LEMMA CopyInitial == Init => CopyInv
<1> SUFFICES ASSUME Init PROVE CopyInv
  OBVIOUS
<1>1. cachefile = NULL /\ tpc[BACKUP] = "idle" /\ tpc[WRITEBACK] = "idle"
  BY DEF Init, Types
<1>2. ~Filling /\ ~Copied
  BY <1>1 DEF Filling, Copied, Copying
<1>3. Untouched
  BY <1>1 DEF Init, Untouched, Written, WRITEBACK
<1>4. cache_status = "none" /\ queued = "none" /\ transfered = 0
  BY DEF Init
<1>5. Absent
  BY <1>1, <1>4 DEF Absent, BACKUP
<1> QED BY <1>2, <1>3, <1>5 DEF CopyInv

LEMMA CopyStepClient ==
  ASSUME Typing, CacheInv, NEW c \in Clients, ClientStep(c)
  PROVE  CopyInv'
<1>0. CopyInv /\ Descriptors /\ FileTypes /\ DataTypes /\ ThreadTypes /\ ClientTypes
  BY DEF Typing, CacheInv
<1>1. cache_status = "done" => Copied
  BY <1>0 DEF CopyInv, Copied, Absent, Partial
<1>2. cpc[c] \in Written => Copied
  BY <1>0 DEF CopyInv, Untouched
<1>3. CASE Backfile(c)
  <2>1. /\ UNCHANGED <<files, transfered, total, journal, thread, history>>
        /\ cpc' = [cpc EXCEPT ![c] = "idle"]
        /\ \/ UNCHANGED <<cache_status, queued>>
           \/ /\ cache_status \in {"none", "error"} /\ cachefile # NULL
              /\ cache_status' = "done" /\ queued' = queued
           \/ /\ cache_status \in {"none", "error"} /\ cachefile = NULL
              /\ cache_status' = "asked"
              /\ queued' = IF queued = "none" THEN BACKUP ELSE queued
    BY <1>3 DEF Backfile, Goto
  <2>2. Filling' = Filling /\ Copied' = Copied /\ cachefile' = cachefile
    BY <2>1 DEF Filling, Copied, files, thread
  <2>3. ~Copied => Untouched'
    BY <1>0, <2>1 DEF CopyInv, Untouched, Absent, Types, files, journal, thread, history, Written,
      FileTypes, ClientTypes, BACKUP, WRITEBACK
  <2>4. cachefile = NULL => Absent'
    BY <1>0, <2>1 DEF CopyInv, Untouched, Absent, Types, files, thread, FileTypes, Copied, BACKUP, WRITEBACK
  <2>5. Filling => Partial'
    BY <1>0, <2>1 DEF CopyInv, Partial, UpTo, files, thread
  <2>6. Copied => Complete'
    BY <1>0, <2>1 DEF CopyInv, Complete, files, thread, history, Copied
  <2> QED BY <2>2, <2>3, <2>4, <2>5, <2>6 DEF CopyInv
<1>4. CASE Pwrite(c)
  <2>1. Copied
    BY <1>2, <1>4 DEF Pwrite, Written
  <2>2. cfd[c] = cachefile /\ cachefile \in Inodes
    BY <1>0, <1>4, <2>1 DEF Pwrite, Descriptors, ClientTypes, FileTypes, MaybeInodes, Copied
  <2>3. /\ UNCHANGED <<cachefile, size, mfile, queued, journal, thread>>
        /\ inode' = [inode EXCEPT ![cfd[c]][blk[c]] = writes + 1]
        /\ latest' = [latest EXCEPT ![blk[c]] = writes + 1]
    BY <1>4 DEF Pwrite
  <2>4. Copied'
    BY <2>1, <2>3 DEF Copied, Filling, thread
  <2>5. inode'[cachefile] = latest'
    BY <1>0, <2>1, <2>2, <2>3 DEF CopyInv, Complete, DataTypes
  <2>6. Complete'
    BY <1>0, <2>1, <2>3, <2>5 DEF CopyInv, Complete, mfile, thread
  <2> QED BY <2>4, <2>6 DEF CopyInv, Copied
<1>5. CASE AppendFsync(c) \/ UpdateMetadata(c)
  <2>1. Copied
    BY <1>2, <1>5 DEF AppendFsync, UpdateMetadata, Written
  <2>2. /\ UNCHANGED <<cachefile, inode, mfile, queued, thread, history>>
        /\ size' = size \/ size' = IF size < blk[c] THEN blk[c] ELSE size
    BY <1>5 DEF AppendFsync, UpdateMetadata, files
  <2>3. Copied'
    BY <2>1, <2>2 DEF Copied, Filling, thread
  <2>4. size' >= Size0
    BY <1>0, <2>1, <2>2, BlocksAssumption DEF CopyInv, Complete, FileTypes, ClientTypes
  <2>5. Complete'
    BY <1>0, <2>1, <2>2, <2>4 DEF CopyInv, Complete, mfile, thread, history
  <2> QED BY <2>3, <2>5 DEF CopyInv, Copied
<1>6. CASE WriteWait(c) \/ WriteGetfd(c) \/ MarkDirty(c)
  <2>1. UNCHANGED <<files, cache_status, transfered, total, queued, entry, applying, latest>>
        /\ UNCHANGED <<tpc, toff, tsize, window>>
    BY <1>6 DEF WriteWait, WriteGetfd, MarkDirty, mfile, journal, thread, history
  <2>2. Copied \/ \A d \in Clients : cpc'[d] \in Written => cpc[d] \in Written
    <3>1. CASE WriteWait(c)
      BY <1>0, <1>1, <3>1 DEF WriteWait, Goto, ClientTypes, Written
    <3>2. CASE WriteGetfd(c) \/ MarkDirty(c)
      BY <1>2, <3>2 DEF WriteGetfd, MarkDirty, Written
    <3> QED BY <1>6, <3>1, <3>2
  <2> QED BY <1>0, <2>1, <2>2, CopyFrame
<1>7. CASE ReadWaitAccessible(c) \/ ReadGetfd(c) \/ Pread(c) \/ Return(c)
  <2>1. UNCHANGED <<files, cache_status, transfered, total, queued, entry, applying, latest>>
        /\ UNCHANGED <<tpc, toff, tsize, window>>
    BY <1>7 DEF ReadWaitAccessible, ReadGetfd, Pread, Return, mfile, journal, thread, history
  <2>2. \A d \in Clients : cpc'[d] \in Written => cpc[d] \in Written
    BY <1>0, <1>7 DEF ReadWaitAccessible, ReadGetfd, Pread, Return, Goto, ClientTypes, Written
  <2> QED BY <1>0, <2>1, <2>2, CopyFrame
<1> QED BY <1>3, <1>4, <1>5, <1>6, <1>7 DEF ClientStep

LEMMA CopyStepCall ==
  ASSUME Typing, CacheInv, NEW c \in Clients, ClientCall(c)
  PROVE  CopyInv'
<1>0. CopyInv /\ FileTypes /\ ClientTypes /\ ThreadTypes
  BY DEF Typing, CacheInv
<1>1. CASE Release(c)
  <2>1. /\ UNCHANGED <<files, queued, journal, thread, history, cpc>>
        /\ \/ UNCHANGED mfile
           \/ /\ cache_status' = "none" /\ transfered' = 0 /\ total' = 0
              /\ queued = "none" /\ \A t \in Types : tpc[t] = "idle"
    BY <1>1 DEF Release, ReleaseFile
  <2>2. CASE UNCHANGED mfile
    BY <1>0, <2>1, <2>2, CopyFrame DEF mfile, journal, thread, history
  <2>3. CASE ~UNCHANGED mfile
    <3>1. tpc[BACKUP] = "idle" /\ UNCHANGED <<cachefile, tpc>>
      BY <2>1, <2>3 DEF Types, files, thread
    <3>2. ~Filling /\ ~Filling' /\ Copied' = Copied
      BY <3>1 DEF Filling, Copied, Copying
    <3>3. ~Copied => Untouched'
      BY <1>0, <2>1 DEF CopyInv, Untouched, files, journal, thread, history
    <3>4. cachefile = NULL => Absent'
      BY <2>1, <2>3, <3>1 DEF Absent, BACKUP
    <3>5. Copied => Complete'
      BY <1>0, <2>1, <2>3 DEF CopyInv, Complete, files, thread, history
    <3> QED BY <3>1, <3>2, <3>3, <3>4, <3>5 DEF CopyInv
  <2> QED BY <2>2, <2>3
<1>2. CASE ~Release(c)
  <2>1. UNCHANGED <<files, cache_status, transfered, total, queued, entry, applying, latest>>
        /\ UNCHANGED <<tpc, toff, tsize, window>>
    BY <1>2 DEF ClientCall, Open, Read, Write, mfile, journal, thread, history
  <2>2. \E l \in {"backfile", "choose", "write_wait"} : cpc' = [cpc EXCEPT ![c] = l]
    BY <1>2 DEF ClientCall, Open, Read, Write, Goto
  <2>3. \A d \in Clients : cpc'[d] \in Written => cpc[d] \in Written
    BY <1>0, <2>2 DEF ClientTypes, Written
  <2> QED BY <1>0, <2>1, <2>3, CopyFrame
<1> QED BY <1>1, <1>2

LEMMA UpToNext ==
  ASSUME NEW n \in Nat
  PROVE  [UpTo(n) EXCEPT ![n + 1] = Initial[n + 1]] = UpTo(n + 1)
<1>1. \A b \in Blocks : b <= n + 1 <=> b <= n \/ b = n + 1
  BY DEF Blocks
<1> QED BY <1>1 DEF UpTo

LEMMA SizeOfInitial == SizeOf(Initial) = Size0
<1>1. {b \in Blocks : Initial[b] # Hole} = 1..Size0
  BY BlocksAssumption DEF Initial, Blocks, Hole
<1>2. Cardinality(1..Size0) = Size0
  BY BlocksAssumption, FS_Interval
<1> QED BY <1>1, <1>2 DEF SizeOf

(* What is got of a file that is there is that file. *)
LEMMA GetfdGets ==
  ASSUME Descriptors, NEW asked_wr, NEW waited, NEW i, Getfd(asked_wr, waited, i), i # NULL
  PROVE  i = cachefile /\ bfd' = cachefile
BY DEF Descriptors, Getfd, Shares

LEMMA GetfdFinds ==
  ASSUME NEW asked_wr, NEW waited, NEW i, Getfd(asked_wr, waited, i), cachefile # NULL
  PROVE  i # NULL
BY DEF Getfd, Shares

LEMMA CopyStepWriteback ==
  ASSUME Typing, CacheInv, ThreadStep(WRITEBACK)
  PROVE  CopyInv'
<1>0. CopyInv /\ FileTypes /\ ThreadTypes
  BY DEF Typing, CacheInv
<1>1. Copied
  <2>1. tpc[WRITEBACK] # "idle" \/ queued = WRITEBACK
    BY DEF ThreadStep, Dequeue, DoTransfer, TransferGetfd, CopyRead, CopyWrite, Publish, CopyEnds,
      TransferEnds, ReleaseTransfer
  <2> QED BY <1>0, <2>1 DEF CopyInv, Untouched
<1>2. /\ UNCHANGED <<cachefile, inode, size, latest>> /\ queued' \in {queued, "none"}
      /\ \E l : tpc' = [tpc EXCEPT ![WRITEBACK] = l]
  BY DEF ThreadStep, Dequeue, DoTransfer, TransferGetfd, CopyRead, CopyWrite, Publish, CopyEnds,
    TransferEnds, ReleaseTransfer, TGoto, files, history, WRITEBACK, BACKUP
<1>3. cache_status' = cache_status \/ cache_status = "asked" \/ cache_status' = "none"
  BY DEF ThreadStep, Dequeue, DoTransfer, TransferGetfd, CopyRead, CopyWrite, Publish, CopyEnds,
    TransferEnds, ReleaseTransfer, ReleaseFile, mfile, WRITEBACK, BACKUP
<1>4. tpc'[BACKUP] = tpc[BACKUP]
  BY <1>0, <1>2 DEF ThreadTypes, Types, WRITEBACK, BACKUP
<1>5. Copied'
  BY <1>1, <1>2, <1>4 DEF Copied, Filling
<1>6. Complete'
  BY <1>0, <1>1, <1>2, <1>3, <1>4 DEF CopyInv, Complete, BACKUP
<1> QED BY <1>5, <1>6 DEF CopyInv, Copied

(* Where a BACKUP is says what phase the copy is in. *)
LEMMA BackupPhase ==
  ASSUME CopyInv, ThreadTypes
  PROVE  /\ tpc[BACKUP] \in {"do_transfer", "create"} => cachefile = NULL /\ Absent /\ Untouched
         /\ Filling => cachefile # NULL /\ Partial /\ Untouched
         /\ tpc[BACKUP] \notin {"failed", "unlink"}
<1>1. Filling \/ Copied \/ cachefile = NULL
  BY DEF Copied
<1>2. Filling => Partial /\ Untouched /\ cachefile # NULL
  BY DEF CopyInv, Copied, Partial
<1>3. cachefile = NULL => Absent /\ Untouched
  BY DEF CopyInv, Copied
<1>4. tpc[BACKUP] \in {"do_transfer", "create"} => cachefile = NULL
  BY <1>1 DEF CopyInv, Complete, Filling, Copying
<1>5. tpc[BACKUP] \notin {"failed", "unlink"}
  BY <1>1, <1>3 DEF CopyInv, Complete, Absent, Filling, Copying
<1> QED BY <1>2, <1>3, <1>4, <1>5

(* Nothing that a BACKUP leaves alone undoes Untouched. *)
LEMMA BackupTouchesNothing ==
  ASSUME ThreadTypes, Untouched,
         ThreadStep(BACKUP) \/ CreateBacking
  PROVE  Untouched'
<1>1. /\ UNCHANGED <<real, latest, size, entry, applying, cpc>> /\ queued' \in {queued, "none"}
      /\ \E l : tpc' = [tpc EXCEPT ![BACKUP] = l]
  BY DEF ThreadStep, Dequeue, DoTransfer, TransferGetfd, CopyRead, CopyWrite, Publish, CopyEnds,
    TransferEnds, ReleaseTransfer, CreateBacking, TGoto, files, journal, history, client, WRITEBACK, BACKUP
<1>2. tpc'[WRITEBACK] = tpc[WRITEBACK]
  BY <1>1 DEF ThreadTypes, Types, WRITEBACK, BACKUP
<1> QED BY <1>1, <1>2 DEF Untouched, WRITEBACK

LEMMA CopyStepBackup ==
  ASSUME CopiesStay, Typing, CacheInv, ThreadStep(BACKUP) \/ CreateBacking \/ UnlinkBacking
  PROVE  CopyInv'
<1>0. CopyInv /\ Descriptors /\ FileTypes /\ ThreadTypes /\ DataTypes /\ BACKUP \in Types
  BY DEF Typing, CacheInv, Types
<1>a. ~UnlinkBacking
  BY <1>0, BackupPhase DEF UnlinkBacking
<1>b. Untouched => Untouched'
  BY <1>0, <1>a, BackupTouchesNothing
<1>1. CASE Dequeue(BACKUP)
  <2>1. /\ queued = BACKUP /\ tpc[BACKUP] = "idle" /\ queued' = "none"
        /\ cache_status' = IF cache_status = "asked" THEN "in_progress" ELSE cache_status
        /\ tpc' = [tpc EXCEPT ![BACKUP] = "do_transfer"]
        /\ UNCHANGED <<files, transfered>>
    BY <1>1 DEF Dequeue, TGoto
  <2>2. ~Filling /\ ~Copied
    BY <1>0, <2>1 DEF CopyInv, Complete, Filling, Copying
  <2>3. cachefile = NULL /\ Absent /\ Untouched
    BY <1>0, <2>2 DEF CopyInv, Copied
  <2>4. tpc'[BACKUP] = "do_transfer" /\ cachefile' = NULL
    BY <1>0, <2>1, <2>3 DEF ThreadTypes, files
  <2>5. ~Filling' /\ ~Copied'
    BY <2>4 DEF Filling, Copied, Copying
  <2>6. Absent'
    BY <2>1, <2>3, <2>4 DEF Absent, BACKUP
  <2> QED BY <1>b, <1>1, <2>3, <2>5, <2>6, <2>4 DEF CopyInv
<1>2. CASE DoTransfer(BACKUP)
  <2>1. /\ tpc[BACKUP] = "do_transfer" /\ total' = size /\ transfered' = 0
        /\ tpc' = [tpc EXCEPT ![BACKUP] = "create"]
        /\ UNCHANGED <<files, cache_status, queued>>
    BY <1>2 DEF DoTransfer, TGoto
  <2>2. cachefile = NULL /\ Absent /\ Untouched
    BY <1>0, <2>1, BackupPhase
  <2>3. tpc'[BACKUP] = "create" /\ cachefile' = NULL
    BY <1>0, <2>1, <2>2 DEF ThreadTypes, files
  <2>4. ~Filling' /\ ~Copied'
    BY <2>3 DEF Filling, Copied, Copying
  <2>5. Absent'
    BY <2>1, <2>2, <2>3 DEF Absent, Untouched
  <2> QED BY <1>b, <2>1, <2>2, <2>3, <2>4, <2>5 DEF CopyInv
<1>3. CASE CreateBacking
  <2>1. tpc[BACKUP] = "create" /\ cachefile = NULL /\ Absent /\ Untouched
    BY <1>0, <1>3, BackupPhase DEF CreateBacking
  <2>2. UNCHANGED <<mfile, queued>>
    BY <1>3 DEF CreateBacking
  <2>3. CASE cachefile' = NULL /\ TGoto(BACKUP, "release")
    <3>1. tpc'[BACKUP] = "release"
      BY <1>0, <2>3 DEF TGoto, ThreadTypes
    <3>2. ~Filling' /\ ~Copied'
      BY <2>3, <3>1 DEF Filling, Copied, Copying
    <3>3. Absent'
      BY <2>1, <2>2, <3>1 DEF Absent, mfile
    <3> QED BY <1>b, <2>1, <2>3, <3>2, <3>3 DEF CopyInv
  <2>4. CASE \E i \in Inodes : /\ cachefile' = i /\ inode' = [inode EXCEPT ![i] = Empty]
                               /\ TGoto(BACKUP, "getfd")
    <3>1. tpc'[BACKUP] = "getfd" /\ cachefile' # NULL /\ inode'[cachefile'] = Empty
      BY <1>0, <2>4, InodesAssumption DEF TGoto, ThreadTypes, DataTypes
    <3>2. Filling' /\ ~Copied'
      BY <3>1 DEF Filling, Copied
    <3>3. Partial'
      BY <1>0, <2>1, <2>2, <3>1 DEF Partial, Absent, Untouched, mfile, Copying, Types, FileTypes
    <3> QED BY <1>b, <2>1, <3>1, <3>2, <3>3 DEF CopyInv
  <2> QED BY <1>3, <2>1, <2>3, <2>4 DEF CreateBacking
<1>4. CASE TransferGetfd(BACKUP)
  <2>1. Filling
    BY <1>4 DEF TransferGetfd, Filling
  <2>2. cachefile # NULL /\ Partial /\ Untouched
    BY <1>0, <2>1, BackupPhase
  <2>3. UNCHANGED <<files, mfile, queued, window>>
    BY <1>4 DEF TransferGetfd
  <2>4. CASE TGoto(BACKUP, "getfd_waited")
    <3>1. tpc'[BACKUP] = "getfd_waited"
      BY <1>0, <2>4 DEF TGoto, ThreadTypes
    <3>2. Filling' /\ ~Copied'
      BY <3>1 DEF Filling, Copied
    <3>3. inode[cachefile] = Empty /\ transfered = 0 /\ total = Size0
      BY <1>4, <2>2 DEF TransferGetfd, Partial
    <3>4. Partial'
      BY <2>2, <2>3, <3>1, <3>3 DEF Partial, files, mfile, Copying
    <3> QED BY <1>b, <1>4, <2>2, <2>3, <3>2, <3>4 DEF CopyInv, files
  <2>5. CASE ~TGoto(BACKUP, "getfd_waited")
    <3>1. PICK i \in Inodes \cup {NULL} :
            /\ Getfd(AskedWr(BACKUP), tpc[BACKUP] = "getfd_waited", i)
            /\ toff' = [toff EXCEPT ![BACKUP] = 0]
            /\ tsize' = [tsize EXCEPT ![BACKUP] =
                  IF i = NULL THEN 0 ELSE Smaller(total, SizeOf(real))]
            /\ tpc' = [tpc EXCEPT ![BACKUP] = IF i = NULL THEN "failed" ELSE "copy"]
      BY <1>4, <2>5 DEF TransferGetfd, TGoto
    <3>2. i # NULL
      BY <2>2, <3>1, GetfdFinds
    <3>3. inode[cachefile] = Empty /\ transfered = 0 /\ total = Size0
      BY <1>4, <2>2 DEF TransferGetfd, Partial
    <3>4. Smaller(total, SizeOf(real)) = Size0
      BY <2>2, <3>3, SizeOfInitial DEF Untouched, Smaller
    <3>5. tpc'[BACKUP] = "copy" /\ toff'[BACKUP] = 0 /\ tsize'[BACKUP] = Size0
      BY <1>0, <3>1, <3>2, <3>4 DEF ThreadTypes
    <3>6. Empty = UpTo(0)
      BY DEF Empty, UpTo, Blocks
    <3>7. Filling' /\ ~Copied'
      BY <3>5 DEF Filling, Copied, Copying
    <3>8. inode'[cachefile'] = UpTo(toff'[BACKUP])
      BY <2>3, <3>3, <3>5, <3>6 DEF files
    <3>9. Partial'
      BY <2>2, <2>3, <3>3, <3>5, <3>8 DEF Partial, files, mfile, UpTo
    <3> QED BY <1>b, <1>4, <2>2, <2>3, <3>7, <3>9 DEF CopyInv, files
  <2> QED BY <2>4, <2>5
<1>5. CASE CopyRead(BACKUP)
  <2>1. Filling
    BY <1>5 DEF CopyRead, Filling, Copying
  <2>2. cachefile # NULL /\ Partial /\ Untouched
    BY <1>0, <2>1, BackupPhase
  <2>3. /\ UNCHANGED <<files, mfile, queued, toff, tsize>>
        /\ tpc'[BACKUP] = "copy_write" /\ window'[BACKUP] = real[toff[BACKUP] + 1]
    BY <1>0, <1>5 DEF CopyRead, TGoto, ThreadTypes, DataTypes
  <2>4. Filling' /\ ~Copied'
    BY <2>3 DEF Filling, Copied, Copying
  <2>5. Partial'
    BY <1>5, <2>2, <2>3 DEF CopyRead, Partial, Untouched, UpTo, files, mfile, Copying
  <2> QED BY <1>b, <1>5, <2>2, <2>3, <2>4, <2>5 DEF CopyInv, files
<1>6. CASE CopyWrite(BACKUP)
  <2>1. Filling
    BY <1>6 DEF CopyWrite, Filling, Copying
  <2>2. cachefile # NULL /\ Partial /\ Untouched
    BY <1>0, <2>1, BackupPhase
  <2>3. tfd[BACKUP] = cachefile /\ cachefile \in Inodes
    BY <1>0, <1>6 DEF CopyWrite, ThreadTypes, Descriptors, Copying, MaybeInodes
  <2>4. /\ UNCHANGED <<cachefile, size, mfile, queued, tsize>>
        /\ tpc'[BACKUP] \in {"copy", "publish"} /\ toff'[BACKUP] = toff[BACKUP] + 1
        /\ inode' = [inode EXCEPT ![cachefile][toff[BACKUP] + 1] = window[BACKUP]]
    BY <1>0, <1>6, <2>3 DEF CopyWrite, TGoto, ThreadTypes
  <2>5. /\ inode[cachefile] = UpTo(toff[BACKUP]) /\ window[BACKUP] = Initial[toff[BACKUP] + 1]
        /\ transfered <= toff[BACKUP] /\ tsize[BACKUP] = Size0
    BY <1>6, <2>2 DEF CopyWrite, Partial, Copying
  <2>6. toff[BACKUP] \in Nat /\ transfered \in Nat
    BY <1>0 DEF ThreadTypes, FileTypes
  <2>7. inode'[cachefile] = [inode[cachefile] EXCEPT ![toff[BACKUP] + 1] = window[BACKUP]]
    BY <1>0, <2>3, <2>4 DEF DataTypes
  <2>8. inode'[cachefile] = UpTo(toff[BACKUP] + 1)
    BY <2>5, <2>6, <2>7, UpToNext
  <2>9. Filling' /\ ~Copied'
    BY <2>4 DEF Filling, Copied, Copying
  <2>10. inode'[cachefile'] = UpTo(toff'[BACKUP]) /\ transfered' <= toff'[BACKUP]
    BY <2>4, <2>5, <2>6, <2>8 DEF mfile
  <2>11. Partial'
    BY <2>2, <2>4, <2>5, <2>10 DEF Partial, mfile, UpTo
  <2> QED BY <1>b, <1>6, <2>2, <2>4, <2>9, <2>11 DEF CopyInv
<1>7. CASE Publish(BACKUP)
  <2>1. Filling
    BY <1>7 DEF Publish, Filling, Copying
  <2>2. cachefile # NULL /\ Partial /\ Untouched
    BY <1>0, <2>1, BackupPhase
  <2>3. /\ UNCHANGED <<files, cache_status, total, queued, toff, tsize, window>>
        /\ tpc'[BACKUP] = "copy" /\ transfered' = toff[BACKUP]
    BY <1>0, <1>7 DEF Publish, TGoto, ThreadTypes
  <2>4. Filling' /\ ~Copied'
    BY <2>3 DEF Filling, Copied, Copying
  <2>5. toff[BACKUP] <= toff[BACKUP]
    BY <1>0 DEF ThreadTypes
  <2>6. Partial'
    BY <1>7, <2>2, <2>3, <2>5 DEF Publish, Partial, UpTo, files, Copying
  <2> QED BY <1>b, <1>7, <2>2, <2>3, <2>4, <2>6 DEF CopyInv, files
<1>8. CASE CopyEnds(BACKUP)
  <2>1. Filling
    BY <1>8 DEF CopyEnds, Filling, Copying
  <2>2. cachefile # NULL /\ Partial /\ Untouched
    BY <1>0, <2>1, BackupPhase
  <2>3. /\ UNCHANGED <<files, mfile, queued>>
        /\ tpc'[BACKUP] = "succeeded" /\ toff[BACKUP] = tsize[BACKUP]
    BY <1>0, <1>8 DEF CopyEnds, CopiesStay, TGoto, ThreadTypes
  <2>4. inode[cachefile] = Initial
    <3>1. inode[cachefile] = UpTo(Size0)
      BY <1>8, <2>2, <2>3 DEF CopyEnds, Partial, Copying
    <3>2. UpTo(Size0) = Initial
      BY DEF UpTo, Initial
    <3> QED BY <3>1, <3>2
  <2>5. Filling' /\ ~Copied'
    BY <2>3 DEF Filling, Copied
  <2>6. Partial'
    BY <2>2, <2>3, <2>4 DEF Partial, files, mfile, Copying
  <2> QED BY <1>b, <1>8, <2>2, <2>3, <2>5, <2>6 DEF CopyInv, files
<1>9. CASE TransferEnds(BACKUP)
  <2>1. tpc[BACKUP] = "succeeded" /\ Filling
    BY <1>0, <1>9, BackupPhase DEF TransferEnds, Filling
  <2>2. cachefile # NULL /\ Partial /\ Untouched
    BY <1>0, <2>1, BackupPhase
  <2>3. /\ UNCHANGED <<files, queued, latest>>
        /\ tpc'[BACKUP] = "release" /\ cache_status' = "done"
    BY <1>0, <1>9, <2>1 DEF TransferEnds, TGoto, ThreadTypes, history
  <2>4. ~Filling' /\ Copied'
    BY <2>2, <2>3 DEF Filling, Copied, Copying, files
  <2>5. Complete'
    BY <2>1, <2>2, <2>3, BlocksAssumption DEF Partial, Untouched, Complete, files, BACKUP
  <2> QED BY <2>4, <2>5 DEF CopyInv, Copied
<1>10. CASE ReleaseTransfer(BACKUP)
  <2>1. /\ UNCHANGED <<files, queued, latest>>
        /\ tpc[BACKUP] = "release" /\ tpc'[BACKUP] = "idle"
        /\ \/ UNCHANGED <<cache_status, transfered>>
           \/ cache_status' = "none" /\ transfered' = 0 /\ queued = "none"
    BY <1>0, <1>10 DEF ReleaseTransfer, ReleaseFile, TGoto, ThreadTypes, history, mfile
  <2>2. ~Filling /\ ~Filling' /\ Copied' = Copied
    BY <2>1 DEF Filling, Copied, Copying, files
  <2>3. cachefile = NULL => Absent'
    BY <1>0, <2>1 DEF CopyInv, Absent, BACKUP
  <2>4. Copied => Complete'
    BY <1>0, <2>1 DEF CopyInv, Complete, files
  <2>5. cachefile' = cachefile
    BY <2>1 DEF files
  <2> QED BY <1>0, <1>b, <1>10, <2>2, <2>3, <2>4, <2>5 DEF CopyInv
<1> QED BY <1>a, <1>1, <1>2, <1>3, <1>4, <1>5, <1>6, <1>7, <1>8, <1>9, <1>10 DEF ThreadStep

LEMMA CopyStep ==
  ASSUME CopiesStay, Typing, CacheInv, Next
  PROVE  CopyInv'
<1>0. CopyInv /\ FileTypes
  BY DEF Typing, CacheInv
<1>1. CASE Apply
  <2>1. Copied
    BY <1>0, <1>1 DEF Apply, CopyInv, Untouched
  <2>2. /\ UNCHANGED <<files, latest, tpc>> /\ cache_status' \in {cache_status, "done"}
        /\ queued' \in {queued, WRITEBACK}
    BY <1>1 DEF Apply, history, thread
  <2>3. Copied'
    BY <2>1, <2>2 DEF Copied, Filling, files
  <2>4. Complete'
    BY <1>0, <2>1, <2>2 DEF CopyInv, Complete, files, BACKUP, WRITEBACK
  <2> QED BY <2>3, <2>4 DEF CopyInv, Copied
<1>2. CASE CleanupFile
  BY <1>0, <1>2, CopyFrame DEF CleanupFile, mfile, journal, thread, history, client
<1>3. CASE CleanupBacking
  BY <1>3 DEF CleanupBacking, CopiesStay
<1>4. ASSUME NEW t \in Types, ThreadStep(t) PROVE CopyInv'
  BY <1>4, CopyStepBackup, CopyStepWriteback DEF Types
<1> QED BY <1>1, <1>2, <1>3, <1>4, CopyStepClient, CopyStepCall, CopyStepBackup DEF Next

-----------------------------------------------------------------------------
(* The descriptors are open on the copy. *)

LEMMA DescriptorsStep ==
  ASSUME CopiesStay, Typing, CacheInv, Next
  PROVE  Descriptors'
<1>0. CopyInv /\ Descriptors /\ FileTypes /\ ThreadTypes /\ ClientTypes
  BY DEF Typing, CacheInv
<1>1. ASSUME UNCHANGED <<cachefile, bfd, tfd, cfd>> PROVE Descriptors'
  BY <1>0, <1>1 DEF Descriptors
<1>2. ASSUME NEW asked_wr, NEW waited, NEW i, Getfd(asked_wr, waited, i)
      PROVE  i \in {NULL, cachefile} /\ bfd' \in {NULL, cachefile}
  BY <1>0, <1>2 DEF Descriptors, Getfd
<1>3. ASSUME NEW c \in Clients, ClientStep(c) PROVE Descriptors'
  <2>1. cachefile' = cachefile /\ tfd' = tfd
    BY <1>3 DEF ClientStep, Backfile, ReadWaitAccessible, ReadGetfd, Pread, Return, WriteWait,
      WriteGetfd, Pwrite, MarkDirty, AppendFsync, UpdateMetadata, files, thread
  <2>2. CASE ReadGetfd(c)
    <3>1. PICK i : Getfd(0, FALSE, i) /\ cfd' = [cfd EXCEPT ![c] = i]
      BY <2>2 DEF ReadGetfd
    <3> QED BY <1>0, <1>2, <2>1, <3>1 DEF Descriptors, ClientTypes
  <2>3. CASE WriteGetfd(c)
    <3>1. \/ UNCHANGED <<bfd, cfd>>
          \/ \E i : Getfd(1, cpc[c] = "write_getfd_waited", i) /\ cfd' = [cfd EXCEPT ![c] = i]
          \/ bfd' = NULL /\ cfd' = cfd
      BY <2>3 DEF WriteGetfd, source
    <3> QED BY <1>0, <1>2, <2>1, <3>1 DEF Descriptors, ClientTypes
  <2>4. CASE ~ReadGetfd(c) /\ ~WriteGetfd(c)
    <3>1. bfd' = bfd /\ cfd' \in {cfd, [cfd EXCEPT ![c] = NULL]}
      BY <1>3, <2>4 DEF ClientStep, Backfile, ReadWaitAccessible, Pread, Return, WriteWait, Pwrite,
        MarkDirty, AppendFsync, UpdateMetadata, Putfd, source
    <3> QED BY <1>0, <2>1, <3>1 DEF Descriptors, ClientTypes
  <2> QED BY <2>2, <2>3, <2>4
<1>4. ASSUME NEW c \in Clients, ClientCall(c) PROVE Descriptors'
  <2>1. UNCHANGED <<cachefile, tfd, cfd>> /\ bfd' \in {bfd, NULL}
    BY <1>4 DEF ClientCall, Open, Release, Read, Write, ReleaseFile, files, source, thread
  <2> QED BY <1>0, <2>1 DEF Descriptors
<1>5. ASSUME NEW t \in Types, ThreadStep(t) PROVE Descriptors'
  <2>1. cachefile' = cachefile /\ cfd' = cfd
    BY <1>5 DEF ThreadStep, Dequeue, DoTransfer, TransferGetfd, CopyRead, CopyWrite, Publish,
      CopyEnds, TransferEnds, ReleaseTransfer, files, client
  <2>2. CASE TransferGetfd(t)
    <3>1. \/ UNCHANGED <<bfd, tfd>>
          \/ \E i : Getfd(AskedWr(t), tpc[t] = "getfd_waited", i) /\ tfd' = [tfd EXCEPT ![t] = i]
      BY <2>2 DEF TransferGetfd, source
    <3> QED BY <1>0, <1>2, <2>1, <3>1 DEF Descriptors, ThreadTypes
  <2>3. CASE ~TransferGetfd(t)
    <3>1. bfd' \in {bfd, NULL} /\ tfd' \in {tfd, [tfd EXCEPT ![t] = NULL]}
      BY <1>5, <2>3 DEF ThreadStep, Dequeue, DoTransfer, CopyRead, CopyWrite, Publish,
        CopyEnds, TransferEnds, ReleaseTransfer, ReleaseFile, Putfd, source
    <3> QED BY <1>0, <2>1, <3>1 DEF Descriptors, ThreadTypes
  <2> QED BY <2>2, <2>3
<1>6. CASE CreateBacking
  <2>1. cachefile = NULL \/ cachefile' = cachefile
    BY <1>6 DEF CreateBacking
  <2>2. UNCHANGED <<bfd, tfd, cfd>>
    BY <1>6 DEF CreateBacking, source, client
  <2> QED BY <1>0, <2>1, <2>2 DEF Descriptors
<1>7. CASE UnlinkBacking
  BY <1>0, <1>7, BackupPhase DEF UnlinkBacking
<1>8. CASE Apply
  BY <1>1, <1>8 DEF Apply, files, source, thread, client
<1>9. CASE CleanupFile
  BY <1>0, <1>9 DEF CleanupFile, Descriptors, files, thread, client
<1>10. CASE CleanupBacking
  BY <1>10 DEF CleanupBacking, CopiesStay
<1> QED BY <1>3, <1>4, <1>5, <1>6, <1>7, <1>8, <1>9, <1>10 DEF Next

-----------------------------------------------------------------------------
(* An operation has a handle, and the copy was asked for. *)

(* Only the last user of the open file forgets its status. *)
LEMMA StatusIsKept ==
  ASSUME Typing, Next, cache_status # "none", cache_status' = "none"
  PROVE  UNCHANGED cpc /\ \A c \in Clients : ~handle'[c]
<1>0. ClientTypes
  BY DEF Typing
<1>1. ASSUME NEW c \in Clients, ClientStep(c) PROVE FALSE
  BY <1>1 DEF ClientStep, Backfile, ReadWaitAccessible, ReadGetfd, Pread, Return, WriteWait,
    WriteGetfd, Pwrite, MarkDirty, AppendFsync, UpdateMetadata, mfile
<1>2. ASSUME NEW c \in Clients, ClientCall(c)
      PROVE  UNCHANGED cpc /\ \A d \in Clients : ~handle'[d]
  <2>1. Release(c)
    BY <1>2 DEF ClientCall, Open, Read, Write, mfile
  <2>2. \A d \in Clients \ {c} : ~handle[d]
    BY <2>1 DEF Release, ReleaseFile, mfile
  <2>3. cpc' = cpc /\ handle' = [handle EXCEPT ![c] = FALSE]
    BY <2>1, Zenon DEF Release
  <2>4. \A d \in Clients : ~handle'[d]
    BY <1>0, <2>2, <2>3, Zenon DEF ClientTypes
  <2> QED BY <2>3, <2>4
<1>3. ASSUME NEW t \in Types, ThreadStep(t)
      PROVE  UNCHANGED cpc /\ \A c \in Clients : ~handle'[c]
  <2>1. ReleaseTransfer(t)
    BY <1>3 DEF ThreadStep, Dequeue, DoTransfer, TransferGetfd, CopyRead, CopyWrite, Publish,
      CopyEnds, TransferEnds, mfile
  <2> QED BY <2>1 DEF ReleaseTransfer, ReleaseFile, mfile, client
<1>4. ASSUME CreateBacking \/ UnlinkBacking \/ Apply \/ CleanupFile \/ CleanupBacking PROVE FALSE
  BY <1>4 DEF CreateBacking, UnlinkBacking, Apply, CleanupFile, CleanupBacking, mfile
<1> QED BY <1>1, <1>2, <1>3, <1>4 DEF Next

LEMMA HandlesHoldStep ==
  ASSUME Typing, CacheInv, Next
  PROVE  HandlesHold'
<1>0. HandlesHold /\ ClientTypes
  BY DEF Typing, CacheInv
<1>1. ASSUME UNCHANGED <<cpc, handle>> PROVE HandlesHold'
  BY <1>0, <1>1, StatusIsKept DEF HandlesHold
<1>2. ASSUME NEW c \in Clients, ClientStep(c) PROVE HandlesHold'
  <2>1. handle' = handle /\ cache_status' # "none"
    <3>1. handle[c] /\ handle' = handle
      BY <1>0, <1>2 DEF HandlesHold, ClientStep, Backfile, ReadWaitAccessible, ReadGetfd, Pread,
        Return, WriteWait, WriteGetfd, Pwrite, MarkDirty, AppendFsync, UpdateMetadata
    <3>2. CASE Backfile(c)
      BY <3>1, <3>2 DEF Backfile
    <3>3. CASE ~Backfile(c)
      <4>1. cpc[c] # "backfile" /\ cache_status' = cache_status
        BY <1>2, <3>3 DEF ClientStep, ReadWaitAccessible, ReadGetfd, Pread, Return, WriteWait,
          WriteGetfd, Pwrite, MarkDirty, AppendFsync, UpdateMetadata, mfile
      <4> QED BY <1>0, <3>1, <4>1 DEF HandlesHold
    <3> QED BY <3>1, <3>2, <3>3
  <2>2. handle[c] /\ \A d \in Clients \ {c} : cpc'[d] = cpc[d]
    BY <1>0, <1>2 DEF HandlesHold, ClientTypes, ClientStep, Backfile, ReadWaitAccessible, ReadGetfd,
      Pread, Return, WriteWait, WriteGetfd, Pwrite, MarkDirty, AppendFsync, UpdateMetadata, Goto
  <2> QED BY <1>0, <2>1, <2>2 DEF HandlesHold
<1>3. ASSUME NEW c \in Clients, ClientCall(c) PROVE HandlesHold'
  <2>1. CASE Release(c)
    <3>1. /\ cpc' = cpc /\ cpc[c] = "idle" /\ handle'[c] = FALSE
          /\ \A d \in Clients \ {c} : handle'[d] = handle[d]
      BY <1>0, <2>1 DEF Release, ClientTypes
    <3> QED BY <1>0, <3>1, StatusIsKept DEF HandlesHold
  <2>2. CASE Open(c)
    <3>1. /\ cpc' = [cpc EXCEPT ![c] = "backfile"] /\ handle' = [handle EXCEPT ![c] = TRUE]
          /\ cache_status' = cache_status
      BY <2>2 DEF Open, Goto, mfile
    <3> QED BY <1>0, <3>1 DEF HandlesHold, ClientTypes
  <2>3. ASSUME NEW b \in Blocks, Read(c, b) \/ Write(c, b) PROVE HandlesHold'
    <3>1. /\ handle' = handle /\ cache_status' = cache_status /\ cpc[c] = "idle" /\ handle[c]
          /\ \A d \in Clients \ {c} : cpc'[d] = cpc[d]
      BY <1>0, <2>3 DEF Read, Write, Goto, mfile, ClientTypes
    <3> QED BY <1>0, <3>1 DEF HandlesHold
  <2> QED BY <1>3, <2>1, <2>2, <2>3 DEF ClientCall
<1>4. ASSUME NEW t \in Types, ThreadStep(t) PROVE UNCHANGED <<cpc, handle>>
  BY <1>4, Zenon DEF ThreadStep, Dequeue, DoTransfer, TransferGetfd, CopyRead, CopyWrite, Publish,
    CopyEnds, TransferEnds, ReleaseTransfer, client
<1>5. ASSUME CreateBacking \/ UnlinkBacking \/ Apply \/ CleanupFile \/ CleanupBacking
      PROVE  UNCHANGED <<cpc, handle>>
  BY <1>5, Zenon DEF CreateBacking, UnlinkBacking, Apply, CleanupFile, CleanupBacking, client
<1> QED BY <1>1, <1>2, <1>3, <1>4, <1>5 DEF Next

-----------------------------------------------------------------------------
(* Versions only grow. *)

LEMMA VersionedInit == Init => Versioned
BY BlocksAssumption DEF Init, Versioned, Initial, NoEntry, Hole

LEMMA VersionedStep ==
  ASSUME Typing, CacheInv, Next
  PROVE  Versioned'
<1>0. Versioned /\ DataTypes /\ ClientTypes /\ MaxWrites \in Nat
  BY BoundsAssumption DEF Typing, CacheInv
<1>1. \A b \in Blocks : NoEntry[b] <= latest[b]
  BY <1>0 DEF NoEntry, DataTypes, Contents, Hole
<1>2. CASE \E c \in Clients : Pwrite(c)
  <2>1. PICK c \in Clients : Pwrite(c)
    BY <1>2
  <2>2. writes' = writes + 1 /\ latest' = [latest EXCEPT ![blk[c]] = writes + 1]
        /\ UNCHANGED <<entry, applying>>
    BY <2>1 DEF Pwrite, journal
  <2>3. writes \in Nat /\ \A b \in Blocks : latest[b] \in Int /\ entry[b] \in Int /\ applying[b] \in Int
    BY <1>0 DEF DataTypes, Contents, Hole
  <2>4. \A b \in Blocks : latest'[b] = latest[b] \/ latest'[b] = writes + 1
    BY <1>0, <2>2 DEF DataTypes, Contents
  <2>5. \A b \in Blocks : latest'[b] <= writes' /\ latest[b] <= latest'[b] /\ (latest'[b] = Hole => latest[b] = Hole)
    BY <1>0, <2>2, <2>3, <2>4 DEF Versioned, Hole
  <2>6. \A b \in Blocks : latest'[b] \in Int
    BY <2>2, <2>3, <2>4
  <2> QED BY <1>0, <2>2, <2>3, <2>5, <2>6 DEF Versioned
<1>3. CASE \A c \in Clients : ~Pwrite(c)
  <2>1. /\ UNCHANGED <<latest, writes>> /\ entry' \in {entry, latest, NoEntry}
        /\ applying' \in {applying, entry, NoEntry}
    <3>1. ASSUME NEW c \in Clients, ClientStep(c) \/ ClientCall(c)
          PROVE  UNCHANGED <<latest, writes, applying>> /\ entry' \in {entry, latest}
      <4>1. CASE AppendFsync(c)
        BY <4>1 DEF AppendFsync, history
      <4>2. CASE ~AppendFsync(c)
        BY <1>3, <3>1, <4>2, Zenon DEF ClientStep, ClientCall, Backfile, ReadWaitAccessible, ReadGetfd, Pread,
          Return, WriteWait, WriteGetfd, MarkDirty, UpdateMetadata, Open, Release, Read, Write, history, journal
      <4> QED BY <4>1, <4>2
    <3>2. CASE \E t \in Types : ThreadStep(t)
      BY <3>2 DEF ThreadStep, Dequeue, DoTransfer, TransferGetfd, CopyRead, CopyWrite, Publish,
        CopyEnds, TransferEnds, ReleaseTransfer, history, journal
    <3>3. CASE CreateBacking \/ UnlinkBacking \/ Apply \/ CleanupFile \/ CleanupBacking
      BY <3>3 DEF CreateBacking, UnlinkBacking, Apply, CleanupFile, CleanupBacking, history, journal
    <3> QED BY <3>1, <3>2, <3>3 DEF Next
  <2>2. \A b \in Blocks : latest[b] <= latest[b]
    BY <1>0 DEF DataTypes, Contents, Hole
  <2> QED BY <1>0, <1>1, <2>1, <2>2 DEF Versioned
<1> QED BY <1>2, <1>3

-----------------------------------------------------------------------------
(* A write-back gives the target what its entry stands for. *)

(* Steps that do not see the write-back *)
LEMMA BackFrame ==
  ASSUME BackInv, UNCHANGED <<real, applying>>,
         tpc'[WRITEBACK] = tpc[WRITEBACK], toff'[WRITEBACK] = toff[WRITEBACK],
         tsize'[WRITEBACK] = tsize[WRITEBACK], window'[WRITEBACK] = window[WRITEBACK],
         queued' = WRITEBACK => queued = WRITEBACK,
         total' = total \/ tpc[WRITEBACK] = "idle"
  PROVE  BackInv'
BY DEF BackInv, WritingBack, WritebackIsComplete

LEMMA BackInit == Init => BackInv
<1> SUFFICES ASSUME Init PROVE BackInv
  OBVIOUS
<1>1. tpc[WRITEBACK] = "idle" /\ queued = "none"
  BY DEF Init, Types
<1> QED BY <1>1 DEF BackInv, WritingBack, WritebackIsComplete, Copying, WRITEBACK

(* The copy holds at least what the entry being applied stands for. *)
LEMMA SizeOfCopy ==
  ASSUME Typing, CacheInv, Copied
  PROVE  cachefile \in Inodes /\ SizeOf(inode[cachefile]) >= Size0
<1>1. cachefile \in Inodes /\ inode[cachefile] = latest
  BY DEF Typing, CacheInv, FileTypes, MaybeInodes, Copied, CopyInv, Complete
<1>2. 1..Size0 \subseteq {b \in Blocks : latest[b] # Hole}
  BY BlocksAssumption DEF CacheInv, Versioned, Blocks
<1>3. IsFiniteSet({b \in Blocks : latest[b] # Hole})
  <2>1. IsFiniteSet(Blocks)
    BY BlocksAssumption, FS_Interval DEF Blocks
  <2> QED BY <2>1, FS_Subset
<1>4. Cardinality(1..Size0) = Size0
  BY BlocksAssumption, FS_Interval
<1>5. Cardinality(1..Size0) <= Cardinality({b \in Blocks : latest[b] # Hole})
  BY <1>2, <1>3, FS_Subset
<1>6. SizeOf(latest) \in Nat /\ SizeOf(latest) = Cardinality({b \in Blocks : latest[b] # Hole})
  BY SizeOfType DEF SizeOf
<1> QED BY <1>1, <1>4, <1>5, <1>6, BlocksAssumption

LEMMA BackStepClient ==
  ASSUME Typing, CacheInv, NEW c \in Clients, ClientStep(c) \/ ClientCall(c)
  PROVE  BackInv'
<1>0. BackInv
  BY DEF CacheInv
<1>1. UNCHANGED <<real, applying, thread>>
  BY DEF ClientStep, ClientCall, Backfile, ReadWaitAccessible, ReadGetfd, Pread, Return,
    WriteWait, WriteGetfd, Pwrite, MarkDirty, AppendFsync, UpdateMetadata, Open, Release, Read, Write,
    files, journal
<1>2. queued' \in {queued, BACKUP}
  BY DEF ClientStep, ClientCall, Backfile, ReadWaitAccessible, ReadGetfd, Pread, Return,
    WriteWait, WriteGetfd, Pwrite, MarkDirty, AppendFsync, UpdateMetadata, Open, Release, Read, Write
<1>3. total' = total \/ tpc[WRITEBACK] = "idle"
  BY DEF ClientStep, ClientCall, Backfile, ReadWaitAccessible, ReadGetfd, Pread, Return,
    WriteWait, WriteGetfd, Pwrite, MarkDirty, AppendFsync, UpdateMetadata, Open, Release, Read, Write,
    ReleaseFile, Types, mfile
<1> QED BY <1>0, <1>1, <1>2, <1>3, BackFrame DEF thread, BACKUP, WRITEBACK

LEMMA BackStepBackup ==
  ASSUME Typing, CacheInv, ThreadStep(BACKUP) \/ CreateBacking \/ UnlinkBacking
  PROVE  BackInv'
<1>0. BackInv /\ CopyInv /\ ThreadTypes
  BY DEF Typing, CacheInv
<1>1. UNCHANGED <<real, applying>> /\ queued' \in {queued, "none"}
  BY DEF ThreadStep, Dequeue, DoTransfer, TransferGetfd, CopyRead, CopyWrite, Publish, CopyEnds,
    TransferEnds, ReleaseTransfer, CreateBacking, UnlinkBacking, files, journal
<1>2. /\ \E l : tpc' = [tpc EXCEPT ![BACKUP] = l]
      /\ toff' = toff \/ \E n : toff' = [toff EXCEPT ![BACKUP] = n]
      /\ tsize' = tsize \/ \E n : tsize' = [tsize EXCEPT ![BACKUP] = n]
      /\ window' = window \/ \E v : window' = [window EXCEPT ![BACKUP] = v]
  BY Zenon DEF ThreadStep, Dequeue, DoTransfer, TransferGetfd, CopyRead, CopyWrite, Publish, CopyEnds,
    TransferEnds, ReleaseTransfer, CreateBacking, UnlinkBacking, TGoto, thread
<1>3. /\ tpc'[WRITEBACK] = tpc[WRITEBACK] /\ toff'[WRITEBACK] = toff[WRITEBACK]
      /\ tsize'[WRITEBACK] = tsize[WRITEBACK] /\ window'[WRITEBACK] = window[WRITEBACK]
  BY <1>0, <1>2 DEF ThreadTypes, Types, BACKUP, WRITEBACK, Typing, DataTypes
<1>4. total' = total \/ tpc[WRITEBACK] = "idle"
  <2>1. CASE DoTransfer(BACKUP)
    BY <1>0, <2>1, BackupPhase DEF DoTransfer, Untouched
  <2>2. CASE ReleaseTransfer(BACKUP)
    BY <2>2 DEF ReleaseTransfer, ReleaseFile, Types, BACKUP, WRITEBACK, mfile
  <2>3. CASE ~DoTransfer(BACKUP) /\ ~ReleaseTransfer(BACKUP)
    BY <2>3 DEF ThreadStep, Dequeue, TransferGetfd, CopyRead, CopyWrite, Publish, CopyEnds,
      TransferEnds, CreateBacking, UnlinkBacking, mfile
  <2> QED BY <2>1, <2>2, <2>3
<1> QED BY <1>0, <1>1, <1>3, <1>4, BackFrame DEF WRITEBACK

LEMMA BackStepWriteback ==
  ASSUME Typing, CacheInv, ThreadStep(WRITEBACK)
  PROVE  BackInv'
<1>0. /\ BackInv /\ CopyInv /\ Descriptors /\ Versioned /\ FileTypes /\ ThreadTypes /\ DataTypes
      /\ WRITEBACK \in Types /\ WRITEBACK # BACKUP
  BY DEF Typing, CacheInv, Types, BACKUP, WRITEBACK
<1>1. Copied
  <2>1. tpc[WRITEBACK] # "idle" \/ queued = WRITEBACK
    BY DEF ThreadStep, Dequeue, DoTransfer, TransferGetfd, CopyRead, CopyWrite, Publish, CopyEnds,
      TransferEnds, ReleaseTransfer
  <2> QED BY <1>0, <2>1 DEF CopyInv, Untouched
<1>2. inode[cachefile] = latest /\ size >= Size0
  BY <1>0, <1>1 DEF CopyInv, Complete
<1>3. \A b \in Blocks : real[b] \in Int /\ applying[b] \in Int /\ latest[b] \in Int
  BY <1>0, BoundsAssumption DEF DataTypes, Contents, Hole
<1>4. \A t \in Types : toff[t] \in Nat /\ tsize[t] \in Nat
  BY <1>0 DEF ThreadTypes
<1>5. CASE Dequeue(WRITEBACK)
  <2>1. /\ tpc'[WRITEBACK] = "do_transfer" /\ queued = WRITEBACK /\ queued' = "none"
        /\ applying' = applying
    BY <1>0, <1>5 DEF Dequeue, TGoto, ThreadTypes, journal
  <2> QED BY <1>0, <2>1 DEF BackInv, WritingBack, WritebackIsComplete, Copying, WRITEBACK
<1>6. CASE DoTransfer(WRITEBACK)
  <2>1. /\ tpc[WRITEBACK] = "do_transfer" /\ tpc'[WRITEBACK] = "getfd" /\ total' = size
        /\ UNCHANGED <<applying, queued>>
    BY <1>0, <1>6 DEF DoTransfer, TGoto, ThreadTypes, journal
  <2> QED BY <1>0, <1>2, <2>1 DEF BackInv, WritingBack, WritebackIsComplete, Copying
<1>7. CASE TransferGetfd(WRITEBACK)
  <2>1. /\ applying # NoEntry /\ queued # WRITEBACK /\ total >= Size0
        /\ UNCHANGED <<applying, queued, real, total>>
    BY <1>0, <1>7 DEF TransferGetfd, BackInv, WritingBack, files, mfile, journal
  <2>2. CASE TGoto(WRITEBACK, "getfd_waited")
    <3>1. tpc'[WRITEBACK] = "getfd_waited"
      BY <1>0, <2>2 DEF TGoto, ThreadTypes
    <3> QED BY <2>1, <3>1 DEF BackInv, WritingBack, WritebackIsComplete, Copying
  <2>3. CASE ~TGoto(WRITEBACK, "getfd_waited")
    <3>1. PICK i \in Inodes \cup {NULL} :
            /\ Getfd(AskedWr(WRITEBACK), tpc[WRITEBACK] = "getfd_waited", i)
            /\ toff' = [toff EXCEPT ![WRITEBACK] = 0]
            /\ tsize' = [tsize EXCEPT ![WRITEBACK] =
                  IF i = NULL THEN 0 ELSE Smaller(total, SizeOf(inode[i]))]
            /\ tpc' = [tpc EXCEPT ![WRITEBACK] = IF i = NULL THEN "failed" ELSE "copy"]
      BY <1>0, <1>7, <2>3 DEF TransferGetfd, TGoto
    <3>2. i = cachefile /\ i # NULL
      BY <1>0, <1>1, <3>1, GetfdFinds, GetfdGets DEF Copied
    <3>3. Smaller(total, SizeOf(inode[i])) >= Size0
      BY <1>1, <2>1, <3>2, SizeOfCopy DEF Smaller
    <3>4. /\ tpc'[WRITEBACK] = "copy" /\ toff'[WRITEBACK] = 0
          /\ tsize'[WRITEBACK] = Smaller(total, SizeOf(inode[i]))
      BY <1>0, <3>1, <3>2 DEF ThreadTypes
    <3>5. \A b \in Blocks : ~(b <= 0)
      BY DEF Blocks
    <3> QED BY <2>1, <3>3, <3>4, <3>5 DEF BackInv, WritingBack, WritebackIsComplete
  <2> QED BY <2>2, <2>3
<1>8. CASE CopyRead(WRITEBACK)
  <2>1. toff[WRITEBACK] + 1 \in Blocks
    BY <1>0, <1>8, BlocksAssumption DEF CopyRead, ThreadTypes, Blocks
  <2>2. tfd[WRITEBACK] = cachefile
    BY <1>0, <1>8 DEF CopyRead, ThreadTypes, Descriptors, Copying
  <2>3. /\ tpc[WRITEBACK] = "copy" /\ tpc'[WRITEBACK] = "copy_write"
        /\ window'[WRITEBACK] = latest[toff[WRITEBACK] + 1]
        /\ UNCHANGED <<real, applying, queued, toff, tsize>>
    BY <1>0, <1>2, <1>8, <2>2 DEF CopyRead, TGoto, ThreadTypes, DataTypes, files, journal
  <2>4. window'[WRITEBACK] >= applying[toff[WRITEBACK] + 1]
    BY <1>0, <1>3, <2>1, <2>3 DEF Versioned
  <2> QED BY <1>0, <2>3, <2>4 DEF BackInv, WritingBack, WritebackIsComplete, Copying
<1>9. CASE CopyWrite(WRITEBACK)
  <2>1. toff[WRITEBACK] + 1 \in Blocks
    BY <1>0, <1>9, BlocksAssumption DEF CopyWrite, ThreadTypes, Blocks
  <2>2. /\ tpc[WRITEBACK] = "copy_write" /\ tpc'[WRITEBACK] \in {"copy", "publish"}
        /\ real' = [real EXCEPT ![toff[WRITEBACK] + 1] = window[WRITEBACK]]
        /\ toff'[WRITEBACK] = toff[WRITEBACK] + 1
        /\ UNCHANGED <<applying, queued, tsize>>
    BY <1>0, <1>9 DEF CopyWrite, TGoto, ThreadTypes, journal
  <2>3. /\ window[WRITEBACK] >= applying[toff[WRITEBACK] + 1]
        /\ applying # NoEntry /\ queued # WRITEBACK
        /\ tsize[WRITEBACK] >= Size0
        /\ \A b \in Blocks : b <= toff[WRITEBACK] => real[b] >= applying[b]
    BY <1>0, <2>2 DEF BackInv, WritingBack, Copying
  <2>4. \A b \in Blocks : b <= toff[WRITEBACK] + 1 => b <= toff[WRITEBACK] \/ b = toff[WRITEBACK] + 1
    BY <1>0, <1>4 DEF Blocks
  <2>5. \A b \in Blocks : real'[b] = IF b = toff[WRITEBACK] + 1 THEN window[WRITEBACK] ELSE real[b]
    BY <1>0, <2>2 DEF DataTypes, Contents
  <2>6. \A b \in Blocks : b <= toff[WRITEBACK] + 1 => real'[b] >= applying[b]
    BY <2>3, <2>4, <2>5
  <2> QED BY <2>2, <2>3, <2>6 DEF BackInv, WritingBack, WritebackIsComplete, Copying
<1>10. CASE Publish(WRITEBACK)
  <2>1. /\ tpc[WRITEBACK] = "publish" /\ tpc'[WRITEBACK] = "copy"
        /\ UNCHANGED <<real, applying, queued, toff, tsize>>
    BY <1>0, <1>10 DEF Publish, TGoto, ThreadTypes, files, journal
  <2> QED BY <1>0, <2>1 DEF BackInv, WritingBack, WritebackIsComplete, Copying
<1>11. CASE CopyEnds(WRITEBACK)
  <2>1. /\ tpc[WRITEBACK] = "copy"
        /\ \/ tpc'[WRITEBACK] = "succeeded" /\ toff[WRITEBACK] = tsize[WRITEBACK]
           \/ tpc'[WRITEBACK] = "failed"
        /\ UNCHANGED <<real, applying, queued>>
    BY <1>0, <1>11 DEF CopyEnds, TGoto, ThreadTypes, files, journal
  <2>2. /\ applying # NoEntry /\ queued # WRITEBACK /\ tsize[WRITEBACK] >= Size0
        /\ \A b \in Blocks : b <= toff[WRITEBACK] => real[b] >= applying[b]
    BY <1>0, <2>1 DEF BackInv, WritingBack, Copying
  <2>3. toff[WRITEBACK] = tsize[WRITEBACK] => \A b \in 1..Size0 : real[b] >= applying[b]
    BY <1>0, <1>4, <2>2, BlocksAssumption DEF Blocks
  <2> QED BY <2>1, <2>2, <2>3 DEF BackInv, WritingBack, WritebackIsComplete, Copying
<1>12. CASE TransferEnds(WRITEBACK)
  <2>1. tpc'[WRITEBACK] = "release" /\ queued' = queued
    BY <1>0, <1>12 DEF TransferEnds, TGoto, ThreadTypes
  <2>2. queued # WRITEBACK
    BY <1>0, <1>12 DEF TransferEnds, BackInv, WritingBack
  <2> QED BY <2>1, <2>2 DEF BackInv, WritingBack, WritebackIsComplete, Copying
<1>13. CASE ReleaseTransfer(WRITEBACK)
  <2>1. tpc'[WRITEBACK] = "idle" /\ UNCHANGED <<applying, queued>>
    BY <1>0, <1>13 DEF ReleaseTransfer, TGoto, ThreadTypes, journal
  <2> QED BY <1>0, <2>1 DEF BackInv, WritingBack, WritebackIsComplete, Copying
<1> QED BY <1>5, <1>6, <1>7, <1>8, <1>9, <1>10, <1>11, <1>12, <1>13 DEF ThreadStep

LEMMA BackStep ==
  ASSUME CopiesStay, Typing, CacheInv, Next
  PROVE  BackInv'
<1>0. BackInv
  BY DEF CacheInv
<1>1. CASE Apply
  <2>1. ~WritingBack /\ queued # WRITEBACK
    BY <1>0, <1>1 DEF Apply, BackInv
  <2>2. tpc' = tpc /\ (queued' = WRITEBACK => applying' # NoEntry)
    <3>1. CASE cachefile = NULL \/ queued # "none"
      BY <1>1, <2>1, <3>1 DEF Apply, thread
    <3>2. CASE cachefile # NULL /\ queued = "none"
      BY <1>1, <3>2 DEF Apply, thread
    <3> QED BY <3>1, <3>2
  <2> QED BY <2>1, <2>2 DEF BackInv, WritingBack, WritebackIsComplete, Copying
<1>2. CASE CleanupFile
  BY <1>0, <1>2, BackFrame DEF CleanupFile, files, mfile, journal, thread
<1>3. CASE CleanupBacking
  BY <1>3 DEF CleanupBacking, CopiesStay
<1>4. ASSUME NEW t \in Types, ThreadStep(t) PROVE BackInv'
  BY <1>4, BackStepBackup, BackStepWriteback DEF Types
<1> QED BY <1>1, <1>2, <1>3, <1>4, BackStepClient, BackStepBackup DEF Next

-----------------------------------------------------------------------------
(* What a read finds *)

(* Once a block is in the copy it stays there. *)
InCopy(b) == Copied \/ (Filling /\ transfered >= b)

LEMMA InCopyStays ==
  ASSUME CopiesStay, Typing, CacheInv, Next, NEW b \in Blocks, InCopy(b)
  PROVE  InCopy(b)'
<1>0. CopyInv /\ ThreadTypes /\ FileTypes /\ b \in Nat
  BY DEF Typing, CacheInv, Blocks
<1>1. ~UnlinkBacking /\ ~CleanupBacking
  BY <1>0, BackupPhase DEF UnlinkBacking, CleanupBacking, CopiesStay
<1>2. CASE Copied
  <2>1. cachefile # NULL /\ tpc[BACKUP] \in {"idle", "release"} /\ queued # BACKUP
    BY <1>0, <1>2 DEF CopyInv, Complete, Copied
  <2>2. cachefile' = cachefile /\ tpc'[BACKUP] \in {"idle", "release"}
    <3>1. ASSUME NEW c \in Clients, ClientStep(c) \/ ClientCall(c) PROVE UNCHANGED <<cachefile, tpc>>
      <4>1. CASE Backfile(c) \/ ReadWaitAccessible(c) \/ ReadGetfd(c)
        BY <4>1, Zenon DEF Backfile, ReadWaitAccessible, ReadGetfd, files, thread
      <4>5. CASE Pread(c) \/ Return(c)
        BY <4>5, Zenon DEF Pread, Return, files, thread
      <4>2. CASE WriteWait(c) \/ WriteGetfd(c) \/ Pwrite(c)
        BY <2>1, <4>2 DEF WriteWait, WriteGetfd, Pwrite, files, thread
      <4>3. CASE MarkDirty(c) \/ AppendFsync(c) \/ UpdateMetadata(c)
        BY <4>3 DEF MarkDirty, AppendFsync, UpdateMetadata, files, thread
      <4>4. CASE ClientCall(c)
        BY <4>4 DEF ClientCall, Open, Release, Read, Write, files, thread
      <4> QED BY <3>1, <4>1, <4>2, <4>3, <4>4, <4>5 DEF ClientStep
    <3>2. CASE ThreadStep(BACKUP)
      <4>1. Dequeue(BACKUP) \/ ReleaseTransfer(BACKUP)
        BY <2>1, <3>2 DEF ThreadStep, Dequeue, DoTransfer, TransferGetfd, CopyRead, CopyWrite, Publish,
          CopyEnds, TransferEnds, ReleaseTransfer
      <4>2. ~Dequeue(BACKUP)
        BY <2>1 DEF Dequeue
      <4> QED BY <1>0, <2>1, <4>1, <4>2 DEF ReleaseTransfer, TGoto, ThreadTypes, Types, files
    <3>3. CASE ThreadStep(WRITEBACK)
      <4>1. cachefile' = cachefile
        BY <3>3, Zenon DEF ThreadStep, Dequeue, DoTransfer, TransferGetfd, CopyRead, CopyWrite, Publish,
          CopyEnds, TransferEnds, ReleaseTransfer, files
      <4>2. tpc'[BACKUP] = tpc[BACKUP]
        <5>1. tpc \in [Types -> ThreadLabels] /\ BACKUP \in Types /\ BACKUP # WRITEBACK
          BY <1>0 DEF ThreadTypes, Types, BACKUP, WRITEBACK
        <5>2. CASE Dequeue(WRITEBACK) \/ DoTransfer(WRITEBACK) \/ TransferGetfd(WRITEBACK)
          BY <5>1, <5>2 DEF Dequeue, DoTransfer, TransferGetfd, TGoto
        <5>3. CASE CopyRead(WRITEBACK) \/ CopyWrite(WRITEBACK) \/ Publish(WRITEBACK)
          BY <5>1, <5>3 DEF CopyRead, CopyWrite, Publish, TGoto
        <5>4. CASE CopyEnds(WRITEBACK) \/ TransferEnds(WRITEBACK) \/ ReleaseTransfer(WRITEBACK)
          BY <5>1, <5>4 DEF CopyEnds, TransferEnds, ReleaseTransfer, TGoto
        <5> QED BY <3>3, <5>2, <5>3, <5>4 DEF ThreadStep
      <4> QED BY <2>1, <4>1, <4>2
    <3>4. CASE CreateBacking
      BY <2>1, <3>4 DEF CreateBacking
    <3>5. CASE Apply \/ CleanupFile
      BY <2>1, <3>5 DEF Apply, CleanupFile, files, thread
    <3>6. CASE \E c \in Clients : ClientStep(c) \/ ClientCall(c)
      BY <2>1, <3>1, <3>6
    <3>7. CASE \E t \in Types : ThreadStep(t)
      BY <3>2, <3>3, <3>7 DEF Types
    <3> QED BY <1>1, <3>4, <3>5, <3>6, <3>7 DEF Next
  <2>3. Copied'
    BY <2>1, <2>2 DEF Copied, Filling, Copying
  <2> QED BY <2>3 DEF InCopy
<1>3. CASE Filling /\ transfered >= b
  <2>1. cachefile # NULL /\ Partial /\ Untouched /\ tpc[BACKUP] # "idle"
    BY <1>0, <1>3, BackupPhase DEF Filling, Copying
  <2>2. ~ThreadStep(WRITEBACK)
    BY <2>1 DEF Untouched, ThreadStep, Dequeue, DoTransfer, TransferGetfd, CopyRead, CopyWrite, Publish,
      CopyEnds, TransferEnds, ReleaseTransfer
  <2>3. CASE UNCHANGED <<cachefile, transfered>> /\ tpc'[BACKUP] = tpc[BACKUP]
    BY <1>3, <2>3 DEF InCopy, Filling
  <2>4. CASE \E c \in Clients : ClientStep(c) \/ ClientCall(c)
    <3>1. ASSUME NEW c \in Clients, ClientStep(c) \/ ClientCall(c)
          PROVE  UNCHANGED <<cachefile, transfered, tpc>>
      <4>1. CASE Backfile(c) \/ ReadWaitAccessible(c) \/ ReadGetfd(c) \/ Pread(c) \/ Return(c)
        BY <4>1 DEF Backfile, ReadWaitAccessible, ReadGetfd, Pread, Return, files, mfile, thread
      <4>2. CASE WriteWait(c) \/ WriteGetfd(c) \/ Pwrite(c)
        BY <2>1, <4>2 DEF WriteWait, WriteGetfd, Pwrite, files, mfile, thread
      <4>3. CASE MarkDirty(c) \/ AppendFsync(c) \/ UpdateMetadata(c)
        BY <4>3 DEF MarkDirty, AppendFsync, UpdateMetadata, files, mfile, thread
      <4>4. CASE ClientCall(c)
        BY <2>1, <4>4 DEF ClientCall, Open, Release, Read, Write, ReleaseFile, Types, files, mfile, thread
      <4> QED BY <3>1, <4>1, <4>2, <4>3, <4>4 DEF ClientStep
    <3> QED BY <2>3, <2>4, <3>1
  <2>5. CASE ThreadStep(BACKUP)
    <3>1. CASE Publish(BACKUP)
      <4>1. /\ tpc'[BACKUP] = "copy" /\ transfered' = toff[BACKUP] /\ transfered <= toff[BACKUP]
        BY <1>0, <2>1, <3>1 DEF Publish, TGoto, ThreadTypes, Partial, Types, Copying
      <4>2. toff[BACKUP] \in Nat /\ transfered \in Nat
        BY <1>0 DEF ThreadTypes, FileTypes, Types
      <4>3. transfered' >= b /\ Filling'
        BY <1>0, <1>3, <4>1, <4>2 DEF Filling, Copying
      <4> QED BY <4>3 DEF InCopy
    <3>2. CASE TransferEnds(BACKUP)
      <4>1. cachefile' = cachefile /\ tpc'[BACKUP] = "release"
        BY <1>0, <1>3, <3>2 DEF TransferEnds, TGoto, ThreadTypes, Types, files, Filling, Copying
      <4>2. Copied'
        BY <2>1, <4>1 DEF Copied, Filling, Copying
      <4> QED BY <4>2 DEF InCopy
    <3>3. CASE TransferGetfd(BACKUP)
      BY <1>0, <1>3, <2>1, <3>3 DEF TransferGetfd, Partial, Blocks
    <3>4. CASE CopyRead(BACKUP) \/ CopyWrite(BACKUP) \/ CopyEnds(BACKUP)
      <4>1. transfered' = transfered
        BY <3>4 DEF CopyRead, CopyWrite, CopyEnds, mfile
      <4>2. tpc'[BACKUP] \in {"copy", "copy_write", "publish", "succeeded"}
        BY <1>0, <3>4 DEF CopyRead, CopyWrite, CopyEnds, TGoto, ThreadTypes, Types, CopiesStay
      <4> QED BY <1>3, <4>1, <4>2 DEF InCopy, Filling, Copying
    <3>5. ~Dequeue(BACKUP) /\ ~DoTransfer(BACKUP) /\ ~ReleaseTransfer(BACKUP)
      BY <1>3 DEF Filling, Copying, Dequeue, DoTransfer, ReleaseTransfer
    <3> QED BY <2>5, <3>1, <3>2, <3>3, <3>4, <3>5 DEF ThreadStep
  <2>6. CASE CreateBacking
    BY <1>3, <2>6 DEF CreateBacking, Filling, Copying
  <2>7. CASE Apply
    BY <2>1, <2>7 DEF Apply, Untouched
  <2>8. CASE CleanupFile
    BY <2>3, <2>8 DEF CleanupFile, files, mfile, thread
  <2> QED BY <1>1, <2>2, <2>4, <2>5, <2>6, <2>7, <2>8 DEF Next, Types
<1> QED BY <1>2, <1>3 DEF InCopy

(* A client that does not move, in a step that writes no version and leaves
   the target and the write-back alone *)
LEMMA MayReadFrame ==
  ASSUME CopiesStay, Typing, CacheInv, Next, NEW c \in Clients,
         UNCHANGED <<latest, real, cpc[c], blk[c], fresh[c], got[c]>>,
         tpc'[WRITEBACK] = "copy_write" =>
           /\ tpc[WRITEBACK] = "copy_write" /\ toff'[WRITEBACK] = toff[WRITEBACK]
           /\ window'[WRITEBACK] = window[WRITEBACK]
  PROVE  MayRead(c)'
<1>1. MayRead(c)
  BY DEF CacheInv
<1>2. cpc[c] \in {"read_getfd", "pread"} => blk[c] \in Blocks
  BY DEF Typing, ClientTypes, Blockless
<1>3. cpc[c] \in {"read_getfd", "pread"} => InCopy(blk[c])
  BY <1>1 DEF MayRead, InCopy
<1>4. ASSUME cpc[c] \in {"read_getfd", "pread"} PROVE (Copied \/ (Filling /\ transfered >= blk[c]))'
  <2>1. PICK b \in Blocks : b = blk[c]
    BY <1>2, <1>4
  <2>2. InCopy(b)'
    BY <1>3, <1>4, <2>1, InCopyStays
  <2> QED BY <2>1, <2>2 DEF InCopy
<1> QED BY <1>1, <1>4 DEF MayRead

(* What a client that reads the copy gets *)
LEMMA CopyIsFresh ==
  ASSUME Typing, CacheInv, NEW b \in Blocks, InCopy(b)
  PROVE  cachefile # NULL /\ inode[cachefile][b] = latest[b]
<1>0. CopyInv /\ ThreadTypes /\ FileTypes /\ b \in Nat /\ b # 0
  BY DEF Typing, CacheInv, Blocks
<1>1. CASE Copied
  BY <1>0, <1>1 DEF CopyInv, Complete, Copied
<1>2. CASE Filling /\ transfered >= b
  <2>1. cachefile # NULL /\ Partial /\ latest = Initial
    BY <1>0, <1>2, BackupPhase DEF Untouched
  <2>2. CASE tpc[BACKUP] \in {"getfd", "getfd_waited"}
    BY <1>0, <1>2, <2>1, <2>2 DEF Partial
  <2>3. CASE tpc[BACKUP] \in Copying
    <3>1. inode[cachefile] = UpTo(toff[BACKUP]) /\ b <= toff[BACKUP]
      <4>1. transfered <= toff[BACKUP] /\ inode[cachefile] = UpTo(toff[BACKUP])
        BY <2>1, <2>3 DEF Partial
      <4>2. toff[BACKUP] \in Nat /\ transfered \in Nat
        BY <1>0 DEF ThreadTypes, FileTypes, Types
      <4> QED BY <1>0, <1>2, <4>1, <4>2
    <3> QED BY <2>1, <3>1 DEF UpTo
  <2>4. CASE tpc[BACKUP] = "succeeded"
    BY <2>1, <2>4 DEF Partial
  <2> QED BY <1>2, <2>2, <2>3, <2>4 DEF Filling
<1> QED BY <1>1, <1>2 DEF InCopy

LEMMA MayReadOwnStep ==
  ASSUME CopiesStay, Typing, CacheInv, Next, NEW c \in Clients, ClientStep(c) \/ ClientCall(c)
  PROVE  MayRead(c)'
<1>0. /\ MayRead(c) /\ CopyInv /\ HandlesHold /\ Descriptors
      /\ ClientTypes /\ DataTypes /\ FileTypes /\ ThreadTypes
  BY DEF Typing, CacheInv
<1>1. \A d \in {c} : cpc'[d] \notin Reading \cup {"return"} => MayRead(c)'
  BY DEF MayRead, Reading
<1>2. CASE ReadWaitAccessible(c)
  <2>1. /\ cpc[c] = "choose" /\ blk[c] \in Blocks /\ latest[blk[c]] \in fresh[c]
        /\ UNCHANGED <<latest, blk, fresh, real, tpc, cachefile, transfered>>
    BY <1>0, <1>2 DEF ReadWaitAccessible, MayRead, Reading, ClientTypes, Blockless, files, mfile, thread, history
  <2>2. Copied' = Copied /\ Filling' = Filling
    BY <2>1 DEF Copied, Filling
  <2>3. CASE cache_status # "done" /\ Goto(c, "pread_real")
    <3>1. cpc'[c] = "pread_real"
      BY <1>0, <2>3 DEF Goto, ClientTypes
    <3>2. ~Copied
      BY <1>0, <2>1, <2>3 DEF CopyInv, Complete, HandlesHold
    <3>3. real = latest /\ tpc[WRITEBACK] = "idle"
      BY <1>0, <3>2 DEF CopyInv, Untouched
    <3> QED BY <2>1, <3>1, <3>3 DEF MayRead
  <2>4. CASE /\ cache_status = "done" \/ (cache_status = "in_progress" /\ transfered >= blk[c])
             /\ Goto(c, "read_getfd")
    <3>1. cpc'[c] = "read_getfd"
      BY <1>0, <2>4 DEF Goto, ClientTypes
    <3>2. InCopy(blk[c])
      <4>1. cache_status = "done" => Copied
        BY <1>0 DEF CopyInv, Copied, Absent, Partial
      <4>2. cache_status = "in_progress" /\ transfered >= blk[c] => Filling
        <5>1. transfered >= blk[c] => transfered # 0
          BY <1>0, <2>1 DEF FileTypes, Blocks
        <5> QED BY <1>0, <5>1 DEF CopyInv, Copied, Absent, Complete
      <4> QED BY <2>4, <4>1, <4>2 DEF InCopy
    <3>3. Copied' \/ (Filling' /\ transfered' >= blk'[c])
      BY <2>1, <2>2, <3>2 DEF InCopy
    <3> QED BY <2>1, <3>1, <3>3 DEF MayRead
  <2> QED BY <1>2, <2>3, <2>4 DEF ReadWaitAccessible
<1>3. CASE ReadGetfd(c)
  <2>1. cpc[c] = "read_getfd" /\ blk[c] \in Blocks /\ latest[blk[c]] \in fresh[c] /\ InCopy(blk[c])
    BY <1>0, <1>3 DEF ReadGetfd, MayRead, Reading, ClientTypes, Blockless, InCopy
  <2>2. UNCHANGED <<latest, blk, tpc, cachefile, transfered>>
    BY <1>3 DEF ReadGetfd, files, mfile, thread, history
  <2>3. cachefile # NULL
    BY <2>1, CopyIsFresh
  <2>4. PICK i : /\ Getfd(0, FALSE, i)
                 /\ fresh' = [fresh EXCEPT ![c] = IF i = NULL THEN {} ELSE @]
                 /\ cpc' = [cpc EXCEPT ![c] = IF i = NULL THEN "idle" ELSE "pread"]
    BY <1>3 DEF ReadGetfd, Goto
  <2>5. i # NULL
    BY <2>3, <2>4, GetfdFinds
  <2>6. cpc'[c] = "pread" /\ fresh'[c] = fresh[c]
    BY <1>0, <2>4, <2>5 DEF ClientTypes, DataTypes
  <2>7. Copied' \/ (Filling' /\ transfered' >= blk'[c])
    BY <2>1, <2>2 DEF InCopy, Copied, Filling
  <2> QED BY <2>1, <2>2, <2>6, <2>7 DEF MayRead
<1>4. CASE Pread(c)
  <2>1. cpc'[c] = "return" /\ fresh' = fresh
    BY <1>0, <1>4 DEF Pread, Goto, ClientTypes
  <2>2. got'[c] \in fresh[c]
    <3>1. CASE cpc[c] = "pread_real"
      <4>1. got'[c] = real[blk[c]]
        BY <1>0, <1>4, <3>1 DEF Pread, DataTypes
      <4> QED BY <1>0, <3>1, <4>1 DEF MayRead
    <3>2. CASE cpc[c] = "pread"
      <4>1. got'[c] = inode[cfd[c]][blk[c]]
        BY <1>0, <1>4, <3>2 DEF Pread, DataTypes
      <4>2. cfd[c] = cachefile
        BY <1>0, <3>2 DEF Descriptors, ClientTypes
      <4>3. blk[c] \in Blocks /\ InCopy(blk[c]) /\ latest[blk[c]] \in fresh[c]
        BY <1>0, <3>2 DEF MayRead, Reading, InCopy, ClientTypes, Blockless
      <4>4. inode[cachefile][blk[c]] = latest[blk[c]]
        BY <4>3, CopyIsFresh
      <4> QED BY <4>1, <4>2, <4>3, <4>4
    <3> QED BY <1>4, <3>1, <3>2 DEF Pread
  <2> QED BY <2>1, <2>2 DEF MayRead, Reading
<1>5. ASSUME NEW b \in Blocks, Read(c, b) PROVE MayRead(c)'
  <2>1. cpc'[c] = "choose" /\ fresh'[c] = {latest[b]} /\ blk'[c] = b /\ latest' = latest
    BY <1>0, <1>5 DEF Read, Goto, ClientTypes, DataTypes, history
  <2> QED BY <2>1 DEF MayRead
<1>6. CASE /\ ~ReadWaitAccessible(c) /\ ~ReadGetfd(c) /\ ~Pread(c) /\ ~\E b \in Blocks : Read(c, b)
           /\ ~Release(c)
  <2>1. \E l \in ClientLabels \ (Reading \cup {"return"}) : cpc' = [cpc EXCEPT ![c] = l]
    BY <1>6 DEF ClientStep, ClientCall, Backfile, Return, WriteWait, WriteGetfd, Pwrite, MarkDirty,
      AppendFsync, UpdateMetadata, Open, Write, Goto, ClientLabels, Reading
  <2> QED BY <1>0, <1>1, <2>1 DEF ClientTypes
<1>7. CASE Release(c)
  <2>1. cpc'[c] = "idle"
    BY <1>7 DEF Release
  <2> QED BY <1>1, <2>1 DEF Reading
<1> QED BY <1>2, <1>3, <1>4, <1>5, <1>6, <1>7

LEMMA MayReadOthersStep ==
  ASSUME CopiesStay, Typing, CacheInv, Next, NEW c \in Clients, NEW d \in Clients \ {c},
         ClientStep(d) \/ ClientCall(d)
  PROVE  MayRead(c)'
<1>0. MayRead(c) /\ ClientTypes /\ DataTypes /\ d \in Clients /\ c # d
  BY DEF Typing, CacheInv
<1>1. cpc'[c] = cpc[c] /\ blk'[c] = blk[c] /\ got'[c] = got[c]
  <2>1. /\ cpc' = cpc \/ \E l : cpc' = [cpc EXCEPT ![d] = l]
        /\ blk' = blk \/ \E b : blk' = [blk EXCEPT ![d] = b]
        /\ got' = got \/ \E v : got' = [got EXCEPT ![d] = v]
    BY Zenon DEF ClientStep, ClientCall, Backfile, ReadWaitAccessible, ReadGetfd, Pread, Return, WriteWait,
      WriteGetfd, Pwrite, MarkDirty, AppendFsync, UpdateMetadata, Open, Release, Read, Write, Goto
  <2> QED BY <1>0, <2>1 DEF ClientTypes, DataTypes
<1>2. UNCHANGED <<real, thread>>
  BY DEF ClientStep, ClientCall, Backfile, ReadWaitAccessible, ReadGetfd, Pread, Return, WriteWait,
    WriteGetfd, Pwrite, MarkDirty, AppendFsync, UpdateMetadata, Open, Release, Read, Write, files
<1>3. CASE Pwrite(d)
  <2>1. /\ latest' = [latest EXCEPT ![blk[d]] = writes + 1]
        /\ fresh'[c] = IF fresh[c] # {} /\ blk[c] = blk[d] THEN fresh[c] \cup {writes + 1} ELSE fresh[c]
    BY <1>0, <1>3 DEF Pwrite
  <2>2. cpc[c] \in Reading => blk[c] \in Blocks /\ latest[blk[c]] \in fresh[c]
    BY <1>0 DEF MayRead, ClientTypes, Blockless, Reading
  <2>3. cpc[c] \in Reading => latest'[blk[c]] \in fresh'[c]
    BY <1>0, <2>1, <2>2 DEF DataTypes, Contents
  <2>4. fresh[c] \subseteq fresh'[c]
    BY <2>1
  <2>5. cpc[c] \in {"read_getfd", "pread"} => Copied' \/ (Filling' /\ transfered' >= blk[c])
    <3>1. SUFFICES ASSUME cpc[c] \in {"read_getfd", "pread"}
                   PROVE  Copied' \/ (Filling' /\ transfered' >= blk[c])
      OBVIOUS
    <3>2. UNCHANGED <<cachefile, transfered, tpc>>
      BY <1>3 DEF Pwrite, mfile, thread
    <3> QED BY <1>0, <3>1, <3>2 DEF MayRead, Copied, Filling
  <2> QED BY <1>0, <1>1, <1>2, <2>3, <2>4, <2>5 DEF MayRead, thread
<1>4. CASE ~Pwrite(d)
  <2>1. latest' = latest /\ (fresh' = fresh \/ \E s : fresh' = [fresh EXCEPT ![d] = s])
    BY <1>4, Zenon DEF ClientStep, ClientCall, Backfile, ReadWaitAccessible, ReadGetfd, Pread, Return, WriteWait,
      WriteGetfd, MarkDirty, AppendFsync, UpdateMetadata, Open, Release, Read, Write, history
  <2>2. fresh'[c] = fresh[c]
    BY <1>0, <2>1 DEF DataTypes
  <2> QED BY <1>1, <1>2, <2>1, <2>2, MayReadFrame DEF thread
<1> QED BY <1>3, <1>4

LEMMA MayReadThreadStep ==
  ASSUME CopiesStay, Typing, CacheInv, Next, NEW c \in Clients,
         \/ \E t \in Types : ThreadStep(t)
         \/ CreateBacking \/ UnlinkBacking \/ Apply \/ CleanupFile \/ CleanupBacking
  PROVE  MayRead(c)'
<1>0. /\ MayRead(c) /\ CopyInv /\ Descriptors /\ ClientTypes /\ DataTypes /\ ThreadTypes
      /\ WRITEBACK \in Types /\ BACKUP # WRITEBACK
  BY DEF Typing, CacheInv, Types, BACKUP, WRITEBACK
<1>1. UNCHANGED <<latest, cpc, blk, fresh, got>>
  BY DEF ThreadStep, Dequeue, DoTransfer, TransferGetfd, CopyRead, CopyWrite, Publish,
    CopyEnds, TransferEnds, ReleaseTransfer, CreateBacking, UnlinkBacking, Apply, CleanupFile,
    CleanupBacking, history, client
<1>2. ASSUME CopyRead(WRITEBACK) \/ CopyWrite(WRITEBACK), cpc[c] \in {"read_getfd", "pread"}
      PROVE  (Copied \/ (Filling /\ transfered >= blk[c]))'
  <2>1. PICK b \in Blocks : b = blk[c] /\ InCopy(b)
    BY <1>0, <1>2 DEF ClientTypes, Blockless, MayRead, InCopy
  <2>2. InCopy(b)'
    BY <2>1, InCopyStays
  <2> QED BY <1>1, <2>1, <2>2 DEF InCopy
<1>3. CASE CopyRead(WRITEBACK)
  <2>1. Copied
    BY <1>0, <1>3 DEF CopyRead, CopyInv, Untouched
  <2>2. tfd[WRITEBACK] = cachefile /\ inode[cachefile] = latest
    BY <1>0, <1>3, <2>1 DEF CopyRead, ThreadTypes, Descriptors, Copying, CopyInv, Complete
  <2>3. window'[WRITEBACK] = latest[toff[WRITEBACK] + 1] /\ UNCHANGED <<real, toff>>
    BY <1>0, <1>3, <2>2 DEF CopyRead, DataTypes, files
  <2>4. cpc[c] = "pread_real" /\ toff[WRITEBACK] + 1 = blk[c] => window'[WRITEBACK] \in fresh[c]
    BY <1>0, <2>3 DEF MayRead, Reading
  <2> QED BY <1>0, <1>1, <1>2, <1>3, <2>3, <2>4 DEF MayRead
<1>4. CASE CopyWrite(WRITEBACK)
  <2>1. /\ real' = [real EXCEPT ![toff[WRITEBACK] + 1] = window[WRITEBACK]]
        /\ tpc[WRITEBACK] = "copy_write" /\ tpc'[WRITEBACK] # "copy_write"
    BY <1>0, <1>4 DEF CopyWrite, TGoto, ThreadTypes
  <2>2. cpc[c] = "pread_real" => blk[c] \in Blocks
    BY <1>0 DEF ClientTypes, Blockless
  <2>3. cpc[c] = "pread_real" => real'[blk[c]] \in fresh[c]
    BY <1>0, <2>1, <2>2 DEF MayRead, DataTypes, Contents
  <2> QED BY <1>0, <1>1, <1>2, <1>4, <2>1, <2>3 DEF MayRead
<1>5. CASE ~CopyRead(WRITEBACK) /\ ~CopyWrite(WRITEBACK)
  <2>1. CASE ThreadStep(WRITEBACK)
    <3>1. real' = real /\ tpc'[WRITEBACK] # "copy_write"
      BY <1>0, <1>5, <2>1 DEF ThreadStep, Dequeue, DoTransfer, TransferGetfd, Publish,
        CopyEnds, TransferEnds, ReleaseTransfer, TGoto, ThreadTypes, files
    <3> QED BY <1>1, <3>1, MayReadFrame
  <2>2. CASE ThreadStep(BACKUP) \/ CreateBacking \/ UnlinkBacking
    <3>1. /\ real' = real
          /\ \E l : tpc' = [tpc EXCEPT ![BACKUP] = l]
          /\ toff' = toff \/ \E n : toff' = [toff EXCEPT ![BACKUP] = n]
          /\ window' = window \/ \E v : window' = [window EXCEPT ![BACKUP] = v]
      BY <2>2, Zenon DEF ThreadStep, Dequeue, DoTransfer, TransferGetfd, CopyRead, CopyWrite, Publish,
        CopyEnds, TransferEnds, ReleaseTransfer, CreateBacking, UnlinkBacking, TGoto, files, thread
    <3>2. /\ tpc'[WRITEBACK] = tpc[WRITEBACK] /\ toff'[WRITEBACK] = toff[WRITEBACK]
          /\ window'[WRITEBACK] = window[WRITEBACK]
      BY <1>0, <3>1 DEF ThreadTypes, DataTypes
    <3> QED BY <1>1, <3>1, <3>2, MayReadFrame
  <2>3. CASE Apply \/ CleanupFile \/ CleanupBacking
    <3>1. UNCHANGED <<real, thread>>
      BY <2>3 DEF Apply, CleanupFile, CleanupBacking, files
    <3> QED BY <1>1, <3>1, MayReadFrame DEF thread
  <2> QED BY <2>1, <2>2, <2>3 DEF Types
<1> QED BY <1>3, <1>4, <1>5

LEMMA MayReadStep ==
  ASSUME CopiesStay, Typing, CacheInv, Next
  PROVE  \A c \in Clients : MayRead(c)'
<1> SUFFICES ASSUME NEW c \in Clients PROVE MayRead(c)'
  OBVIOUS
<1>1. ASSUME NEW d \in Clients, ClientStep(d) \/ ClientCall(d) PROVE MayRead(c)'
  BY <1>1, MayReadOwnStep, MayReadOthersStep
<1> QED BY <1>1, MayReadThreadStep DEF Next

-----------------------------------------------------------------------------
LEMMA CacheInvInit == Init => CacheInv
<1> SUFFICES ASSUME Init PROVE CacheInv
  OBVIOUS
<1>1. Descriptors
  BY DEF Init, Descriptors
<1>2. HandlesHold
  BY DEF Init, HandlesHold
<1>3. \A c \in Clients : MayRead(c)
  BY DEF Init, MayRead, Reading
<1> QED BY <1>1, <1>2, <1>3, CopyInitial, BackInit, VersionedInit DEF CacheInv

LEMMA CacheInvStep ==
  ASSUME CopiesStay, Typing, CacheInv, [Next]_vars
  PROVE  CacheInv'
<1>1. CASE Next
  BY <1>1, CopyStep, DescriptorsStep, HandlesHoldStep, MayReadStep, BackStep, VersionedStep DEF CacheInv
<1>2. CASE UNCHANGED vars
  <2>1. UNCHANGED <<files, mfile, source, queued, journal, thread, history, client>>
    BY <1>2 DEF vars
  <2>2. CopyInv'
    BY <2>1, CopyFrame DEF CacheInv, mfile, journal, thread, history, client
  <2>3. Descriptors' /\ HandlesHold' /\ Versioned'
    BY <2>1 DEF CacheInv, Descriptors, HandlesHold, Versioned, files, mfile, source, journal, thread,
      history, client
  <2>4. \A c \in Clients : MayRead(c)'
    BY <2>1 DEF CacheInv, MayRead, Copied, Filling, files, mfile, thread, history, client
  <2>5. BackInv'
    BY <2>1, BackFrame DEF CacheInv, files, mfile, journal, thread
  <2> QED BY <2>2, <2>3, <2>4, <2>5 DEF CacheInv
<1> QED BY <1>1, <1>2

LEMMA CacheInvHolds == ASSUME CopiesStay PROVE Spec => [](Typing /\ CacheInv)
<1>1. Init => Typing /\ CacheInv
  BY TypingInit, CacheInvInit
<1>2. Typing /\ CacheInv /\ [Next]_vars => (Typing /\ CacheInv)'
  BY TypingStep, CacheInvStep
<1> QED BY <1>1, <1>2, PTL DEF Spec

(* A file that is DONE has a complete and up-to-date copy in the cache, and
   the descriptor that is open is open on it. *)
THEOREM DoneMeansCompleteHolds == ASSUME CopiesStay PROVE Spec => []DoneMeansComplete
<1>1. Typing /\ CacheInv => DoneMeansComplete
  <2> SUFFICES ASSUME Typing, CacheInv, cache_status = "done"
               PROVE  /\ cachefile # NULL /\ bfd \in {NULL, cachefile}
                      /\ \A b \in 1..size : inode[cachefile][b] = latest[b]
    BY DEF DoneMeansComplete
  <2>1. Copied
    BY DEF CacheInv, CopyInv, Copied, Absent, Partial
  <2> QED BY <2>1 DEF CacheInv, CopyInv, Complete, Copied, Descriptors
<1> QED BY <1>1, CacheInvHolds, PTL

(* A read never returns a version older than the last one written when it
   began, from whichever of the two files it reads, whatever is transferred
   and written meanwhile. *)
THEOREM ReadsAreFreshHolds == ASSUME CopiesStay PROVE Spec => []ReadsAreFresh
<1>1. CacheInv => ReadsAreFresh
  BY DEF CacheInv, MayRead, ReadsAreFresh
<1> QED BY <1>1, CacheInvHolds, PTL

(* A write-back that succeeds has put on the target every version its fsync
   entry stands for, within the length the file had at first. *)
THEOREM WritebackIsCompleteHolds == ASSUME CopiesStay PROVE Spec => []WritebackIsComplete
<1>1. CacheInv => WritebackIsComplete
  BY DEF CacheInv, BackInv
<1> QED BY <1>1, CacheInvHolds, PTL

================================================================================
