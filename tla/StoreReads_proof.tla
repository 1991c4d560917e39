-------------------------- MODULE StoreReads_proof --------------------------
(***************************************************************************)
(* Proofs about what is read while others change it, for any number of     *)
(* processes, files, stores and requests: the path of an extracted payload *)
(* stays what it was handed out as, a sample that is read has its own      *)
(* payload, and an online materialization is a published prefix for those  *)
(* who consume it.  The bounds of the modules stay in the guards, as       *)
(* arbitrary naturals.                                                     *)
(***************************************************************************)
EXTENDS StoreFiles, StoreReader, SnapshotCatalog, SequenceTheorems, FiniteSetTheorems,
        WellFoundedInduction, TLAPS

\* The extracted files on their own: the runs interleave them with nothing else.
SSpec == SInit /\ [][SNext]_svars

Lease == [fd : Fds, pid : Procs]
LockState == [mode : {"none", "shared", "exclusive"}, holders : SUBSET Procs]
CleanerState == [pc : {"idle", "asked", "locked"}, fd : Fds \cup {None}]
ReaderState == [pc : {"idle", "named", "read"}, target : Shards \cup {None},
                data : Shards \cup {None}, sure : BOOLEAN]

FilesTypeOK ==
    /\ alive \in SUBSET Procs
    /\ locks \in [Fds -> LockState]
    /\ leases \in [Procs -> [Handles -> Lease \cup {None}]]
    /\ registered \in [Procs -> Int]
    /\ cleaner \in [Procs -> CleanerState]
    /\ reader \in [Procs -> ReaderState]
    /\ kept \in [Procs -> SUBSET Shards]
    /\ shard \in Shards
    /\ files \in [Shards -> Shards \cup {0}]
    /\ taken \in [leases : Nat, cleanups : Nat]

\* A lock that nobody has open excludes nothing, only a running process has one
\* open, and flock lets nobody in beside an exclusive lock.
LocksExclude ==
    /\ \A d \in Fds : locks[d].holders \subseteq alive
    /\ \A d \in Fds : locks[d].holders = {} => locks[d].mode = "none"
    /\ \A d, e \in Fds :
          locks[d].mode = "exclusive" /\ locks[e].mode # "none" => d = e

\* Every lease, the inherited ones too, has a shared lock of its own in its process.
LeasesAreLocks ==
    /\ \A x \in Procs : \A h \in Handles :
          leases[x][h] # None =>
              /\ leases[x][h] \in Lease
              /\ x \in locks[leases[x][h].fd].holders
              /\ locks[leases[x][h].fd].mode = "shared"
    /\ \A x \in Procs : \A h, g \in Handles :
          leases[x][h] # None /\ leases[x][g] # None /\ leases[x][h].fd = leases[x][g].fd
              => h = g

\* A cleanup has the descriptor it opened, and no other cleanup has it.
CleanersHold ==
    /\ \A x \in Procs :
          cleaner[x].pc # "idle" =>
              /\ cleaner[x].fd \in Fds
              /\ x \in locks[cleaner[x].fd].holders
              /\ locks[cleaner[x].fd].mode =
                    IF cleaner[x].pc = "asked" THEN "none" ELSE "exclusive"
    /\ \A x, y \in Procs :
          cleaner[x].pc # "idle" /\ cleaner[y].pc # "idle" /\ cleaner[x].fd = cleaner[y].fd
              => x = y

\* An extraction reads the version it named, or one that replaced it; what it
\* serves is promised only while its process has had a lease since.
ReadersAreBehind ==
    \A x \in Procs :
        /\ reader[x].pc = "idle" => reader[x] = NoRead
        /\ reader[x].pc # "idle" =>
              /\ reader[x].target \in Shards /\ reader[x].target <= shard
              /\ reader[x].sure => Held(x) # {}
        /\ reader[x].pc = "read" =>
              /\ reader[x].data \in Shards
              /\ reader[x].target <= reader[x].data /\ reader[x].data <= shard

FilesAreNamed == \A v \in Shards : files[v] \in {0, v}

KeptAreLeased ==
    \A x \in Procs :
        /\ kept[x] # {} => Held(x) # {}
        /\ \A v \in kept[x] : files[v] = v

FilesInv ==
    /\ FilesTypeOK
    /\ LocksExclude
    /\ LeasesAreLocks
    /\ CleanersHold
    /\ ReadersAreBehind
    /\ FilesAreNamed
    /\ KeptAreLeased

-----------------------------------------------------------------------------
\* What the actions rest on: the descriptor that is opened, and how Opened and
\* Closed change the table of lock files.
LEMMA NewFdIsFree ==
    ASSUME FreeFds # {}
    PROVE  NewFd \in Fds /\ locks[NewFd].holders = {}
BY DEF FreeFds, NewFd

\* How a descriptor, a lease and a cleanup change in a step.
FdOpened(d, x, m) ==
    /\ locks[d].holders = {}
    /\ locks'[d].mode = m /\ locks'[d].holders = {x}
    /\ \A e \in Fds : e # d => locks'[e] = locks[e]

FdClosed(d, x) ==
    /\ locks'[d].holders = locks[d].holders \ {x}
    /\ locks'[d].mode = IF locks[d].holders = {x} THEN "none" ELSE locks[d].mode
    /\ \A e \in Fds : e # d => locks'[e] = locks[e]

LeaseSet(x, h, l) ==
    /\ leases'[x][h] = l
    /\ \A y \in Procs : \A g \in Handles : y # x \/ g # h => leases'[y][g] = leases[y][g]

CleanerSet(x, c) ==
    /\ cleaner'[x] = c
    /\ \A y \in Procs : y # x => cleaner'[y] = cleaner[y]

\* A descriptor that is opened is the process's own, and all others stay.
LEMMA OpenedLocks ==
    ASSUME FilesTypeOK, NEW d \in Fds, NEW x \in Procs, NEW m \in {"none", "shared", "exclusive"}
    PROVE  Opened(locks, d, x, m) \in [Fds -> LockState]
<1>1. [mode |-> m, holders |-> {x}] \in LockState
    BY DEF LockState
<1> QED BY <1>1 DEF Opened, FilesTypeOK

LEMMA OpenedChanges ==
    ASSUME FilesTypeOK, FreeFds # {}, NEW x \in Procs, NEW m \in {"none", "shared", "exclusive"},
           locks' = Opened(locks, NewFd, x, m)
    PROVE  NewFd \in Fds /\ FdOpened(NewFd, x, m)
<1>1. NewFd \in Fds /\ locks[NewFd].holders = {}
    BY NewFdIsFree
<1>2. /\ Opened(locks, NewFd, x, m)[NewFd] = [mode |-> m, holders |-> {x}]
      /\ \A e \in Fds : e # NewFd => Opened(locks, NewFd, x, m)[e] = locks[e]
    BY <1>1 DEF Opened, FilesTypeOK
<1>3. locks'[NewFd].mode = m /\ locks'[NewFd].holders = {x}
    BY <1>2
<1> QED BY <1>1, <1>2, <1>3 DEF FdOpened

\* A descriptor that is closed loses one holder, and its lock with the last one.
LEMMA ClosedLocks ==
    ASSUME FilesTypeOK, NEW d \in Fds, NEW x \in Procs
    PROVE  /\ Closed(locks, d, x) \in [Fds -> LockState]
           /\ \A e \in Fds : e # d => Closed(locks, d, x)[e] = locks[e]
           /\ Closed(locks, d, x)[d].holders = locks[d].holders \ {x}
           /\ Closed(locks, d, x)[d].mode =
                 IF locks[d].holders = {x} THEN "none" ELSE locks[d].mode
<1> DEFINE left == IF locks[d].holders = {x} THEN ClosedFd
                   ELSE [mode |-> locks[d].mode, holders |-> locks[d].holders \ {x}]
<1>1. left \in LockState
    BY DEF FilesTypeOK, LockState, ClosedFd
<1>2. Closed(locks, d, x) = [locks EXCEPT ![d] = left]
    BY DEF Closed
<1>3. /\ left.holders = locks[d].holders \ {x}
      /\ left.mode = IF locks[d].holders = {x} THEN "none" ELSE locks[d].mode
    BY DEF ClosedFd
<1> HIDE DEF left
<1> QED BY <1>1, <1>2, <1>3 DEF FilesTypeOK

\* The states that cleaners and readers are set to.
LEMMA IdleStates == Idle \in CleanerState /\ NoRead \in ReaderState
BY DEF Idle, CleanerState, NoRead, ReaderState

-----------------------------------------------------------------------------
\* The first state.
LEMMA FilesInit == SInit => FilesInv
<1> SUFFICES ASSUME SInit PROVE FilesInv
    OBVIOUS
<1>1. FilesTypeOK
    <2>1. ClosedFd \in LockState
        BY DEF ClosedFd, LockState
    <2> QED BY <2>1, IdleStates, StoreFilesAssumption DEF SInit, FilesTypeOK, Shards, NoLease
<1> USE DEF SInit, ClosedFd, NoLease, NoRead, Idle
<1>2. LocksExclude
    BY DEF LocksExclude
<1>3. LeasesAreLocks
    BY DEF LeasesAreLocks
<1>4. CleanersHold /\ ReadersAreBehind /\ FilesAreNamed /\ KeptAreLeased
    BY DEF CleanersHold, ReadersAreBehind, FilesAreNamed, KeptAreLeased
<1> QED BY <1>1, <1>2, <1>3, <1>4 DEF FilesInv

-----------------------------------------------------------------------------
\* What a process keeps once a lease is let go.
LEMMA LetGoKeeps ==
    ASSUME FilesTypeOK, NEW x \in Procs, NEW h \in Handles, LetGo(x, h)
    PROVE  /\ reader' \in [Procs -> ReaderState]
           /\ kept' \in [Procs -> SUBSET Shards]
           /\ \A z \in Procs : /\ kept'[z] = kept[z] \/ kept'[z] = {}
                               /\ reader'[z].pc = reader[z].pc
                               /\ reader'[z].target = reader[z].target
                               /\ reader'[z].data = reader[z].data
                               /\ z # x => reader'[z] = reader[z]
                               /\ reader[z] = NoRead => reader'[z] = NoRead
                               /\ reader'[z].sure => reader[z].sure
           /\ Held(x) = {h} => kept'[x] = {} /\ (reader[x] # NoRead => ~reader'[x].sure)
<1> DEFINE unsure == [reader[x] EXCEPT !.sure = FALSE]
<1>1. /\ unsure \in ReaderState
      /\ unsure.pc = reader[x].pc /\ unsure.target = reader[x].target
      /\ unsure.data = reader[x].data /\ unsure.sure = FALSE
    BY DEF FilesTypeOK, ReaderState
<1>2. \/ reader' = reader /\ (Held(x) = {h} => reader[x] = NoRead)
      \/ reader[x] # NoRead /\ reader' = [reader EXCEPT ![x] = unsure]
    BY DEF LetGo, FilesTypeOK
<1> HIDE DEF unsure
<1>3. reader' \in [Procs -> ReaderState]
    BY <1>1, <1>2 DEF FilesTypeOK
<1>4. /\ kept' \in [Procs -> SUBSET Shards]
      /\ \A z \in Procs : kept'[z] = kept[z] \/ kept'[z] = {}
      /\ Held(x) = {h} => kept'[x] = {}
    BY DEF LetGo, FilesTypeOK
<1>5. \A z \in Procs : /\ reader'[z].pc = reader[z].pc
                       /\ reader'[z].target = reader[z].target
                       /\ reader'[z].data = reader[z].data
                       /\ z # x => reader'[z] = reader[z]
                       /\ reader[z] = NoRead => reader'[z] = NoRead
                       /\ reader'[z].sure => reader[z].sure
    BY <1>1, <1>2 DEF FilesTypeOK
<1>6. Held(x) = {h} => (reader[x] # NoRead => ~reader'[x].sure)
    BY <1>1, <1>2 DEF FilesTypeOK
<1> QED BY <1>3, <1>4, <1>5, <1>6

\* Every step keeps the types.
LEMMA FilesTypeStep == FilesInv /\ [SNext]_svars => FilesTypeOK'
<1> SUFFICES ASSUME FilesInv, [SNext]_svars PROVE FilesTypeOK'
    OBVIOUS
<1>0. FilesTypeOK
    BY DEF FilesInv
<1>1. ASSUME NEW x \in Procs, NEW h \in Handles, Acquire(x, h) PROVE FilesTypeOK'
    <2>1. NewFd \in Fds
        BY <1>1, NewFdIsFree DEF Acquire
    <2>2. locks' \in [Fds -> LockState]
        BY <1>0, <1>1, <2>1, OpenedLocks DEF Acquire
    <2>3. [fd |-> NewFd, pid |-> x] \in Lease
        BY <2>1 DEF Lease
    <2>4. leases' \in [Procs -> [Handles -> Lease \cup {None}]]
        BY <1>0, <1>1, <2>3 DEF Acquire, FilesTypeOK
    <2>5. /\ taken' \in [leases : Nat, cleanups : Nat]
          /\ registered' \in [Procs -> Int]
        BY <1>0, <1>1 DEF Acquire, FilesTypeOK
    <2> QED BY <1>0, <1>1, <2>2, <2>4, <2>5 DEF Acquire, FilesTypeOK
<1>2. ASSUME NEW x \in Procs, NEW h \in Handles, Release(x, h) \/ ReleaseInherited(x, h)
      PROVE  FilesTypeOK'
    <2>1. leases[x][h].fd \in Fds
        BY <1>2 DEF Release, ReleaseInherited, FilesInv, LeasesAreLocks, Lease
    <2>2. locks' \in [Fds -> LockState]
        BY <1>0, <1>2, <2>1, ClosedLocks DEF Release, ReleaseInherited
    <2>3. leases' \in [Procs -> [Handles -> Lease \cup {None}]]
        <3>1. leases' = [leases EXCEPT ![x][h] = None]
            BY <1>2 DEF Release, ReleaseInherited
        <3> QED BY <1>0, <3>1 DEF FilesTypeOK
    <2>4. registered' \in [Procs -> Int]
        BY <1>0, <1>2 DEF Release, ReleaseInherited, FilesTypeOK
    <2>5. LetGo(x, h)
        BY <1>2 DEF Release, ReleaseInherited
    <2>6. kept' \in [Procs -> SUBSET Shards] /\ reader' \in [Procs -> ReaderState]
        BY <1>0, <2>5, LetGoKeeps
    <2> QED BY <1>0, <1>2, <2>2, <2>3, <2>4, <2>6 DEF Release, ReleaseInherited, FilesTypeOK
<1>3. ASSUME NEW x \in Procs, NEW y \in Procs, Fork(x, y) PROVE FilesTypeOK'
    <2>1. \A d \in Fds : [locks[d] EXCEPT !.holders = @ \cup {y}] \in LockState
        BY <1>0 DEF FilesTypeOK, LockState
    <2>2. locks' \in [Fds -> LockState]
        BY <1>0, <1>3, <2>1 DEF Fork, FilesTypeOK
    <2>3. /\ alive' \in SUBSET Procs
          /\ leases' \in [Procs -> [Handles -> Lease \cup {None}]]
          /\ kept' \in [Procs -> SUBSET Shards]
        BY <1>0, <1>3 DEF Fork, FilesTypeOK
    <2> QED BY <1>0, <1>3, <2>2, <2>3 DEF Fork, FilesTypeOK
<1>4. ASSUME NEW x \in Procs, Exit(x) PROVE FilesTypeOK'
    <2>1. \A d \in Fds : Closed(locks, d, x)[d] \in LockState
        BY <1>0, ClosedLocks
    <2>2. locks' \in [Fds -> LockState]
        BY <1>0, <1>4, <2>1 DEF Exit, FilesTypeOK
    <2>3. NoLease \in [Handles -> Lease \cup {None}]
        BY DEF NoLease
    <2>4. /\ alive' \in SUBSET Procs
          /\ leases' \in [Procs -> [Handles -> Lease \cup {None}]]
          /\ registered' \in [Procs -> Int]
          /\ kept' \in [Procs -> SUBSET Shards]
        BY <1>0, <1>4, <2>3 DEF Exit, FilesTypeOK
    <2>5. cleaner' \in [Procs -> CleanerState] /\ reader' \in [Procs -> ReaderState]
        BY <1>0, <1>4, IdleStates DEF Exit, FilesTypeOK
    <2> QED BY <1>0, <1>4, <2>2, <2>4, <2>5 DEF Exit, FilesTypeOK
<1>5. ASSUME NEW x \in Procs, AskRegistry(x) PROVE FilesTypeOK'
    <2>1. NewFd \in Fds
        BY <1>5, NewFdIsFree DEF AskRegistry
    <2>2. locks' \in [Fds -> LockState]
        <3>1. Opened(locks, NewFd, x, "none") \in [Fds -> LockState]
            BY <1>0, <2>1, OpenedLocks
        <3> QED BY <1>0, <1>5, <3>1 DEF AskRegistry, FilesTypeOK
    <2>3. [pc |-> "asked", fd |-> NewFd] \in CleanerState
        BY <2>1 DEF CleanerState
    <2>4. /\ cleaner' \in [Procs -> CleanerState]
          /\ taken' \in [leases : Nat, cleanups : Nat]
        BY <1>0, <1>5, <2>3 DEF AskRegistry, FilesTypeOK
    <2> QED BY <1>0, <1>5, <2>2, <2>4 DEF AskRegistry, FilesTypeOK
<1>6. ASSUME NEW x \in Procs, CloseLock(x), cleaner[x].pc # "idle",
             UNCHANGED <<alive, leases, registered, reader, kept, shard, files, taken>>
      PROVE  FilesTypeOK'
    <2>1. cleaner[x].fd \in Fds
        BY <1>6 DEF FilesInv, CleanersHold
    <2>2. locks' \in [Fds -> LockState]
        BY <1>0, <1>6, <2>1, ClosedLocks DEF CloseLock
    <2>3. cleaner' \in [Procs -> CleanerState]
        BY <1>0, <1>6, IdleStates DEF CloseLock, FilesTypeOK
    <2> QED BY <1>0, <1>6, <2>2, <2>3 DEF FilesTypeOK
<1>7. ASSUME NEW x \in Procs, LockExclusive(x) PROVE FilesTypeOK'
    <2>1. CASE Locked({"shared", "exclusive"})
        BY <1>6, <1>7, <2>1 DEF LockExclusive
    <2>2. CASE ~Locked({"shared", "exclusive"})
        <3>1. /\ \A d \in Fds : [locks[d] EXCEPT !.mode = "exclusive"] \in LockState
              /\ [cleaner[x] EXCEPT !.pc = "locked"] \in CleanerState
            BY <1>0 DEF FilesTypeOK, LockState, CleanerState
        <3>2. locks' \in [Fds -> LockState] /\ cleaner' \in [Procs -> CleanerState]
            <4>1. /\ locks' = [locks EXCEPT ![cleaner[x].fd].mode = "exclusive"]
                  /\ cleaner' = [cleaner EXCEPT ![x].pc = "locked"]
                BY <1>7, <2>2 DEF LockExclusive
            <4> QED BY <1>0, <3>1, <4>1 DEF FilesTypeOK
        <3> QED BY <1>0, <1>7, <3>2 DEF LockExclusive, FilesTypeOK
    <2> QED BY <2>1, <2>2
<1>8. ASSUME NEW x \in Procs, RemoveFile(x) PROVE FilesTypeOK'
    BY <1>0, <1>8 DEF RemoveFile, FilesTypeOK
<1>9. ASSUME NEW x \in Procs, EndCleanup(x) PROVE FilesTypeOK'
    BY <1>6, <1>9 DEF EndCleanup
<1>10. ASSUME NEW x \in Procs, NamePath(x) PROVE FilesTypeOK'
    <2>1. [reader[x] EXCEPT !.pc = "named", !.target = shard] \in ReaderState
        <3>1. reader[x] \in ReaderState /\ shard \in Shards
            BY <1>0 DEF FilesTypeOK
        <3> QED BY <3>1 DEF ReaderState
    <2>2. reader' \in [Procs -> ReaderState]
        BY <1>0, <1>10, <2>1, IdleStates DEF NamePath, Serve, FilesTypeOK
    <2>3. kept' \in [Procs -> SUBSET Shards]
        BY <1>0, <1>10 DEF NamePath, Serve, FilesTypeOK
    <2> QED BY <1>0, <1>10, <2>2, <2>3 DEF NamePath, FilesTypeOK
<1>11. ASSUME NEW x \in Procs, ReadShard(x) PROVE FilesTypeOK'
    <2>1. [reader[x] EXCEPT !.pc = "read", !.data = shard] \in ReaderState
        <3>1. reader[x] \in ReaderState /\ shard \in Shards
            BY <1>0 DEF FilesTypeOK
        <3> QED BY <3>1 DEF ReaderState
    <2>2. reader' \in [Procs -> ReaderState]
        BY <1>0, <1>11, <2>1 DEF ReadShard, FilesTypeOK
    <2> QED BY <1>0, <1>11, <2>2 DEF ReadShard, FilesTypeOK
<1>12. ASSUME NEW x \in Procs, StoreFile(x) PROVE FilesTypeOK'
    <2>1. reader[x].data \in Shards
        BY <1>12 DEF StoreFile, FilesInv, ReadersAreBehind
    <2>2. reader' \in [Procs -> ReaderState]
        BY <1>0, <1>12, IdleStates DEF StoreFile, Serve, FilesTypeOK
    <2>3. kept' \in [Procs -> SUBSET Shards] /\ files' \in [Shards -> Shards \cup {0}]
        <3>1. \/ files' = [files EXCEPT ![shard] = reader[x].data]
              \/ files' = files
            BY <1>12 DEF StoreFile
        <3>2. \/ kept' = [kept EXCEPT ![x] = IF reader[x].sure THEN @ \cup {shard} ELSE @]
              \/ kept' = kept
            BY <1>12 DEF StoreFile, Serve
        <3> QED BY <1>0, <2>1, <3>1, <3>2 DEF FilesTypeOK
    <2> QED BY <1>0, <1>12, <2>2, <2>3 DEF StoreFile, FilesTypeOK
<1>13. CASE ReplaceShard
    <2>1. shard' \in Shards
        BY <1>0, <1>13, StoreFilesAssumption DEF ReplaceShard, FilesTypeOK, Shards
    <2> QED BY <1>0, <1>13, <2>1 DEF ReplaceShard, FilesTypeOK
<1>14. CASE UNCHANGED svars
    BY <1>0, <1>14 DEF svars, FilesTypeOK
<1> QED
    BY <1>1, <1>2, <1>3, <1>4, <1>5, <1>7, <1>8, <1>9, <1>10, <1>11, <1>12, <1>13, <1>14 DEF SNext

-----------------------------------------------------------------------------
\* How the actions that touch the lock files change them, and the leases and
\* cleanups that refer to them.
LEMMA AcquireChanges ==
    ASSUME FilesTypeOK, NEW x \in Procs, NEW h \in Handles, Acquire(x, h)
    PROVE  /\ x \in alive /\ UNCHANGED <<alive, cleaner>>
           /\ \A e \in Fds : locks[e].mode # "exclusive"
           /\ \E d \in Fds : FdOpened(d, x, "shared") /\ LeaseSet(x, h, [fd |-> d, pid |-> x])
<1>1. FreeFds # {} /\ locks' = Opened(locks, NewFd, x, "shared")
    BY DEF Acquire
<1>2. NewFd \in Fds /\ FdOpened(NewFd, x, "shared")
    BY <1>1, OpenedChanges
<1>3. LeaseSet(x, h, [fd |-> NewFd, pid |-> x])
    <2>1. leases' = [leases EXCEPT ![x][h] = [fd |-> NewFd, pid |-> x]]
        BY DEF Acquire
    <2> QED BY <2>1 DEF FilesTypeOK, LeaseSet
<1>4. /\ x \in alive /\ UNCHANGED <<alive, cleaner>>
      /\ \A e \in Fds : locks[e].mode # "exclusive"
    BY DEF Acquire, Locked
<1> QED BY <1>2, <1>3, <1>4

LEMMA ReleaseChanges ==
    ASSUME FilesInv, NEW x \in Procs, NEW h \in Handles, Release(x, h) \/ ReleaseInherited(x, h)
    PROVE  /\ leases[x][h] # None /\ leases[x][h].fd \in Fds
           /\ FdClosed(leases[x][h].fd, x) /\ LeaseSet(x, h, None) /\ LetGo(x, h)
           /\ UNCHANGED <<alive, cleaner, shard, files>>
<1>0. FilesTypeOK
    BY DEF FilesInv
<1>1. /\ leases[x][h] # None
      /\ locks' = Closed(locks, leases[x][h].fd, x)
      /\ leases' = [leases EXCEPT ![x][h] = None]
      /\ LetGo(x, h) /\ UNCHANGED <<alive, cleaner, shard, files>>
    BY DEF Release, ReleaseInherited
<1>2. leases[x][h].fd \in Fds
    BY <1>1 DEF FilesInv, LeasesAreLocks, Lease
<1>3. LeaseSet(x, h, None)
    BY <1>0, <1>1 DEF FilesTypeOK, LeaseSet
<1>4. FdClosed(leases[x][h].fd, x)
    BY <1>0, <1>1, <1>2, ClosedLocks DEF FdClosed
<1> QED BY <1>1, <1>2, <1>3, <1>4

LEMMA ForkChanges ==
    ASSUME FilesInv, NEW x \in Procs, NEW y \in Procs, Fork(x, y)
    PROVE  /\ x \in alive /\ y \notin alive /\ alive' = alive \cup {y}
           /\ \A d \in Fds :
                 /\ locks'[d].mode = locks[d].mode
                 /\ locks'[d].holders =
                       IF x \in locks[d].holders THEN locks[d].holders \cup {y}
                       ELSE locks[d].holders
           /\ leases'[y] = leases[x]
           /\ \A z \in Procs : z # y => leases'[z] = leases[z]
           /\ cleaner' = cleaner
<1>1. FilesTypeOK
    BY DEF FilesInv
<1>2. /\ x \in alive /\ y \notin alive /\ alive' = alive \cup {y} /\ cleaner' = cleaner
      /\ leases' = [leases EXCEPT ![y] = leases[x]]
      /\ locks' = [d \in Fds |-> IF x \in locks[d].holders
                                 THEN [locks[d] EXCEPT !.holders = @ \cup {y}]
                                 ELSE locks[d]]
    BY DEF Fork
<1>3. \A d \in Fds : /\ [locks[d] EXCEPT !.holders = @ \cup {y}].mode = locks[d].mode
                     /\ [locks[d] EXCEPT !.holders = @ \cup {y}].holders =
                           locks[d].holders \cup {y}
    BY <1>1 DEF FilesTypeOK, LockState
<1>4. \A d \in Fds :
         /\ locks'[d].mode = locks[d].mode
         /\ locks'[d].holders = IF x \in locks[d].holders THEN locks[d].holders \cup {y}
                                ELSE locks[d].holders
    BY <1>2, <1>3
<1> QED BY <1>1, <1>2, <1>4 DEF FilesTypeOK

LEMMA ExitChanges ==
    ASSUME FilesInv, NEW x \in Procs, Exit(x)
    PROVE  /\ x \in alive /\ alive' = alive \ {x}
           /\ \A d \in Fds :
                 /\ locks'[d].holders = locks[d].holders \ {x}
                 /\ locks'[d].mode = IF locks[d].holders = {x} THEN "none" ELSE locks[d].mode
           /\ \A h \in Handles : leases'[x][h] = None
           /\ \A z \in Procs : z # x => leases'[z] = leases[z]
           /\ CleanerSet(x, Idle)
<1>1. FilesTypeOK
    BY DEF FilesInv
<1>2. /\ x \in alive /\ alive' = alive \ {x}
      /\ locks' = [d \in Fds |-> IF x \in locks[d].holders THEN Closed(locks, d, x)[d]
                                 ELSE locks[d]]
      /\ leases' = [leases EXCEPT ![x] = NoLease]
      /\ cleaner' = [cleaner EXCEPT ![x] = Idle]
    BY DEF Exit
<1>3. ASSUME NEW d \in Fds
      PROVE  /\ locks'[d].holders = locks[d].holders \ {x}
             /\ locks'[d].mode = IF locks[d].holders = {x} THEN "none" ELSE locks[d].mode
    <2>1. /\ Closed(locks, d, x)[d].holders = locks[d].holders \ {x}
          /\ Closed(locks, d, x)[d].mode = IF locks[d].holders = {x} THEN "none"
                                           ELSE locks[d].mode
        BY <1>1, ClosedLocks
    <2>2. locks'[d] = IF x \in locks[d].holders THEN Closed(locks, d, x)[d] ELSE locks[d]
        BY <1>2
    <2>3. x \notin locks[d].holders => locks[d].holders \ {x} = locks[d].holders
        OBVIOUS
    <2> QED BY <2>1, <2>2, <2>3
<1>4. \A h \in Handles : NoLease[h] = None
    BY DEF NoLease
<1>5. CleanerSet(x, Idle)
    BY <1>1, <1>2 DEF FilesTypeOK, CleanerSet
<1>6. /\ \A h \in Handles : leases'[x][h] = None
      /\ \A z \in Procs : z # x => leases'[z] = leases[z]
    BY <1>1, <1>2, <1>4 DEF FilesTypeOK
<1> QED BY <1>2, <1>3, <1>5, <1>6

\* Both ends of a cleanup close its descriptor.
LEMMA CloseLockChanges ==
    ASSUME FilesInv, NEW x \in Procs, cleaner[x].pc # "idle", CloseLock(x)
    PROVE  cleaner[x].fd \in Fds /\ FdClosed(cleaner[x].fd, x) /\ CleanerSet(x, Idle)
<1>1. FilesTypeOK /\ cleaner[x].fd \in Fds
    BY DEF FilesInv, CleanersHold
<1>2. /\ locks' = Closed(locks, cleaner[x].fd, x)
      /\ cleaner' = [cleaner EXCEPT ![x] = Idle]
    BY DEF CloseLock
<1>3. FdClosed(cleaner[x].fd, x)
    BY <1>1, <1>2, ClosedLocks DEF FdClosed
<1>4. CleanerSet(x, Idle)
    BY <1>1, <1>2 DEF FilesTypeOK, CleanerSet
<1> QED BY <1>1, <1>3, <1>4

LEMMA AskChanges ==
    ASSUME FilesInv, NEW x \in Procs, AskRegistry(x)
    PROVE  /\ x \in alive /\ UNCHANGED <<alive, leases>>
           /\ \/ UNCHANGED <<locks, cleaner>>
              \/ \E d \in Fds :
                    FdOpened(d, x, "none") /\ CleanerSet(x, [pc |-> "asked", fd |-> d])
<1>1. FilesTypeOK
    BY DEF FilesInv
<1>2. FreeFds # {}
    BY DEF AskRegistry
<1>3. CASE registered[x] > 0
    BY <1>3 DEF AskRegistry
<1>4. CASE ~(registered[x] > 0)
    <2>1. /\ locks' = Opened(locks, NewFd, x, "none")
          /\ cleaner' = [cleaner EXCEPT ![x] = [pc |-> "asked", fd |-> NewFd]]
          /\ x \in alive /\ UNCHANGED <<alive, leases>>
        BY <1>4 DEF AskRegistry
    <2>2. NewFd \in Fds /\ FdOpened(NewFd, x, "none")
        BY <1>1, <1>2, <2>1, OpenedChanges
    <2>3. CleanerSet(x, [pc |-> "asked", fd |-> NewFd])
        BY <1>1, <2>1 DEF FilesTypeOK, CleanerSet
    <2> QED BY <2>1, <2>2, <2>3
<1> QED BY <1>3, <1>4

LEMMA LockChanges ==
    ASSUME FilesInv, NEW x \in Procs, LockExclusive(x), ~Locked({"shared", "exclusive"})
    PROVE  /\ cleaner[x].pc = "asked" /\ cleaner[x].fd \in Fds
           /\ \A d \in Fds : locks[d].mode = "none" /\ locks'[d].holders = locks[d].holders
           /\ locks'[cleaner[x].fd].mode = "exclusive"
           /\ \A e \in Fds : e # cleaner[x].fd => locks'[e].mode = "none"
           /\ CleanerSet(x, [pc |-> "locked", fd |-> cleaner[x].fd])
           /\ UNCHANGED <<alive, leases>>
<1>1. FilesTypeOK
    BY DEF FilesInv
<1>2. /\ cleaner[x].pc = "asked"
      /\ locks' = [locks EXCEPT ![cleaner[x].fd].mode = "exclusive"]
      /\ cleaner' = [cleaner EXCEPT ![x].pc = "locked"]
      /\ UNCHANGED <<alive, leases>>
    BY DEF LockExclusive
<1>3. cleaner[x].fd \in Fds
    BY <1>2 DEF FilesInv, CleanersHold
<1>4. \A d \in Fds : locks[d].mode = "none"
    <2>1. \A d \in Fds : locks[d].mode \in {"none", "shared", "exclusive"}
        BY <1>1 DEF FilesTypeOK, LockState
    <2> QED BY <2>1 DEF Locked
<1>5. /\ \A d \in Fds : locks'[d].holders = locks[d].holders
      /\ locks'[cleaner[x].fd].mode = "exclusive"
      /\ \A e \in Fds : e # cleaner[x].fd => locks'[e].mode = locks[e].mode
    BY <1>1, <1>2, <1>3 DEF FilesTypeOK, LockState
<1>6. CleanerSet(x, [pc |-> "locked", fd |-> cleaner[x].fd])
    <2>1. \A y \in Procs : cleaner[y] \in CleanerState
        BY <1>1 DEF FilesTypeOK
    <2>2. [cleaner[x] EXCEPT !.pc = "locked"] = [pc |-> "locked", fd |-> cleaner[x].fd]
        BY <2>1 DEF CleanerState
    <2> QED BY <1>1, <1>2, <2>2 DEF FilesTypeOK, CleanerSet
<1> QED BY <1>2, <1>3, <1>4, <1>5, <1>6

-----------------------------------------------------------------------------
\* flock lets nobody in beside an exclusive lock, over forks and ends too.
LEMMA OpenedExclude ==
    ASSUME LocksExclude, NEW d \in Fds, NEW x \in alive, NEW m, FdOpened(d, x, m), alive' = alive,
           m # "exclusive", m # "none" => \A e \in Fds : locks[e].mode # "exclusive"
    PROVE  LocksExclude'
BY DEF LocksExclude, FdOpened

LEMMA ClosedExclude ==
    ASSUME LocksExclude, NEW d \in Fds, NEW x \in Procs, FdClosed(d, x), alive' = alive
    PROVE  LocksExclude'
BY DEF LocksExclude, FdClosed

LEMMA LocksStep == FilesInv /\ [SNext]_svars => LocksExclude'
<1> SUFFICES ASSUME FilesInv, [SNext]_svars PROVE LocksExclude'
    OBVIOUS
<1>0. FilesTypeOK /\ LocksExclude
    BY DEF FilesInv
<1>1. ASSUME NEW x \in Procs, NEW h \in Handles, Acquire(x, h) PROVE LocksExclude'
    BY <1>0, <1>1, AcquireChanges, OpenedExclude
<1>2. ASSUME NEW x \in Procs, NEW h \in Handles, Release(x, h) \/ ReleaseInherited(x, h)
      PROVE  LocksExclude'
    BY <1>0, <1>2, ReleaseChanges, ClosedExclude
<1>3. ASSUME NEW x \in Procs, NEW y \in Procs, Fork(x, y) PROVE LocksExclude'
    <2>1. /\ x \in alive /\ alive' = alive \cup {y}
          /\ \A d \in Fds :
                /\ locks'[d].mode = locks[d].mode
                /\ \/ locks'[d].holders = locks[d].holders
                   \/ x \in locks[d].holders /\ locks'[d].holders = locks[d].holders \cup {y}
        BY <1>3, ForkChanges
    <2> QED BY <1>0, <2>1 DEF LocksExclude
<1>4. ASSUME NEW x \in Procs, Exit(x) PROVE LocksExclude'
    BY <1>0, <1>4, ExitChanges DEF LocksExclude
<1>5. ASSUME NEW x \in Procs, AskRegistry(x) PROVE LocksExclude'
    <2>1. CASE UNCHANGED <<alive, locks>>
        BY <1>0, <2>1 DEF LocksExclude
    <2>2. ASSUME NEW d \in Fds, FdOpened(d, x, "none") PROVE LocksExclude'
        BY <1>0, <1>5, <2>2, AskChanges, OpenedExclude
    <2> QED BY <1>5, <2>1, <2>2, AskChanges
<1>6. ASSUME NEW x \in Procs, cleaner[x].pc # "idle", CloseLock(x), alive' = alive
      PROVE  LocksExclude'
    BY <1>0, <1>6, CloseLockChanges, ClosedExclude
<1>7. ASSUME NEW x \in Procs, LockExclusive(x) PROVE LocksExclude'
    <2>1. CASE Locked({"shared", "exclusive"})
        BY <1>6, <1>7, <2>1 DEF LockExclusive
    <2>2. CASE ~Locked({"shared", "exclusive"})
        <3>1. x \in locks[cleaner[x].fd].holders
            BY <1>7 DEF LockExclusive, FilesInv, CleanersHold
        <3> QED BY <1>0, <1>7, <2>2, <3>1, LockChanges DEF LocksExclude
    <2> QED BY <2>1, <2>2
<1>8. ASSUME NEW x \in Procs, EndCleanup(x) PROVE LocksExclude'
    BY <1>6, <1>8 DEF EndCleanup
<1>9. ASSUME UNCHANGED <<alive, locks>> PROVE LocksExclude'
    BY <1>0, <1>9 DEF LocksExclude
<1> QED
    BY <1>1, <1>2, <1>3, <1>4, <1>5, <1>7, <1>8, <1>9
    DEF SNext, RemoveFile, NamePath, ReadShard, StoreFile, ReplaceShard, svars

\* A lease keeps its shared lock until its process lets it go, whichever process
\* took it and whatever became of that one.
LEMMA LeasesStep == FilesInv /\ [SNext]_svars => LeasesAreLocks'
<1> SUFFICES ASSUME FilesInv, [SNext]_svars PROVE LeasesAreLocks'
    OBVIOUS
<1>0. FilesTypeOK /\ LocksExclude /\ LeasesAreLocks /\ CleanersHold
    BY DEF FilesInv
<1>a. \A z \in Procs : \A g \in Handles : leases[z][g] # None => leases[z][g].fd \in Fds
    BY <1>0 DEF LeasesAreLocks, Lease
<1>1. ASSUME NEW x \in Procs, NEW h \in Handles, Acquire(x, h) PROVE LeasesAreLocks'
    <2>1. PICK d \in Fds : FdOpened(d, x, "shared") /\ LeaseSet(x, h, [fd |-> d, pid |-> x])
        BY <1>0, <1>1, AcquireChanges
    <2>2. [fd |-> d, pid |-> x] \in Lease
        BY DEF Lease
    <2>3. \A y \in Procs : \A g \in Handles : leases[y][g] # None => leases[y][g].fd # d
        BY <1>0, <2>1 DEF LeasesAreLocks, FdOpened
    <2> QED BY <1>0, <1>a, <2>1, <2>2, <2>3 DEF LeasesAreLocks, FdOpened, LeaseSet
<1>2. ASSUME NEW x \in Procs, NEW h \in Handles, Release(x, h) \/ ReleaseInherited(x, h)
      PROVE  LeasesAreLocks'
    <2>1. /\ leases[x][h] # None
          /\ FdClosed(leases[x][h].fd, x) /\ LeaseSet(x, h, None)
        BY <1>2, ReleaseChanges
    <2> QED BY <1>0, <1>a, <2>1 DEF LeasesAreLocks, FdClosed, LeaseSet
<1>3. ASSUME NEW x \in Procs, NEW y \in Procs, Fork(x, y) PROVE LeasesAreLocks'
    <2>1. /\ leases'[y] = leases[x]
          /\ \A z \in Procs : z # y => leases'[z] = leases[z]
          /\ \A d \in Fds :
                /\ locks'[d].mode = locks[d].mode
                /\ locks[d].holders \subseteq locks'[d].holders
                /\ x \in locks[d].holders => y \in locks'[d].holders
        BY <1>3, ForkChanges
    <2> QED BY <1>0, <1>a, <2>1 DEF LeasesAreLocks
<1>4. ASSUME NEW x \in Procs, Exit(x) PROVE LeasesAreLocks'
    BY <1>0, <1>a, <1>4, ExitChanges DEF LeasesAreLocks
<1>5. ASSUME NEW x \in Procs, AskRegistry(x) PROVE LeasesAreLocks'
    <2>1. CASE UNCHANGED <<locks, leases>>
        BY <1>0, <2>1 DEF LeasesAreLocks
    <2>2. ASSUME NEW d \in Fds, FdOpened(d, x, "none"), leases' = leases PROVE LeasesAreLocks'
        BY <1>0, <1>a, <2>2 DEF LeasesAreLocks, FdOpened
    <2> QED BY <1>5, <2>1, <2>2, AskChanges
<1>6. ASSUME NEW x \in Procs, cleaner[x].pc # "idle", CloseLock(x), leases' = leases
      PROVE  LeasesAreLocks'
    <2>1. FdClosed(cleaner[x].fd, x) /\ locks[cleaner[x].fd].mode # "shared"
        BY <1>0, <1>6, CloseLockChanges DEF CleanersHold
    <2> QED BY <1>0, <1>a, <1>6, <2>1 DEF LeasesAreLocks, FdClosed
<1>7. ASSUME NEW x \in Procs, LockExclusive(x) PROVE LeasesAreLocks'
    <2>1. CASE Locked({"shared", "exclusive"})
        BY <1>6, <1>7, <2>1 DEF LockExclusive
    <2>2. CASE ~Locked({"shared", "exclusive"})
        <3>1. \A z \in Procs : \A g \in Handles : leases[z][g] = None
            BY <1>0, <1>a, <2>2 DEF Locked, LeasesAreLocks
        <3>2. leases' = leases
            BY <1>7 DEF LockExclusive
        <3> QED BY <3>1, <3>2 DEF LeasesAreLocks
    <2> QED BY <2>1, <2>2
<1>8. ASSUME NEW x \in Procs, EndCleanup(x) PROVE LeasesAreLocks'
    BY <1>6, <1>8 DEF EndCleanup
<1>9. ASSUME UNCHANGED <<locks, leases>> PROVE LeasesAreLocks'
    BY <1>0, <1>9 DEF LeasesAreLocks
<1> QED
    BY <1>1, <1>2, <1>3, <1>4, <1>5, <1>7, <1>8, <1>9
    DEF SNext, RemoveFile, NamePath, ReadShard, StoreFile, ReplaceShard, svars

\* A cleanup has its descriptor to itself: what it opened, nobody else's cleanup
\* opened, and a fork copies the descriptor and not the cleanup.
LEMMA CleanersStep == FilesInv /\ [SNext]_svars => CleanersHold'
<1> SUFFICES ASSUME FilesInv, [SNext]_svars PROVE CleanersHold'
    OBVIOUS
<1>0. FilesTypeOK /\ LocksExclude /\ LeasesAreLocks /\ CleanersHold
    BY DEF FilesInv
<1>1. ASSUME NEW x \in Procs, NEW h \in Handles, Acquire(x, h) PROVE CleanersHold'
    <2>1. PICK d \in Fds : FdOpened(d, x, "shared")
        BY <1>0, <1>1, AcquireChanges
    <2>2. cleaner' = cleaner
        BY <1>0, <1>1, AcquireChanges
    <2> QED BY <1>0, <2>1, <2>2 DEF CleanersHold, FdOpened
<1>2. ASSUME NEW x \in Procs, NEW h \in Handles, Release(x, h) \/ ReleaseInherited(x, h)
      PROVE  CleanersHold'
    <2>1. FdClosed(leases[x][h].fd, x) /\ cleaner' = cleaner
        BY <1>2, ReleaseChanges
    <2>2. locks[leases[x][h].fd].mode = "shared"
        BY <1>0, <1>2 DEF LeasesAreLocks, Release, ReleaseInherited
    <2> QED BY <1>0, <2>1, <2>2 DEF CleanersHold, FdClosed
<1>3. ASSUME NEW x \in Procs, NEW y \in Procs, Fork(x, y) PROVE CleanersHold'
    <2>1. /\ cleaner' = cleaner
          /\ \A d \in Fds : /\ locks'[d].mode = locks[d].mode
                            /\ locks[d].holders \subseteq locks'[d].holders
        BY <1>3, ForkChanges
    <2> QED BY <1>0, <2>1 DEF CleanersHold
<1>4. ASSUME NEW x \in Procs, Exit(x) PROVE CleanersHold'
    <2>1. /\ CleanerSet(x, Idle)
          /\ \A d \in Fds :
                /\ locks'[d].holders = locks[d].holders \ {x}
                /\ locks'[d].mode = IF locks[d].holders = {x} THEN "none" ELSE locks[d].mode
        BY <1>4, ExitChanges
    <2> QED BY <1>0, <2>1 DEF CleanersHold, CleanerSet, Idle
<1>5. ASSUME NEW x \in Procs, AskRegistry(x) PROVE CleanersHold'
    <2>1. CASE UNCHANGED <<locks, cleaner>>
        BY <1>0, <2>1 DEF CleanersHold
    <2>2. ASSUME NEW d \in Fds, FdOpened(d, x, "none"), CleanerSet(x, [pc |-> "asked", fd |-> d])
          PROVE  CleanersHold'
        BY <1>0, <2>2 DEF CleanersHold, FdOpened, CleanerSet
    <2> QED BY <1>5, <2>1, <2>2, AskChanges
<1>6. ASSUME NEW x \in Procs, cleaner[x].pc # "idle", CloseLock(x) PROVE CleanersHold'
    <2>1. /\ cleaner[x].fd \in Fds
          /\ FdClosed(cleaner[x].fd, x) /\ CleanerSet(x, Idle)
        BY <1>6, CloseLockChanges
    <2> QED BY <1>0, <1>6, <2>1 DEF CleanersHold, FdClosed, CleanerSet, Idle
<1>7. ASSUME NEW x \in Procs, LockExclusive(x) PROVE CleanersHold'
    <2>1. CASE Locked({"shared", "exclusive"})
        BY <1>6, <1>7, <2>1 DEF LockExclusive
    <2>2. CASE ~Locked({"shared", "exclusive"})
        <3>1. /\ cleaner[x].pc = "asked" /\ cleaner[x].fd \in Fds
              /\ \A d \in Fds : locks[d].mode = "none" /\ locks'[d].holders = locks[d].holders
              /\ locks'[cleaner[x].fd].mode = "exclusive"
              /\ \A e \in Fds : e # cleaner[x].fd => locks'[e].mode = "none"
              /\ CleanerSet(x, [pc |-> "locked", fd |-> cleaner[x].fd])
            BY <1>7, <2>2, LockChanges
        <3>2. \A z \in Procs : cleaner[z].pc # "idle" => cleaner[z].pc = "asked"
            BY <1>0, <3>1 DEF CleanersHold
        <3> QED BY <1>0, <3>1, <3>2 DEF CleanersHold, CleanerSet
    <2> QED BY <2>1, <2>2
<1>8. ASSUME NEW x \in Procs, EndCleanup(x) PROVE CleanersHold'
    BY <1>6, <1>8 DEF EndCleanup
<1>9. ASSUME UNCHANGED <<locks, cleaner>> PROVE CleanersHold'
    BY <1>0, <1>9 DEF CleanersHold
<1> QED
    BY <1>1, <1>2, <1>3, <1>4, <1>5, <1>7, <1>8, <1>9
    DEF SNext, RemoveFile, NamePath, ReadShard, StoreFile, ReplaceShard, svars

-----------------------------------------------------------------------------
\* A process that has a lease in a step's second state had it in the first one,
\* but for the lease that Acquire takes and those that a fork passes on; one that
\* has no lease any more let its last one go, or is gone.
LEMMA HeldAfter ==
    ASSUME FilesInv, [SNext]_svars, NEW z \in Procs, Held(z) # {}, Held(z)' = {}
    PROVE  \/ \E h \in Handles :
                 Held(z) = {h} /\ LetGo(z, h) /\ UNCHANGED <<shard, files>>
           \/ Exit(z)
<1>0. \A y \in Procs : /\ Held(y) = {h \in Handles : leases[y][h] # None}
                       /\ Held(y)' = {h \in Handles : leases'[y][h] # None}
    BY DEF Held
<1>1. ASSUME NEW x \in Procs, NEW h \in Handles, Acquire(x, h) PROVE FALSE
    <2>1. PICK d \in Fds : LeaseSet(x, h, [fd |-> d, pid |-> x])
        BY <1>1, AcquireChanges DEF FilesInv
    <2>2. leases[x][h] = None
        BY <1>1 DEF Acquire
    <2> QED BY <1>0, <2>1, <2>2 DEF LeaseSet
<1>2. ASSUME NEW x \in Procs, NEW h \in Handles, Release(x, h) \/ ReleaseInherited(x, h)
      PROVE  \E g \in Handles : Held(z) = {g} /\ LetGo(z, g) /\ UNCHANGED <<shard, files>>
    <2>1. LeaseSet(x, h, None) /\ LetGo(x, h) /\ UNCHANGED <<shard, files>>
        BY <1>2, ReleaseChanges
    <2>2. z = x /\ Held(z) = {h}
        BY <1>0, <2>1 DEF LeaseSet
    <2> QED BY <2>1, <2>2
<1>3. ASSUME NEW x \in Procs, NEW y \in Procs, Fork(x, y) PROVE FALSE
    <2>1. \A g \in Handles : leases[y][g] = None
        BY <1>3 DEF Fork, FilesInv, LocksExclude, LeasesAreLocks, Lease
    <2>2. \A v \in Procs : v # y => leases'[v] = leases[v]
        BY <1>3, ForkChanges
    <2> QED BY <1>0, <2>1, <2>2
<1>4. ASSUME NEW x \in Procs, Exit(x) PROVE Exit(z)
    <2>1. \A v \in Procs : v # x => leases'[v] = leases[v]
        BY <1>4, ExitChanges
    <2>2. z = x
        BY <1>0, <2>1
    <2> QED BY <1>4, <2>2
<1>5. ASSUME leases' = leases PROVE FALSE
    BY <1>0, <1>5
<1> QED
    BY <1>1, <1>2, <1>3, <1>4, <1>5
    DEF SNext, AskRegistry, LockExclusive, RemoveFile, EndCleanup, NamePath, ReadShard,
        StoreFile, ReplaceShard, svars

\* A lease that Acquire takes or a fork passes on does not go away with the step.
LEMMA ReadersStep == FilesInv /\ [SNext]_svars => ReadersAreBehind'
<1> SUFFICES ASSUME FilesInv, [SNext]_svars, NEW z \in Procs
             PROVE  /\ reader'[z].pc = "idle" => reader'[z] = NoRead
                    /\ reader'[z].pc # "idle" =>
                          /\ reader'[z].target \in Shards /\ reader'[z].target <= shard'
                          /\ reader'[z].sure => Held(z)' # {}
                    /\ reader'[z].pc = "read" =>
                          /\ reader'[z].data \in Shards
                          /\ reader'[z].target <= reader'[z].data /\ reader'[z].data <= shard'
    BY DEF ReadersAreBehind
<1> DEFINE Good == /\ reader'[z].pc = "idle" => reader'[z] = NoRead
                   /\ reader'[z].pc # "idle" =>
                         /\ reader'[z].target \in Shards /\ reader'[z].target <= shard'
                         /\ reader'[z].sure => Held(z)' # {}
                   /\ reader'[z].pc = "read" =>
                         /\ reader'[z].data \in Shards
                         /\ reader'[z].target <= reader'[z].data /\ reader'[z].data <= shard'
<1>0. /\ FilesTypeOK
      /\ reader[z].pc = "idle" => reader[z] = NoRead
      /\ reader[z].pc # "idle" =>
            /\ reader[z].target \in Shards /\ reader[z].target <= shard
            /\ reader[z].sure => Held(z) # {}
      /\ reader[z].pc = "read" =>
            /\ reader[z].data \in Shards
            /\ reader[z].target <= reader[z].data /\ reader[z].data <= shard
      /\ shard \in Shards /\ Shards \subseteq Nat
      /\ NoRead.pc = "idle"
    BY DEF FilesInv, FilesTypeOK, ReadersAreBehind, Shards, NoRead
<1>1. ASSUME reader'[z] = reader[z], shard' \in Shards, shard <= shard',
             Held(z) # {} => Held(z)' # {}
      PROVE  Good
    BY <1>0, <1>1
<1>2. ASSUME reader'[z] = NoRead PROVE Good
    BY <1>0, <1>2
<1>3. ASSUME NEW h \in Handles, Held(z) = {h}, LetGo(z, h), shard' = shard PROVE Good
    <2>1. CASE reader[z] = NoRead
        BY <1>0, <1>2, <1>3, <2>1, LetGoKeeps
    <2>2. CASE reader[z] # NoRead
        <3>1. /\ reader'[z].pc = reader[z].pc /\ reader'[z].target = reader[z].target
              /\ reader'[z].data = reader[z].data /\ ~reader'[z].sure
            BY <1>0, <1>3, <2>2, LetGoKeeps
        <3> QED BY <1>0, <1>3, <2>2, <3>1
    <2> QED BY <2>1, <2>2
<1>4. ASSUME NEW x \in Procs, NEW h \in Handles, Release(x, h) \/ ReleaseInherited(x, h)
      PROVE  Good
    <2>1. LetGo(x, h) /\ shard' = shard
        BY <1>4, ReleaseChanges
    <2>2. CASE Held(z) # {} /\ Held(z)' = {}
        <3>1. \/ \E g \in Handles : Held(z) = {g} /\ LetGo(z, g)
              \/ Exit(z)
            BY <2>2, HeldAfter
        <3>2. ASSUME Exit(z) PROVE reader'[z] = NoRead
            BY <1>0, <3>2 DEF Exit, FilesTypeOK
        <3> QED BY <1>2, <1>3, <2>1, <3>1, <3>2
    <2>3. CASE ~(Held(z) # {} /\ Held(z)' = {})
        <3>1. /\ reader'[z].pc = reader[z].pc /\ reader'[z].target = reader[z].target
              /\ reader'[z].data = reader[z].data /\ (reader'[z].sure => reader[z].sure)
              /\ reader[z] = NoRead => reader'[z] = NoRead
            BY <1>0, <2>1, LetGoKeeps
        <3> QED BY <1>0, <2>1, <2>3, <3>1
    <2> QED BY <2>2, <2>3
<1>5. ASSUME NEW x \in Procs, Exit(x) PROVE Good
    <2>1. CASE x = z
        BY <1>0, <1>2, <1>5, <2>1 DEF Exit, FilesTypeOK
    <2>2. CASE x # z
        <3>1. reader'[z] = reader[z] /\ leases'[z] = leases[z] /\ shard' = shard
            BY <1>0, <1>5, <2>2 DEF Exit, FilesTypeOK
        <3> QED BY <1>0, <1>1, <3>1 DEF Held
    <2> QED BY <2>1, <2>2
<1>6. ASSUME NEW x \in Procs, NamePath(x) PROVE Good
    <2>1. reader[x] = NoRead /\ leases[x]["dataset"] # None /\ UNCHANGED <<leases, shard>>
        BY <1>6 DEF NamePath
    <2>2. CASE x = z /\ files[shard] = 0
        <3>1. reader' = [reader EXCEPT ![x].pc = "named", ![x].target = shard]
            BY <1>6, <2>2 DEF NamePath
        <3>2. reader'[z].pc = "named" /\ reader'[z].target = shard
            BY <1>0, <2>2, <3>1 DEF FilesTypeOK, ReaderState
        <3>3. Held(z)' # {}
            BY <2>1, <2>2 DEF Held, Handles
        <3> QED BY <1>0, <2>1, <3>2, <3>3
    <2>3. CASE x = z /\ files[shard] # 0
        BY <1>0, <1>2, <1>6, <2>3 DEF NamePath, Serve, FilesTypeOK
    <2>4. CASE x # z
        <3>1. reader'[z] = reader[z]
            BY <1>0, <1>6, <2>4 DEF NamePath, Serve, FilesTypeOK
        <3> QED BY <1>0, <1>1, <2>1, <3>1 DEF Held
    <2> QED BY <2>2, <2>3, <2>4
<1>7. ASSUME NEW x \in Procs, ReadShard(x) PROVE Good
    <2>1. /\ reader[x].pc = "named" /\ UNCHANGED <<leases, shard>>
          /\ reader' = [reader EXCEPT ![x].pc = "read", ![x].data = shard]
        BY <1>7 DEF ReadShard
    <2>2. CASE x = z
        <3>1. /\ reader'[z].pc = "read" /\ reader'[z].data = shard
              /\ reader'[z].target = reader[z].target /\ reader'[z].sure = reader[z].sure
            BY <1>0, <2>1, <2>2 DEF FilesTypeOK, ReaderState
        <3>2. Held(z)' = Held(z)
            BY <2>1 DEF Held
        <3> QED BY <1>0, <2>1, <2>2, <3>1, <3>2
    <2>3. CASE x # z
        <3>1. reader'[z] = reader[z]
            BY <1>0, <2>1, <2>3 DEF FilesTypeOK
        <3> QED BY <1>0, <1>1, <2>1, <3>1 DEF Held
    <2> QED BY <2>2, <2>3
<1>8. ASSUME NEW x \in Procs, StoreFile(x) PROVE Good
    <2>1. CASE x = z
        BY <1>0, <1>2, <1>8, <2>1 DEF StoreFile, Serve, FilesTypeOK
    <2>2. CASE x # z
        <3>1. reader'[z] = reader[z] /\ UNCHANGED <<leases, shard>>
            BY <1>0, <1>8, <2>2 DEF StoreFile, Serve, FilesTypeOK
        <3> QED BY <1>0, <1>1, <3>1 DEF Held
    <2> QED BY <2>1, <2>2
<1>9. ASSUME UNCHANGED <<reader, shard>> PROVE Good
    <2>1. CASE Held(z) # {} /\ Held(z)' = {}
        <3>1. \/ \E g \in Handles : Held(z) = {g} /\ LetGo(z, g)
              \/ Exit(z)
            BY <2>1, HeldAfter
        <3> QED BY <1>3, <1>5, <1>9, <3>1
    <2>2. CASE ~(Held(z) # {} /\ Held(z)' = {})
        BY <1>0, <1>1, <1>9, <2>2
    <2> QED BY <2>1, <2>2
<1>10. ASSUME ReplaceShard PROVE Good
    <2>1. shard' = shard + 1 /\ reader' = reader /\ leases' = leases
        BY <1>10 DEF ReplaceShard
    <2>2. shard' \in Shards
        BY FilesTypeStep DEF FilesTypeOK
    <2> QED BY <1>0, <1>1, <2>1, <2>2 DEF Held
<1> HIDE DEF Good
<1>11. Good
    BY <1>4, <1>5, <1>6, <1>7, <1>8, <1>9, <1>10
    DEF SNext, Acquire, Fork, AskRegistry, LockExclusive, RemoveFile, EndCleanup, svars
<1> QED BY <1>11 DEF Good

-----------------------------------------------------------------------------
\* Files are removed only under the exclusive lock, and then no process has a
\* lease; a file is stored only under the name of the version that was read.
LEMMA FilesStep == FilesInv /\ [SNext]_svars => FilesAreNamed' /\ KeptAreLeased'
<1> SUFFICES ASSUME FilesInv, [SNext]_svars PROVE FilesAreNamed' /\ KeptAreLeased'
    OBVIOUS
<1>0. /\ FilesTypeOK /\ LeasesAreLocks /\ CleanersHold /\ LocksExclude
      /\ FilesAreNamed /\ KeptAreLeased
    BY DEF FilesInv
<1>a. shard \in Shards /\ Shards \subseteq Nat
    BY <1>0 DEF FilesTypeOK, Shards
<1>1. ASSUME UNCHANGED files,
             \A z \in Procs : \/ kept'[z] = {}
                              \/ kept'[z] = kept[z] /\ (Held(z) # {} => Held(z)' # {})
      PROVE  FilesAreNamed' /\ KeptAreLeased'
    BY <1>0, <1>1 DEF FilesAreNamed, KeptAreLeased
<1>2. ASSUME NEW x \in Procs, NEW h \in Handles, Release(x, h) \/ ReleaseInherited(x, h)
      PROVE  FilesAreNamed' /\ KeptAreLeased'
    <2>1. LetGo(x, h) /\ UNCHANGED files
        BY <1>2, ReleaseChanges
    <2>2. ASSUME NEW z \in Procs
          PROVE  \/ kept'[z] = {}
                 \/ kept'[z] = kept[z] /\ (Held(z) # {} => Held(z)' # {})
        <3>1. kept'[z] = kept[z] \/ kept'[z] = {}
            BY <1>0, <2>1, LetGoKeeps
        <3>2. CASE Held(z) # {} /\ Held(z)' = {}
            <4>1. \/ \E g \in Handles : Held(z) = {g} /\ LetGo(z, g)
                  \/ Exit(z)
                BY <3>2, HeldAfter
            <4>2. ASSUME Exit(z) PROVE kept'[z] = {}
                BY <1>0, <4>2 DEF Exit, FilesTypeOK
            <4> QED BY <1>0, <4>1, <4>2, LetGoKeeps
        <3> QED BY <3>1, <3>2
    <2> QED BY <1>1, <2>1, <2>2
<1>3. ASSUME NEW x \in Procs, NEW y \in Procs, Fork(x, y)
      PROVE  FilesAreNamed' /\ KeptAreLeased'
    <2>1. /\ files' = files /\ y \notin alive
          /\ kept'[y] = kept[x] /\ leases'[y] = leases[x]
          /\ \A z \in Procs : z # y => kept'[z] = kept[z] /\ leases'[z] = leases[z]
        BY <1>0, <1>3 DEF Fork, FilesTypeOK
    <2>2. /\ Held(y)' = Held(x)
          /\ \A z \in Procs : z # y => Held(z)' = Held(z)
        BY <2>1 DEF Held
    <2> QED BY <1>0, <2>1, <2>2 DEF FilesAreNamed, KeptAreLeased
<1>4. ASSUME NEW x \in Procs, Exit(x) PROVE FilesAreNamed' /\ KeptAreLeased'
    <2>1. /\ files' = files /\ kept'[x] = {}
          /\ \A z \in Procs : z # x => kept'[z] = kept[z] /\ leases'[z] = leases[z]
        BY <1>0, <1>4 DEF Exit, FilesTypeOK
    <2>2. \A z \in Procs : z # x => Held(z)' = Held(z)
        BY <2>1 DEF Held
    <2> QED BY <1>1, <2>1, <2>2
<1>5. ASSUME NEW x \in Procs, RemoveFile(x) PROVE FilesAreNamed' /\ KeptAreLeased'
    <2>1. /\ cleaner[x].pc = "locked" /\ UNCHANGED <<kept, leases>>
          /\ \A v \in Shards : files'[v] = files[v] \/ files'[v] = 0
        BY <1>0, <1>5 DEF RemoveFile, FilesTypeOK
    <2>2. cleaner[x].fd \in Fds /\ locks[cleaner[x].fd].mode = "exclusive"
        BY <1>0, <2>1 DEF CleanersHold
    <2>3. \A z \in Procs : \A h \in Handles : leases[z][h] = None
        BY <1>0, <2>2 DEF LocksExclude, LeasesAreLocks, Lease
    <2>4. \A z \in Procs : kept[z] = {}
        BY <1>0, <2>3 DEF KeptAreLeased, Held
    <2> QED BY <1>0, <2>1, <2>4 DEF FilesAreNamed, KeptAreLeased
<1>6. ASSUME NEW x \in Procs, NEW v \in Shards, Serve(x, v), files'[v] = v,
             \A w \in Shards : w # v => files'[w] = files[w],
             files[v] \in {0, files'[v]},
             reader[x].sure => Held(x) # {}, leases' = leases
      PROVE  FilesAreNamed' /\ KeptAreLeased'
    <2>1. /\ \A z \in Procs : z # x => kept'[z] = kept[z]
          /\ kept'[x] = IF reader[x].sure THEN kept[x] \cup {v} ELSE kept[x]
        BY <1>0, <1>6 DEF Serve, FilesTypeOK
    <2>2. \A z \in Procs : Held(z)' = Held(z) /\ kept[z] \subseteq Shards
        BY <1>0, <1>6 DEF Held, FilesTypeOK
    <2>3. \A w \in Shards : files[w] = w => files'[w] = w
        BY <1>6
    <2>4. FilesAreNamed'
        BY <1>0, <1>6 DEF FilesAreNamed
    <2>5. KeptAreLeased'
        BY <1>0, <1>6, <2>1, <2>2, <2>3 DEF KeptAreLeased
    <2> QED BY <2>4, <2>5
<1>7. ASSUME NEW x \in Procs, NamePath(x) PROVE FilesAreNamed' /\ KeptAreLeased'
    <2>1. /\ reader[x] = NoRead /\ leases[x]["dataset"] # None
          /\ UNCHANGED <<leases, files>>
        BY <1>7 DEF NamePath
    <2>2. CASE files[shard] # 0
        <3>1. Serve(x, shard) /\ files[shard] = shard
            BY <1>0, <1>7, <1>a, <2>2 DEF NamePath, FilesAreNamed
        <3>2. Held(x) # {}
            BY <2>1 DEF Held, Handles
        <3> QED BY <1>6, <1>a, <2>1, <3>1, <3>2
    <2>3. CASE files[shard] = 0
        <3>1. kept' = kept
            BY <1>7, <2>3 DEF NamePath
        <3> QED BY <1>1, <2>1, <3>1 DEF Held
    <2> QED BY <2>2, <2>3
<1>8. ASSUME NEW x \in Procs, StoreFile(x) PROVE FilesAreNamed' /\ KeptAreLeased'
    <2>1. reader[x].pc = "read" /\ leases' = leases
        BY <1>8 DEF StoreFile
    <2>2. CASE shard = reader[x].target
        <3>1. reader[x].data = shard
            <4>1. /\ reader[x].target \in Nat /\ reader[x].data \in Nat
                  /\ reader[x].target <= reader[x].data /\ reader[x].data <= shard
                BY <1>a, <2>1 DEF FilesInv, ReadersAreBehind
            <4> QED BY <1>a, <2>2, <4>1
        <3>2. Serve(x, shard) /\ files' = [files EXCEPT ![shard] = shard]
            BY <1>8, <2>2, <3>1 DEF StoreFile
        <3>3. /\ files'[shard] = shard
              /\ \A w \in Shards : w # shard => files'[w] = files[w]
              /\ files[shard] \in {0, shard}
            BY <1>0, <1>a, <3>2 DEF FilesTypeOK, FilesAreNamed
        <3>4. reader[x].sure => Held(x) # {}
            BY <2>1 DEF FilesInv, ReadersAreBehind
        <3> QED BY <1>6, <1>a, <2>1, <3>2, <3>3, <3>4
    <2>3. CASE shard # reader[x].target
        BY <1>1, <1>8, <2>1, <2>3 DEF StoreFile, Held
    <2> QED BY <2>2, <2>3
<1>9. ASSUME NEW x \in Procs, NEW h \in Handles, Acquire(x, h)
      PROVE  FilesAreNamed' /\ KeptAreLeased'
    <2>1. UNCHANGED <<files, kept>>
        BY <1>9 DEF Acquire
    <2>2. PICK d \in Fds : LeaseSet(x, h, [fd |-> d, pid |-> x])
        BY <1>0, <1>9, AcquireChanges
    <2>3. leases[x][h] = None
        BY <1>9 DEF Acquire
    <2>4. \A z \in Procs : Held(z) # {} => Held(z)' # {}
        BY <2>2, <2>3 DEF LeaseSet, Held
    <2> QED BY <1>1, <2>1, <2>4
<1>10. ASSUME UNCHANGED <<files, kept, leases>> PROVE FilesAreNamed' /\ KeptAreLeased'
    BY <1>1, <1>10 DEF Held
<1> QED
    BY <1>2, <1>3, <1>4, <1>5, <1>7, <1>8, <1>9, <1>10
    DEF SNext, AskRegistry, LockExclusive, EndCleanup, ReadShard, ReplaceShard, svars

-----------------------------------------------------------------------------
\* The invariant behind PathsHold: flock's rules, a lock of its own behind every
\* lease, a cleanup that is alone under its lock, and an extraction that never
\* stores what it read under another version's name.
THEOREM FilesSafe == SSpec => []FilesInv
<1>1. FilesInv /\ [SNext]_svars => FilesInv'
    BY FilesTypeStep, LocksStep, LeasesStep, CleanersStep, ReadersStep, FilesStep DEF FilesInv
<1> QED BY <1>1, FilesInit, PTL DEF SSpec

\* A path stays what it was handed out as, as long as its process has a lease:
\* cleanup_store_files never removes it, whatever forks, ends and replacements of
\* the shard come between.
THEOREM PathsSafe == SSpec => []PathsHold
<1>1. FilesInv => PathsHold
    BY DEF FilesInv, FilesTypeOK, KeptAreLeased, PathsHold
<1> QED BY <1>1, FilesSafe, PTL
-----------------------------------------------------------------------------

\* The reader on its own: the runs interleave it with nothing else.
RSpec == RInit /\ [][RNext]_rvars

Versions == 1 .. Len(Stores)

RequestFields == {"pc", "wanted", "since", "left", "read", "shard", "opened"}
OpenedFields == {"key", "fd", "stat"}
ArchiveFields == {"key", "fd", "stat", "verified", "complete", "members"}
Holding == {"opened", "sidecar"}
InArchive == {"open", "opened", "sidecar", "member", "bytes"}

IsList(s) == s \in Seq(ToSet(s))

\* What a call of read_store_dataset has seen is of the store it began with, unless
\* the store has changed since, which it then finds out.
CallOpens(req, marks, last) ==
    /\ req.pc \in {"layout", "validate", "restat"} => req.stat \in 1 .. last
    /\ req.pc \in {"validate", "restat"} =>
        /\ DOMAIN req = {"pc", "count", "preload", "stat", "sizes"}
        /\ req.stat = last => req.sizes = At(last).sizes
    /\ req.pc = "restat" => [count |-> req.count, stat |-> req.stat] \in marks

MarkHolds(m) ==
    m.stat \in Versions /\ IndexIsValid(At(m.stat)) /\ Len(At(m.stat).samples) = m.count

\* A dataset that is there, or that a call reads or preloads.
Begun(r) == dataset[r] # Nothing \/ request[r].pc # "idle" \/ opening[r].pc \in {"load", "cover"}

DatasetHolds(ds) ==
    /\ {"stat", "sizes", "count"} \subseteq DOMAIN ds
    /\ ds.stat \in Versions
    /\ ds.sizes = At(ds.stat).sizes
    /\ ds.count = Len(At(ds.stat).samples)
    /\ IndexIsValid(At(ds.stat))

OpeningInv ==
    /\ store \in Versions
    /\ DOMAIN opening = Readers /\ DOMAIN dataset = Readers
    /\ \A m \in markers : MarkHolds(m)
    /\ \A r \in Readers :
        /\ CallOpens(opening[r], markers, store)
        /\ Begun(r) => DatasetHolds(dataset[r])

\* A value that has a payload has its own, from a store of the time of the request.
Right(v, since, last) == v.key # Nothing => v.key = v.index /\ v.store \in since .. last

CallHolds(req, last) ==
    /\ DOMAIN req = RequestFields
    /\ req.pc # "idle" =>
        /\ req.since \in 1 .. last
        /\ req.left \in SUBSET Nat /\ req.left # {}
        /\ ToSet(req.wanted) \subseteq req.left \cup {v.index : v \in req.read}
        /\ \A v \in req.read : Right(v, req.since, last)

\* What is known of an open archive is true of the shard it was opened on.
ArchiveHolds(a, last) ==
    /\ DOMAIN a = ArchiveFields
    /\ a.stat \in 1 .. last
    /\ a.fd \in Descriptors
    /\ a.complete => a.members = MembersOf(a)
    /\ \A key \in a.verified : key \in DOMAIN a.members /\ HeaderIs(a, key)

\* The archive is of the shard that the call needs, as it was during the call.
Serves(a, req, last) ==
    /\ a.key = req.shard
    /\ a.stat \in req.since .. last
    /\ a.fd \in Descriptors
    /\ a.key \in DOMAIN At(a.stat).shards

Newest(cache) == cache.opened[Len(cache.opened)]

CacheSound(cache, last) ==
    /\ DOMAIN cache = {"pid", "opened"}
    /\ IsList(cache.opened)
    /\ \A a \in ToSet(cache.opened) : ArchiveHolds(a, last)

\* Archives are read by the process that opened them, at the member that is wanted.
CacheHolds(r, req, cache, offs, last) ==
    /\ CacheSound(cache, last)
    /\ req.pc \in InArchive => cache.pid = r
    /\ req.pc \in Holding => DOMAIN req.opened = OpenedFields /\ Serves(req.opened, req, last)
    /\ req.pc \in {"member", "bytes"} => cache.opened # <<>> /\ Serves(Newest(cache), req, last)
    /\ req.pc = "bytes" =>
        At(Newest(cache).stat).shards[Newest(cache).key][offs[Newest(cache).fd]] = Min(req.left)

\* The open file descriptions of a reader; a forked one has those of its parent,
\* and whose they are is written beside them.
FdsOf(req, cache) ==
    {a.fd : a \in ToSet(cache.opened)} \cup (IF req.pc \in Holding THEN {req.opened.fd} ELSE {})

Apart ==
    \A r, s \in Readers :
        archives[r].pid # archives[s].pid =>
            FdsOf(request[r], archives[r]) \cap FdsOf(request[s], archives[s]) = {}

AnswerHolds(a, last) ==
    /\ a.since \in 1 .. last
    /\ a.error = "none" =>
        \A k \in DOMAIN a.wanted :
            a.values[k].index = a.wanted[k] /\ Right(a.values[k], a.since, last)
    /\ a.error = "missing" =>
        \E v \in a.since .. last :
            /\ a.last.shard \in DOMAIN At(v).shards
            /\ a.last.index \notin ToSet(At(v).shards[a.last.shard])

ReadingInv ==
    /\ store \in Versions
    /\ DOMAIN request = Readers /\ DOMAIN archives = Readers /\ DOMAIN answers = Readers
    /\ DOMAIN offsets = Descriptors
    /\ \A r \in Readers :
        /\ CallHolds(request[r], store)
        /\ CacheHolds(r, request[r], archives[r], offsets, store)
        /\ IsList(answers[r]) /\ \A a \in ToSet(answers[r]) : AnswerHolds(a, store)
    /\ Apart

ReaderInv == OpeningInv /\ ReadingInv

-----------------------------------------------------------------------------
\* A set of naturals has a least member.
LEMMA LeastMember ==
    ASSUME NEW S, S \subseteq Nat, S # {}
    PROVE  Min(S) \in S
<1> DEFINE R == OpToRel(<, Nat)
<1>1. IsWellFoundedOn(R, Nat)
    BY NatLessThanWellFounded
<1>2. \E x \in S : \A y \in S : <<y, x>> \notin R
    BY <1>1, WFMin
<1>3. \A x, y \in Nat : x < y => <<x, y>> \in R
    BY DEF OpToRel
<1> HIDE DEF R
<1>4. PICK x \in S : \A y \in S : <<y, x>> \notin R
    BY <1>2
<1>5. x \in Nat /\ \A y \in S : y \in Nat
    OBVIOUS
<1>6. ASSUME NEW y \in S PROVE x <= y
  <2>1. <<y, x>> \notin R
      BY <1>4
  <2>2. ~(y < x)
      BY <1>3, <1>5, <2>1, Zenon
  <2> QED BY <1>5, <2>2
<1> QED BY <1>6 DEF Min

\* Lists: appending, cutting and replacing keep what is known of their members.
LEMMA ListAppend ==
    ASSUME NEW s, IsList(s), NEW x
    PROVE  /\ IsList(Append(s, x))
           /\ ToSet(Append(s, x)) = ToSet(s) \cup {x}
           /\ Len(Append(s, x)) = Len(s) + 1
           /\ Append(s, x)[Len(s) + 1] = x
<1> DEFINE T == ToSet(s) \cup {x}
           t == Append(s, x)
<1>1. s \in Seq(T)
  <2>1. /\ Len(s) \in Nat
        /\ s = [i \in 1 .. Len(s) |-> s[i]]
        /\ \A i \in 1 .. Len(s) : s[i] \in ToSet(s)
      BY DEF IsList
  <2> QED BY <2>1, IsASeq
<1>2. /\ t \in Seq(T)
      /\ Len(t) = Len(s) + 1
      /\ \A i \in 1 .. Len(s) : t[i] = s[i]
      /\ t[Len(s) + 1] = x
      /\ Len(s) \in Nat
    BY <1>1
<1>3. ToSet(t) = T
  <2>1. DOMAIN t = 1 .. Len(s) + 1 /\ DOMAIN s = 1 .. Len(s)
      BY <1>1, <1>2
  <2>2. ASSUME NEW y \in T PROVE y \in ToSet(t)
      BY <2>1, <2>2, <1>2 DEF ToSet
  <2>3. ASSUME NEW y \in ToSet(t) PROVE y \in T
      BY <2>1, <2>3, <1>2 DEF ToSet
  <2> QED BY <2>2, <2>3
<1> HIDE DEF t, T
<1>4. IsList(t)
    BY <1>2, <1>3 DEF IsList
<1> QED BY <1>2, <1>3, <1>4 DEF t, T

LEMMA ListIs ==
    ASSUME NEW s, NEW S, s \in Seq(S)
    PROVE  IsList(s) /\ ToSet(s) \subseteq S /\ DOMAIN s = 1 .. Len(s) /\ Len(s) \in Nat
<1>1. /\ Len(s) \in Nat
      /\ DOMAIN s = 1 .. Len(s)
      /\ s = [i \in 1 .. Len(s) |-> s[i]]
    OBVIOUS
<1>2. \A i \in 1 .. Len(s) : s[i] \in ToSet(s) /\ s[i] \in S
    BY <1>1 DEF ToSet
<1>3. s \in Seq(ToSet(s))
    BY <1>1, <1>2, IsASeq
<1> QED BY <1>1, <1>2, <1>3 DEF IsList, ToSet

LEMMA ListCut ==
    ASSUME NEW s, IsList(s), NEW m \in 1 .. Len(s) + 1, NEW n \in 0 .. Len(s)
    PROVE  /\ IsList(SubSeq(s, m, n)) /\ ToSet(SubSeq(s, m, n)) \subseteq ToSet(s)
           /\ m <= n => SubSeq(s, m, n) # <<>> /\ SubSeq(s, m, n)[Len(SubSeq(s, m, n))] = s[n]
<1>1. s \in Seq(ToSet(s)) /\ Len(s) \in Nat
    BY DEF IsList
<1>2. SubSeq(s, m, n) \in Seq(ToSet(s))
    BY <1>1, SubSeqProperties
<1>3. m <= n => /\ Len(SubSeq(s, m, n)) = n - m + 1
                /\ SubSeq(s, m, n)[n - m + 1] = s[m + (n - m + 1) - 1]
                /\ m + (n - m + 1) - 1 = n
    BY <1>1, SubSeqProperties
<1> DEFINE t == SubSeq(s, m, n)
<1>4. IsList(t) /\ ToSet(t) \subseteq ToSet(s)
    BY <1>2, ListIs
<1>5. m <= n => t # <<>> /\ t[Len(t)] = s[n]
    BY <1>1, <1>3
<1> QED BY <1>4, <1>5

LEMMA ListReplace ==
    ASSUME NEW s, IsList(s), s # <<>>, NEW x
    PROVE  LET t == [s EXCEPT ![Len(s)] = x]
           IN IsList(t) /\ ToSet(t) \subseteq ToSet(s) \cup {x} /\ t # <<>> /\ t[Len(t)] = x
<1> DEFINE t == [s EXCEPT ![Len(s)] = x]
           S == ToSet(s) \cup {x}
<1>1. s \in Seq(ToSet(s)) /\ Len(s) \in Nat /\ Len(s) >= 1 /\ DOMAIN s = 1 .. Len(s)
    BY DEF IsList
<1>2. \A i \in 1 .. Len(s) : s[i] \in ToSet(s)
    BY <1>1 DEF ToSet
<1>3. t = [i \in 1 .. Len(s) |-> IF i = Len(s) THEN x ELSE s[i]]
    BY <1>1
<1>4. \A i \in 1 .. Len(s) : t[i] \in S
    BY <1>2, <1>3
<1>5. t \in Seq(S) /\ Len(t) = Len(s)
    BY <1>1, <1>3, <1>4, IsASeq
<1>6. t[Len(t)] = x
    BY <1>1, <1>3, <1>5
<1> HIDE DEF t
<1>7. IsList(t) /\ ToSet(t) \subseteq S
    BY <1>5, ListIs
<1>8. t # <<>>
    BY <1>1, <1>5
<1> QED BY <1>6, <1>7, <1>8 DEF t

\* Caches: the entry that is dropped, after or found.
LEMMA EntryIsThere ==
    ASSUME NEW lru, IsList(lru), NEW key, HasKey(lru, key)
    PROVE  /\ PlaceOf(lru, key) \in 1 .. Len(lru)
           /\ EntryOf(lru, key) \in ToSet(lru) /\ EntryOf(lru, key).key = key
<1>1. DOMAIN lru = 1 .. Len(lru)
    BY DEF IsList
<1> QED BY <1>1 DEF HasKey, PlaceOf, EntryOf, ToSet

LEMMA ListConcat ==
    ASSUME NEW s, NEW t, NEW S, IsList(s), IsList(t), ToSet(s) \subseteq S, ToSet(t) \subseteq S
    PROVE  IsList(s \o t) /\ ToSet(s \o t) \subseteq S
<1>1. /\ Len(s) \in Nat /\ s = [i \in 1 .. Len(s) |-> s[i]]
      /\ Len(t) \in Nat /\ t = [i \in 1 .. Len(t) |-> t[i]]
    BY DEF IsList
<1>2. (\A i \in 1 .. Len(s) : s[i] \in S) /\ (\A i \in 1 .. Len(t) : t[i] \in S)
    BY <1>1 DEF ToSet, IsList
<1>3. s \in Seq(S) /\ t \in Seq(S)
    BY <1>1, <1>2, IsASeq
<1>4. s \o t \in Seq(S)
    BY <1>3
<1> QED BY <1>4, ListIs

LEMMA DroppedIs ==
    ASSUME NEW lru, IsList(lru), NEW key
    PROVE  IsList(Dropped(lru, key)) /\ ToSet(Dropped(lru, key)) \subseteq ToSet(lru)
<1>1. CASE ~HasKey(lru, key)
    BY <1>1 DEF Dropped
<1>2. CASE HasKey(lru, key)
  <2> DEFINE k == PlaceOf(lru, key)
             a == SubSeq(lru, 1, k - 1)
             b == SubSeq(lru, k + 1, Len(lru))
  <2>1. k \in 1 .. Len(lru) /\ Len(lru) \in Nat
      BY <1>2, EntryIsThere DEF IsList
  <2>2. /\ 1 \in 1 .. Len(lru) + 1 /\ k - 1 \in 0 .. Len(lru)
        /\ k + 1 \in 1 .. Len(lru) + 1 /\ Len(lru) \in 0 .. Len(lru)
      BY <2>1
  <2>3. Dropped(lru, key) = a \o b
      BY <1>2 DEF Dropped, RemoveAt
  <2> HIDE DEF k
  <2>4. IsList(a) /\ ToSet(a) \subseteq ToSet(lru)
      BY <2>2, ListCut
  <2>5. IsList(b) /\ ToSet(b) \subseteq ToSet(lru)
      BY <2>2, ListCut
  <2> HIDE DEF a, b
  <2> QED BY <2>3, <2>4, <2>5, ListConcat
<1> QED BY <1>1, <1>2

LEMMA KeptIs ==
    ASSUME NEW lru, IsList(lru), NEW entry, NEW most \in Nat \ {0}
    PROVE  /\ IsList(Kept(lru, entry, most))
           /\ ToSet(Kept(lru, entry, most)) \subseteq ToSet(lru) \cup {entry}
           /\ Kept(lru, entry, most) # <<>>
           /\ Kept(lru, entry, most)[Len(Kept(lru, entry, most))] = entry
<1> DEFINE d == Dropped(lru, entry.key)
           all == Append(d, entry)
           from == IF Len(all) > most THEN Len(all) - most + 1 ELSE 1
<1>1. IsList(d) /\ ToSet(d) \subseteq ToSet(lru) /\ Len(d) \in Nat
    BY DroppedIs DEF IsList
<1> HIDE DEF d
<1>2. /\ IsList(all) /\ ToSet(all) \subseteq ToSet(lru) \cup {entry}
      /\ Len(all) = Len(d) + 1 /\ all[Len(all)] = entry
    BY <1>1, ListAppend
<1>3. Kept(lru, entry, most) = SubSeq(all, from, Len(all))
    BY DEF Kept, d
<1> HIDE DEF all
<1>4. from \in 1 .. Len(all) + 1 /\ Len(all) \in 0 .. Len(all) /\ from <= Len(all)
    BY <1>1, <1>2
<1> HIDE DEF from
<1> DEFINE after == SubSeq(all, from, Len(all))
<1>5. IsList(after) /\ ToSet(after) \subseteq ToSet(all) /\ after # <<>> /\ after[Len(after)] = all[Len(all)]
    BY <1>2, <1>4, ListCut
<1> HIDE DEF after
<1> QED BY <1>2, <1>3, <1>5 DEF after

-----------------------------------------------------------------------------
\* What holds of a store of the past keeps holding.
LEMMA Later ==
    ASSUME NEW n \in Nat, NEW m \in Nat, n <= m
    PROVE  /\ \A req : CallHolds(req, n) => CallHolds(req, m)
           /\ \A r, req, cache, offs :
                CacheHolds(r, req, cache, offs, n) => CacheHolds(r, req, cache, offs, m)
           /\ \A a : AnswerHolds(a, n) => AnswerHolds(a, m)
<1>1. \A k : (k \in 1 .. n => k \in 1 .. m) /\ (\A v, s : v \in s .. n /\ s \in 1 .. n => v \in s .. m)
    OBVIOUS
<1>2. \A s, v : v \in s .. n => v \in s .. m
    OBVIOUS
<1>3. \A v, s : Right(v, s, n) => Right(v, s, m)
    BY <1>2 DEF Right
<1>4. \A req : CallHolds(req, n) => CallHolds(req, m)
    BY <1>1, <1>3 DEF CallHolds
<1>5. \A a : ArchiveHolds(a, n) => ArchiveHolds(a, m)
    BY <1>1 DEF ArchiveHolds
<1>6. \A a, req : Serves(a, req, n) => Serves(a, req, m)
    BY <1>2 DEF Serves
<1>7. ASSUME NEW r, NEW req, NEW cache, NEW offs, CacheHolds(r, req, cache, offs, n)
      PROVE  CacheHolds(r, req, cache, offs, m)
    BY <1>5, <1>6, <1>7 DEF CacheHolds, CacheSound
<1>8. ASSUME NEW a, AnswerHolds(a, n) PROVE AnswerHolds(a, m)
  <2>1. a.since \in 1 .. m
      BY <1>1, <1>8 DEF AnswerHolds
  <2>2. a.error = "none" =>
          \A k \in DOMAIN a.wanted :
            a.values[k].index = a.wanted[k] /\ Right(a.values[k], a.since, m)
      BY <1>3, <1>8 DEF AnswerHolds
  <2>3. a.error = "missing" =>
          \E v \in a.since .. m :
            /\ a.last.shard \in DOMAIN At(v).shards
            /\ a.last.index \notin ToSet(At(v).shards[a.last.shard])
      BY <1>2, <1>8 DEF AnswerHolds
  <2> QED BY <2>1, <2>2, <2>3 DEF AnswerHolds
<1> QED BY <1>4, <1>7, <1>8

\* One reader's part of a variable is changed, the others' is not.
Changes(f, g, r, v) == DOMAIN g = Readers /\ g[r] = v /\ \A s \in Readers \ {r} : g[s] = f[s]

LEMMA ExceptChanges ==
    ASSUME NEW f, DOMAIN f = Readers, NEW r \in Readers, NEW v
    PROVE  Changes(f, [f EXCEPT ![r] = v], r, v) /\ Changes(f, f, r, f[r])
BY DEF Changes

LEMMA StoreIsNumber ==
    ASSUME store \in Versions PROVE store \in Nat /\ store \in 1 .. store /\ store >= 1
BY StoreReaderAssumption DEF Versions

LEMMA NewestIsHeld ==
    ASSUME NEW r, NEW req, NEW cache, NEW offs, NEW last, CacheHolds(r, req, cache, offs, last),
           cache.opened # <<>>
    PROVE  Newest(cache) \in ToSet(cache.opened) /\ Newest(cache).fd \in FdsOf(req, cache)
<1>1. IsList(cache.opened)
    BY DEF CacheHolds, CacheSound
<1>2. Len(cache.opened) \in DOMAIN cache.opened
    BY <1>1 DEF IsList
<1>3. Newest(cache) \in ToSet(cache.opened)
    BY <1>2 DEF Newest, ToSet
<1> QED BY <1>3 DEF FdsOf

\* A reader goes on with a call and a cache that are as they should be, having opened
\* nothing that somebody has open and moved no file that another one reads.
LEMMA Frame ==
    ASSUME ReadingInv, NEW r \in Readers, NEW req, NEW cache,
           store' = store,
           Changes(request, request', r, req),
           Changes(archives, archives', r, cache),
           CallHolds(req, store),
           CacheHolds(r, req, cache, offsets', store),
           DOMAIN offsets' = Descriptors,
           \A d \in Descriptors :
              offsets'[d] = offsets[d]
                \/ (archives[r].pid = r /\ d \in FdsOf(request[r], archives[r])),
           cache.pid = archives[r].pid \/ FdsOf(req, cache) = {},
           \A d \in FdsOf(req, cache) :
              d \in FdsOf(request[r], archives[r])
                \/ \A s \in Readers : d \notin FdsOf(request[s], archives[s]),
           DOMAIN answers' = Readers,
           \A s \in Readers : IsList(answers'[s]) /\ \A a \in ToSet(answers'[s]) : AnswerHolds(a, store)
    PROVE  ReadingInv'
<1>1. DOMAIN request' = Readers /\ DOMAIN archives' = Readers /\ store' \in Versions
    BY DEF Changes, ReadingInv
<1>2. request'[r] = req /\ archives'[r] = cache
    BY DEF Changes
<1>3. \A s \in Readers : s # r => request'[s] = request[s] /\ archives'[s] = archives[s]
    BY DEF Changes
<1>4. ASSUME NEW s \in Readers, s # r
      PROVE  CallHolds(request'[s], store) /\ CacheHolds(s, request'[s], archives'[s], offsets', store)
  <2>1. CallHolds(request[s], store) /\ CacheHolds(s, request[s], archives[s], offsets, store)
      BY DEF ReadingInv
  <2>2. ASSUME request[s].pc = "bytes"
        PROVE  offsets'[Newest(archives[s]).fd] = offsets[Newest(archives[s]).fd]
    <3>1. archives[s].pid = s /\ archives[s].opened # <<>> /\ Newest(archives[s]).fd \in Descriptors
        BY <2>1, <2>2 DEF CacheHolds, InArchive, Serves
    <3>2. Newest(archives[s]).fd \in FdsOf(request[s], archives[s])
        BY <2>1, <3>1, NewestIsHeld
    <3>3. archives[r].pid = r => Newest(archives[s]).fd \notin FdsOf(request[r], archives[r])
        BY <1>4, <3>1, <3>2 DEF ReadingInv, Apart
    <3> QED BY <3>1, <3>3
  <2>3. CacheHolds(s, request[s], archives[s], offsets', store)
      BY <2>1, <2>2 DEF CacheHolds
  <2> QED BY <1>3, <1>4, <2>1, <2>3
<1>5. ASSUME NEW s \in Readers
      PROVE  CallHolds(request'[s], store') /\ CacheHolds(s, request'[s], archives'[s], offsets', store')
    BY <1>2, <1>4
<1>6. ASSUME NEW s \in Readers, s # r, cache.pid # archives[s].pid
      PROVE  FdsOf(req, cache) \cap FdsOf(request[s], archives[s]) = {}
  <2>1. ASSUME NEW d \in FdsOf(req, cache), d \in FdsOf(request[s], archives[s]) PROVE FALSE
    <3>1. cache.pid = archives[r].pid /\ d \in FdsOf(request[r], archives[r])
        BY <2>1
    <3> QED BY <1>6, <2>1, <3>1 DEF ReadingInv, Apart
  <2> QED BY <2>1
<1>7. ASSUME NEW s \in Readers, NEW t \in Readers, archives'[s].pid # archives'[t].pid
      PROVE  FdsOf(request'[s], archives'[s]) \cap FdsOf(request'[t], archives'[t]) = {}
  <2>1. CASE s = r
      BY <1>2, <1>3, <1>6, <1>7, <2>1
  <2>2. CASE t = r
      BY <1>2, <1>3, <1>6, <1>7, <2>2
  <2>3. CASE s # r /\ t # r
      BY <1>3, <1>7, <2>3 DEF ReadingInv, Apart
  <2> QED BY <2>1, <2>2, <2>3
<1>8. Apart'
    BY <1>7 DEF Apart
<1>9. \A s \in Readers : IsList(answers'[s]) /\ \A a \in ToSet(answers'[s]) : AnswerHolds(a, store')
    OBVIOUS
<1> QED BY <1>1, <1>5, <1>8, <1>9 DEF ReadingInv

\* A request of no reader, and one whose process is not in an archive, asks nothing of
\* the cache but that it is sound.
LEMMA OutsideArchives ==
    ASSUME NEW r, NEW req, NEW cache, NEW offs, NEW last, CacheSound(cache, last),
           req.pc \notin InArchive
    PROVE  CacheHolds(r, req, cache, offs, last) /\ FdsOf(req, cache) = {a.fd : a \in ToSet(cache.opened)}
<1>1. req.pc \notin Holding /\ req.pc \notin {"member", "bytes"} /\ req.pc # "bytes"
    BY DEF InArchive, Holding
<1> QED BY <1>1 DEF CacheHolds, FdsOf

LEMMA NoRequestHolds ==
    CallHolds(NoRequest, store) /\ NoRequest.pc = "idle" /\ NoRequest.pc \notin InArchive
BY DEF CallHolds, NoRequest, RequestFields, InArchive

LEMMA AnswersAfter ==
    ASSUME ReadingInv, NEW r \in Readers, NEW a, AnswerHolds(a, store),
           answers' = [answers EXCEPT ![r] = Append(@, a)]
    PROVE  /\ DOMAIN answers' = Readers
           /\ \A s \in Readers :
                IsList(answers'[s]) /\ \A b \in ToSet(answers'[s]) : AnswerHolds(b, store)
<1>1. Changes(answers, answers', r, Append(answers[r], a))
    BY ExceptChanges DEF ReadingInv
<1>2. IsList(answers[r])
    BY DEF ReadingInv
<1>3. IsList(Append(answers[r], a)) /\ ToSet(Append(answers[r], a)) = ToSet(answers[r]) \cup {a}
    BY <1>2, ListAppend
<1>4. ASSUME NEW s \in Readers
      PROVE  IsList(answers'[s]) /\ \A b \in ToSet(answers'[s]) : AnswerHolds(b, store)
  <2>1. CASE s = r
    <3>1. answers'[s] = Append(answers[r], a)
        BY <1>1, <2>1 DEF Changes
    <3> QED BY <1>3, <3>1 DEF ReadingInv
  <2>2. CASE s # r
      BY <1>1, <2>2 DEF Changes, ReadingInv
  <2> QED BY <2>1, <2>2
<1> QED BY <1>1, <1>4 DEF Changes

\* A request ends: with values that are right, or with an error that is true.
LEMMA Ends ==
    ASSUME ReadingInv, NEW r \in Readers, NEW values, NEW error, NEW cache,
           request[r].pc # "idle",
           EndRequest(r, values, error), offsets' = offsets,
           Changes(archives, archives', r, cache),
           CacheSound(cache, store),
           cache.pid = archives[r].pid \/ cache.opened = <<>>,
           ToSet(cache.opened) \subseteq ToSet(archives[r].opened),
           error = "none" =>
              \A k \in DOMAIN request[r].wanted :
                  /\ values[k].index = request[r].wanted[k]
                  /\ Right(values[k], request[r].since, store),
           error = "missing" =>
              \E v \in request[r].since .. store :
                  /\ request[r].shard \in DOMAIN At(v).shards
                  /\ Current(r) \notin ToSet(At(v).shards[request[r].shard])
    PROVE  ReadingInv'
<1> DEFINE a == [wanted |-> request[r].wanted, since |-> request[r].since,
                 values |-> values, error |-> error,
                 last |-> [index |-> Current(r), shard |-> request[r].shard]]
<1>1. request[r].since \in 1 .. store
    BY DEF ReadingInv, CallHolds
<1>2. AnswerHolds(a, store)
    BY <1>1 DEF AnswerHolds
<1>3. answers' = [answers EXCEPT ![r] = Append(@, a)]
    BY DEF EndRequest
<1> HIDE DEF a
<1>4. /\ DOMAIN answers' = Readers
      /\ \A s \in Readers : IsList(answers'[s]) /\ \A b \in ToSet(answers'[s]) : AnswerHolds(b, store)
    BY <1>2, <1>3, AnswersAfter
<1>5. store' = store /\ Changes(request, request', r, NoRequest)
    BY ExceptChanges DEF EndRequest, ReadingInv
<1>6. CacheHolds(r, NoRequest, cache, offsets', store)
    BY OutsideArchives, NoRequestHolds
<1>7. FdsOf(NoRequest, cache) = {b.fd : b \in ToSet(cache.opened)}
    BY OutsideArchives, NoRequestHolds
<1>8. FdsOf(NoRequest, cache) \subseteq FdsOf(request[r], archives[r])
    BY <1>7 DEF FdsOf
<1>9. cache.opened = <<>> => FdsOf(NoRequest, cache) = {}
    BY <1>7 DEF ToSet
<1>10. CallHolds(NoRequest, store)
    BY NoRequestHolds
<1>11. DOMAIN offsets' = Descriptors /\ \A d \in Descriptors : offsets'[d] = offsets[d]
    BY DEF ReadingInv
<1> QED BY <1>4, <1>5, <1>6, <1>8, <1>9, <1>10, <1>11, Frame

\* A request goes on, the caches stay.
LEMMA GoesOn ==
    ASSUME ReadingInv, NEW r \in Readers, NEW req, ReadStep(r, req),
           archives' = archives, offsets' = offsets,
           CallHolds(req, store), CacheHolds(r, req, archives[r], offsets, store),
           FdsOf(req, archives[r]) \subseteq FdsOf(request[r], archives[r])
    PROVE  ReadingInv'
<1>1. store' = store /\ answers' = answers /\ Changes(request, request', r, req)
    BY ExceptChanges DEF ReadStep, ReadingInv
<1>2. Changes(archives, archives', r, archives[r])
    BY ExceptChanges DEF ReadingInv
<1>3. /\ DOMAIN answers' = Readers
      /\ \A s \in Readers : IsList(answers'[s]) /\ \A b \in ToSet(answers'[s]) : AnswerHolds(b, store)
    BY <1>1 DEF ReadingInv
<1>4. DOMAIN offsets' = Descriptors /\ \A d \in Descriptors : offsets'[d] = offsets[d]
    BY DEF ReadingInv
<1> QED BY <1>1, <1>2, <1>3, <1>4, Frame

SameCall(req, old) ==
    /\ DOMAIN req = RequestFields
    /\ req.wanted = old.wanted /\ req.since = old.since
    /\ req.left = old.left /\ req.read = old.read

LEMMA SameCallHolds ==
    ASSUME NEW req, NEW old, NEW last, CallHolds(old, last), old.pc # "idle", SameCall(req, old)
    PROVE  CallHolds(req, last)
BY DEF CallHolds, SameCall

LEMMA NewPc ==
    ASSUME NEW req, DOMAIN req = RequestFields, NEW label
    PROVE  /\ SameCall([req EXCEPT !.pc = label], req)
           /\ [req EXCEPT !.pc = label].pc = label
           /\ [req EXCEPT !.pc = label].shard = req.shard
           /\ [req EXCEPT !.pc = label].opened = req.opened
BY DEF SameCall, RequestFields

\* The same outside the archives, which leaves every fact about the caches.
LEMMA GoesOnOutside ==
    ASSUME ReadingInv, NEW r \in Readers, NEW req, ReadStep(r, req),
           archives' = archives, offsets' = offsets,
           req.pc \notin InArchive,
           CallHolds(req, store)
    PROVE  ReadingInv'
<1>1. CacheSound(archives[r], store)
    BY DEF ReadingInv, CacheHolds
<1>2. /\ CacheHolds(r, req, archives[r], offsets, store)
      /\ FdsOf(req, archives[r]) = {a.fd : a \in ToSet(archives[r].opened)}
    BY <1>1, OutsideArchives
<1>3. FdsOf(req, archives[r]) \subseteq FdsOf(request[r], archives[r])
    BY <1>2 DEF FdsOf
<1> QED BY <1>2, <1>3, GoesOn

LEMMA RefuseKeeps ==
    ASSUME ReadingInv, NEW r \in Readers, request[r].pc # "idle", NEW values, NEW error,
           EndRequest(r, values, error), archives' = archives, offsets' = offsets,
           error # "none", error # "missing"
    PROVE  ReadingInv'
<1>1. Changes(archives, archives', r, archives[r]) /\ CacheSound(archives[r], store)
    BY ExceptChanges DEF ReadingInv, CacheHolds
<1> QED BY <1>1, Ends

LEMMA CurrentIsLeft ==
    ASSUME ReadingInv, NEW r \in Readers, request[r].pc # "idle"
    PROVE  Current(r) \in request[r].left /\ Current(r) \in Nat
<1>1. request[r].left \subseteq Nat /\ request[r].left # {}
    BY DEF ReadingInv, CallHolds
<1>2. Min(request[r].left) \in request[r].left
    BY <1>1, LeastMember
<1> QED BY <1>1, <1>2 DEF Current

\* One sample is read, and it is the last one or not.
LEMMA NextSampleKeeps ==
    ASSUME ReadingInv, NEW r \in Readers, request[r].pc # "idle", NEW value,
           value.index = Current(r), Right(value, request[r].since, store),
           NextSample(r, value), archives' = archives, offsets' = offsets
    PROVE  ReadingInv'
<1> DEFINE read == request[r].read \cup {value}
           left == request[r].left \ {Current(r)}
           req == [request[r] EXCEPT !.pc = "sample", !.read = read, !.left = left]
<1>1. CallHolds(request[r], store)
    BY DEF ReadingInv
<1>2. ToSet(request[r].wanted) \subseteq left \cup {v.index : v \in read}
    BY <1>1 DEF CallHolds
<1>3. \A v \in read : Right(v, request[r].since, store)
    BY <1>1 DEF CallHolds
<1>4. CASE left = {}
  <2> DEFINE values == [k \in DOMAIN request[r].wanted |->
                          CHOOSE v \in read : v.index = request[r].wanted[k]]
  <2>1. EndRequest(r, values, "none")
      BY <1>4 DEF NextSample, Return
  <2>2. ASSUME NEW k \in DOMAIN request[r].wanted
        PROVE  values[k] \in read /\ values[k].index = request[r].wanted[k]
    <3>1. request[r].wanted[k] \in {v.index : v \in read}
        BY <1>2, <1>4 DEF ToSet
    <3>2. PICK v \in read : v.index = request[r].wanted[k]
        BY <3>1
    <3> HIDE DEF read
    <3> QED BY <3>2
  <2>3. \A k \in DOMAIN request[r].wanted :
          values[k].index = request[r].wanted[k] /\ Right(values[k], request[r].since, store)
      BY <1>3, <2>2
  <2>4. Changes(archives, archives', r, archives[r]) /\ CacheSound(archives[r], store)
      BY ExceptChanges DEF ReadingInv, CacheHolds
  <2> HIDE DEF values
  <2> QED BY <2>1, <2>3, <2>4, Ends
<1>5. CASE left # {}
  <2>1. ReadStep(r, req)
      BY <1>5 DEF NextSample
  <2>2. /\ DOMAIN req = RequestFields /\ req.pc = "sample"
        /\ req.read = read /\ req.left = left
        /\ req.wanted = request[r].wanted /\ req.since = request[r].since
      BY <1>1 DEF CallHolds, RequestFields
  <2>3. left \in SUBSET Nat /\ request[r].since \in 1 .. store
      BY <1>1 DEF CallHolds
  <2> HIDE DEF req, left, read
  <2>4. CallHolds(req, store)
      BY <1>2, <1>3, <1>5, <2>2, <2>3 DEF CallHolds
  <2>5. req.pc \notin InArchive
      BY <2>2 DEF InArchive
  <2> QED BY <2>1, <2>4, <2>5, GoesOnOutside
<1> QED BY <1>4, <1>5

-----------------------------------------------------------------------------
LEMMA RequestFacts ==
    ASSUME ReadingInv, NEW r \in Readers
    PROVE  /\ CallHolds(request[r], store) /\ DOMAIN request[r] = RequestFields
           /\ CacheHolds(r, request[r], archives[r], offsets, store)
           /\ CacheSound(archives[r], store)
BY DEF ReadingInv, CallHolds, CacheHolds

LEMMA BeginRequestKeeps ==
    ASSUME ReadingInv, NEW r \in Readers, NEW wanted \in Requests, BeginRequest(r, wanted),
           Begun(r) => dataset[r].count \in Nat
    PROVE  ReadingInv'
<1> DEFINE indexes == [k \in DOMAIN wanted |-> StoreIndex(wanted[k], dataset[r].count)]
           req == [NoRequest EXCEPT !.pc = "sample", !.wanted = indexes, !.since = store,
                                     !.left = ToSet(indexes)]
<1>1. ReadStep(r, req) /\ archives' = archives /\ offsets' = offsets /\ wanted # <<>>
    BY DEF BeginRequest
<1>2. dataset[r].count \in Nat
    BY DEF BeginRequest, Begun
<1>3. ASSUME NEW k \in DOMAIN wanted PROVE indexes[k] \in Nat
  <2>1. indexes[k] \in 0 .. dataset[r].count - 1
      BY DEF BeginRequest
  <2> HIDE DEF indexes
  <2> QED BY <1>2, <2>1
<1>4. DOMAIN indexes = DOMAIN wanted
    OBVIOUS
<1>5. DOMAIN wanted # {}
  <2>1. wanted \in Seq(Int)
      BY StoreReaderAssumption
  <2> QED BY <1>1, <2>1
<1> HIDE DEF indexes
<1>6. ToSet(indexes) \in SUBSET Nat /\ ToSet(indexes) # {}
    BY <1>3, <1>4, <1>5 DEF ToSet
<1>7. /\ DOMAIN req = RequestFields /\ req.pc = "sample" /\ req.since = store
      /\ req.wanted = indexes /\ req.left = ToSet(indexes) /\ req.read = {}
    BY DEF NoRequest, RequestFields
<1> HIDE DEF req
<1>8. store \in 1 .. store
    BY StoreIsNumber DEF ReadingInv
<1>9. CallHolds(req, store)
    BY <1>6, <1>7, <1>8 DEF CallHolds
<1>10. req.pc \notin InArchive
    BY <1>7 DEF InArchive
<1> QED BY <1>1, <1>9, <1>10, GoesOnOutside

LEMMA GoOnOutside ==
    ASSUME ReadingInv, NEW r \in Readers, request[r].pc # "idle", NEW label,
           GoOn(r, label), archives' = archives, offsets' = offsets, label \notin InArchive
    PROVE  ReadingInv'
<1> DEFINE req == [request[r] EXCEPT !.pc = label]
<1>1. SameCall(req, request[r]) /\ req.pc = label
    BY RequestFacts, NewPc
<1>2. CallHolds(req, store)
    BY <1>1, RequestFacts, SameCallHolds
<1> QED BY <1>1, <1>2, GoesOnOutside DEF GoOn

LEMMA ReadSampleKeeps ==
    ASSUME ReadingInv, NEW r \in Readers, ReadSample(r)
    PROVE  ReadingInv'
<1>1. request[r].pc # "idle"
    BY DEF ReadSample
<1>2. CASE Refuse(r, "changed") \/ Refuse(r, "short")
    BY <1>1, <1>2, RefuseKeeps DEF Refuse
<1>3. CASE GoOn(r, "view") /\ UNCHANGED <<archives, offsets>>
    BY <1>1, <1>3, GoOnOutside DEF InArchive
<1>4. CASE /\ NextSample(r, [index |-> Current(r), key |-> Nothing, store |-> Nothing])
           /\ UNCHANGED <<archives, offsets>>
  <2> DEFINE v == [index |-> Current(r), key |-> Nothing, store |-> Nothing]
  <2>1. v.index = Current(r) /\ Right(v, request[r].since, store)
      BY DEF Right
  <2> HIDE DEF v
  <2> QED BY <1>1, <1>4, <2>1, NextSampleKeeps DEF v
<1> QED BY <1>2, <1>3, <1>4 DEF ReadSample

LEMMA OpenViewKeeps ==
    ASSUME ReadingInv, NEW r \in Readers, OpenView(r)
    PROVE  ReadingInv'
<1>1. request[r].pc # "idle" /\ archives' = archives /\ offsets' = offsets
    BY DEF OpenView
<1>2. CASE GoOn(r, "entry")
    BY <1>1, <1>2, GoOnOutside DEF InArchive
<1>3. CASE EndRequest(r, <<>>, "changed")
    BY <1>1, <1>3, RefuseKeeps
<1> QED BY <1>2, <1>3 DEF OpenView

LEMMA ReadEntryKeeps ==
    ASSUME ReadingInv, NEW r \in Readers, ReadEntry(r)
    PROVE  ReadingInv'
<1>1. request[r].pc # "idle"
    BY DEF ReadEntry
<1>2. CASE Refuse(r, "absent") \/ Refuse(r, "changed") \/ Refuse(r, "short")
    BY <1>1, <1>2, RefuseKeeps DEF Refuse
<1>3. ASSUME NEW part,
             ReadStep(r, [request[r] EXCEPT !.pc = "archive", !.shard = part]),
             UNCHANGED <<archives, offsets>>
      PROVE  ReadingInv'
  <2> DEFINE req == [request[r] EXCEPT !.pc = "archive", !.shard = part]
  <2>1. SameCall(req, request[r]) /\ req.pc = "archive"
      BY RequestFacts DEF SameCall, RequestFields
  <2> HIDE DEF req
  <2>2. CallHolds(req, store) /\ req.pc \notin InArchive
      BY <1>1, <2>1, RequestFacts, SameCallHolds DEF InArchive
  <2> QED BY <1>3, <2>2, GoesOnOutside DEF req
<1> QED BY <1>2, <1>3 DEF ReadEntry

-----------------------------------------------------------------------------
\* The cache of the process itself.
LEMMA OwnIs ==
    ASSUME ReadingInv, NEW r \in Readers
    PROVE  /\ CacheSound(OwnArchives(r), store) /\ OwnArchives(r).pid = r
           /\ OwnArchives(r).pid = archives[r].pid \/ OwnArchives(r).opened = <<>>
           /\ ToSet(OwnArchives(r).opened) \subseteq ToSet(archives[r].opened)
<1>1. CASE archives[r].pid = r
    BY <1>1, RequestFacts DEF OwnArchives
<1>2. CASE archives[r].pid # r
  <2> DEFINE mine == [pid |-> r, opened |-> <<>>]
  <2>1. OwnArchives(r) = mine
      BY <1>2 DEF OwnArchives
  <2>2. mine.pid = r /\ mine.opened = <<>> /\ DOMAIN mine = {"pid", "opened"}
      OBVIOUS
  <2> HIDE DEF mine
  <2>3. ToSet(mine.opened) = {} /\ IsList(mine.opened)
      BY <2>2 DEF ToSet, IsList
  <2> QED BY <2>1, <2>2, <2>3 DEF CacheSound
<1> QED BY <1>1, <1>2

LEMMA NewOpened ==
    ASSUME NEW cache, DOMAIN cache = {"pid", "opened"}, NEW opened
    PROVE  LET new == [cache EXCEPT !.opened = opened]
           IN DOMAIN new = {"pid", "opened"} /\ new.pid = cache.pid /\ new.opened = opened
OBVIOUS

LEMMA FindArchiveKeeps ==
    ASSUME ReadingInv, NEW r \in Readers, FindArchive(r)
    PROVE  ReadingInv'
<1> DEFINE mine   == OwnArchives(r)
           part  == request[r].shard
           cached == IF HasKey(mine.opened, part) THEN EntryOf(mine.opened, part) ELSE Nothing
           drop   == Dropped(mine.opened, part)
<1>1. request[r].pc = "archive" /\ request[r].pc # "idle" /\ store' = store
    BY DEF FindArchive, EndRequest, GoOn, ReadStep
<1>2. /\ CacheSound(mine, store) /\ mine.pid = r
      /\ mine.pid = archives[r].pid \/ mine.opened = <<>>
      /\ ToSet(mine.opened) \subseteq ToSet(archives[r].opened)
    BY OwnIs
<1>3. CASE part \notin DOMAIN Here.shards
  <2>1. /\ archives' = [archives EXCEPT ![r] = mine] /\ offsets' = offsets
        /\ EndRequest(r, <<>>, "no shard")
      BY <1>3 DEF FindArchive
  <2>2. Changes(archives, archives', r, mine)
      BY <2>1, ExceptChanges DEF ReadingInv
  <2> QED BY <1>1, <1>2, <2>1, <2>2, Ends
<1>4. IsList(mine.opened) /\ DOMAIN mine = {"pid", "opened"}
    BY <1>2 DEF CacheSound
<1>5. IsList(drop) /\ ToSet(drop) \subseteq ToSet(mine.opened)
    BY <1>4, DroppedIs
<1>6. ASSUME part \in DOMAIN Here.shards
      PROVE
      /\ DOMAIN answers' = Readers
      /\ \A s \in Readers : IsList(answers'[s]) /\ \A b \in ToSet(answers'[s]) : AnswerHolds(b, store)
      /\ offsets' = offsets
      /\ DOMAIN offsets' = Descriptors /\ \A d \in Descriptors : offsets'[d] = offsets[d]
    BY <1>6 DEF FindArchive, GoOn, ReadStep, ReadingInv
<1>7. ASSUME NEW label, label \in {"open", "member"}, NEW opened, IsList(opened),
             part \in DOMAIN Here.shards,
             archives' = [archives EXCEPT ![r] = [mine EXCEPT !.opened = opened]],
             GoOn(r, label),
             ToSet(opened) \subseteq ToSet(mine.opened),
             label = "member" => /\ opened # <<>> /\ opened[Len(opened)].key = part
                              /\ opened[Len(opened)].stat = store
      PROVE  ReadingInv'
  <2> DEFINE cache == [mine EXCEPT !.opened = opened]
             req == [request[r] EXCEPT !.pc = label]
  <2>1. DOMAIN cache = {"pid", "opened"} /\ cache.pid = r /\ cache.opened = opened
      BY <1>2, <1>4, NewOpened
  <2>2. Changes(archives, archives', r, cache)
      BY <1>7, ExceptChanges DEF ReadingInv
  <2>3. SameCall(req, request[r]) /\ req.pc = label /\ req.shard = part
      BY RequestFacts, NewPc
  <2>4. Changes(request, request', r, req)
      BY <1>7, ExceptChanges DEF GoOn, ReadStep, ReadingInv
  <2> HIDE DEF mine, part, req
  <2>5. CallHolds(req, store)
      BY <1>1, <2>3, RequestFacts, SameCallHolds
  <2> HIDE DEF cache
  <2>6. CacheSound(cache, store)
      BY <1>2, <1>7, <2>1 DEF CacheSound
  <2>7. label = "member" => Serves(Newest(cache), req, store)
    <3>1. SUFFICES ASSUME label = "member" PROVE Serves(Newest(cache), req, store)
        OBVIOUS
    <3>2. Newest(cache).key = part /\ Newest(cache).stat = store /\ cache.opened # <<>>
        BY <1>7, <2>1, <3>1 DEF Newest
    <3>3. Newest(cache) \in ToSet(cache.opened)
      <4>1. Len(cache.opened) \in DOMAIN cache.opened
          BY <2>6, <3>2 DEF CacheSound, IsList
      <4> QED BY <4>1 DEF Newest, ToSet
    <3>4. Newest(cache).fd \in Descriptors
        BY <2>6, <3>3 DEF CacheSound, ArchiveHolds
    <3>5. req.since \in 1 .. store
        BY <1>1, <2>3, RequestFacts DEF CallHolds, SameCall
    <3>6. store \in req.since .. store
        BY <3>5, StoreIsNumber DEF ReadingInv
    <3>7. part \in DOMAIN At(store).shards
        BY <1>7 DEF Here, At
    <3>8. Newest(cache).key \in DOMAIN At(Newest(cache).stat).shards
        BY <3>2, <3>7
    <3>9. Newest(cache).stat \in req.since .. store
        BY <3>2, <3>6
    <3> QED BY <2>3, <3>2, <3>4, <3>8, <3>9 DEF Serves
  <2>8. label \notin Holding /\ label # "bytes"
      BY <1>7 DEF Holding
  <2>9. CacheHolds(r, req, cache, offsets', store)
      BY <1>7, <2>1, <2>3, <2>6, <2>7, <2>8 DEF CacheHolds
  <2>10. FdsOf(req, cache) = {a.fd : a \in ToSet(opened)}
      BY <2>1, <2>3, <2>8 DEF FdsOf
  <2>11. FdsOf(req, cache) \subseteq FdsOf(request[r], archives[r])
    <3>1. ToSet(opened) \subseteq ToSet(archives[r].opened)
        BY <1>2, <1>7
    <3> QED BY <2>10, <3>1 DEF FdsOf
  <2>12. mine.opened = <<>> => FdsOf(req, cache) = {}
    <3>1. ToSet(<<>>) = {}
        BY DEF ToSet
    <3> QED BY <1>7, <2>10, <3>1
  <2>13. cache.pid = archives[r].pid \/ FdsOf(req, cache) = {}
      BY <1>2, <2>1, <2>12
  <2> QED BY <1>1, <1>6, <1>7, <2>2, <2>4, <2>5, <2>9, <2>11, <2>13, Frame
<1>8. CASE part \in DOMAIN Here.shards /\ cached # Nothing /\ cached.stat = store
  <2>1. HasKey(mine.opened, part) /\ cached = EntryOf(mine.opened, part)
      BY <1>8
  <2>2. cached \in ToSet(mine.opened) /\ cached.key = part
      BY <1>4, <2>1, EntryIsThere
  <2>3. /\ archives' = [archives EXCEPT ![r] = [mine EXCEPT !.opened = Append(drop, cached)]]
        /\ GoOn(r, "member")
      BY <1>8 DEF FindArchive
  <2> HIDE DEF cached, drop, mine, part
  <2> DEFINE opened == Append(drop, cached)
  <2>4. /\ IsList(opened) /\ ToSet(opened) = ToSet(drop) \cup {cached}
        /\ Len(opened) = Len(drop) + 1 /\ opened[Len(drop) + 1] = cached
      BY <1>5, ListAppend
  <2>5. opened # <<>>
      BY <1>5, <2>4 DEF IsList
  <2>6. ToSet(opened) \subseteq ToSet(mine.opened)
      BY <1>5, <2>2, <2>4
  <2>7. opened[Len(opened)].key = part /\ opened[Len(opened)].stat = store
      BY <1>8, <2>2, <2>4
  <2> HIDE DEF opened
  <2> QED BY <1>7, <1>8, <2>3, <2>4, <2>5, <2>6, <2>7 DEF opened
<1>9. CASE part \in DOMAIN Here.shards /\ ~(cached # Nothing /\ cached.stat = store)
  <2>1. /\ archives' = [archives EXCEPT ![r] = [mine EXCEPT !.opened = drop]]
        /\ GoOn(r, "open")
      BY <1>9 DEF FindArchive
  <2> HIDE DEF cached, drop, mine, part
  <2> QED BY <1>5, <1>7, <1>9, <2>1
<1> HIDE DEF mine, part, cached
<1> QED BY <1>3, <1>8, <1>9

-----------------------------------------------------------------------------
\* A new file description is one that nobody has open.
LEMMA FreeIsFree ==
    ASSUME ReadingInv, FreeDescriptors # {}
    PROVE  /\ Min(FreeDescriptors) \in Descriptors
           /\ \A s \in Readers : Min(FreeDescriptors) \notin FdsOf(request[s], archives[s])
<1>1. FreeDescriptors \subseteq Nat
    BY DEF FreeDescriptors, Descriptors
<1>2. Min(FreeDescriptors) \in FreeDescriptors
    BY <1>1, LeastMember
<1> DEFINE d == Min(FreeDescriptors)
<1>3. d \in Descriptors /\ d \notin OpenDescriptors
    BY <1>2 DEF FreeDescriptors
<1> HIDE DEF d
<1>4. ASSUME NEW s \in Readers PROVE d \notin FdsOf(request[s], archives[s])
  <2>1. d \notin {a.fd : a \in ToSet(archives[s].opened)}
    <3>1. ASSUME NEW a \in ToSet(archives[s].opened) PROVE a.fd \in OpenDescriptors
        BY <3>1 DEF OpenDescriptors
    <3> QED BY <1>3, <3>1
  <2>2. request[s].pc \in Holding => request[s].opened.fd \in OpenDescriptors
      BY DEF OpenDescriptors, Holding
  <2> QED BY <1>3, <2>1, <2>2 DEF FdsOf
<1> QED BY <1>3, <1>4 DEF d

\* The request goes on and holds one file description more.
LEMMA OpenArchiveKeeps ==
    ASSUME ReadingInv, NEW r \in Readers, OpenArchive(r)
    PROVE  ReadingInv'
<1>1. request[r].pc = "open" /\ request[r].pc # "idle"
    BY DEF OpenArchive
<1>2. CASE request[r].shard \notin DOMAIN Here.shards
  <2>1. Refuse(r, "no shard")
      BY <1>2 DEF OpenArchive
  <2> QED BY <1>1, <2>1, RefuseKeeps DEF Refuse
<1>3. CASE request[r].shard \in DOMAIN Here.shards
  <2> DEFINE d == Min(FreeDescriptors)
             opened == [key |-> request[r].shard, fd |-> d, stat |-> store]
             req == [request[r] EXCEPT !.pc = "opened", !.opened = opened]
  <2>1. /\ ReadStep(r, req) /\ archives' = archives /\ offsets' = offsets
        /\ FreeDescriptors # {}
      BY <1>3 DEF OpenArchive
  <2>2. d \in Descriptors /\ \A s \in Readers : d \notin FdsOf(request[s], archives[s])
      BY <2>1, FreeIsFree
  <2>3. /\ DOMAIN opened = OpenedFields /\ opened.key = request[r].shard
        /\ opened.fd = d /\ opened.stat = store
      BY DEF OpenedFields
  <2> HIDE DEF d, opened
  <2>4. /\ SameCall(req, request[r]) /\ req.pc = "opened"
        /\ req.shard = request[r].shard /\ req.opened = opened
      BY RequestFacts DEF SameCall, RequestFields
  <2> HIDE DEF req
  <2>5. CallHolds(req, store)
      BY <1>1, <2>4, RequestFacts, SameCallHolds
  <2>6. store \in req.since .. store
    <3>1. req.since \in 1 .. store
        BY <1>1, <2>4, RequestFacts DEF CallHolds, SameCall
    <3> QED BY <3>1, StoreIsNumber DEF ReadingInv
  <2>7. Serves(req.opened, req, store)
    <3>1. req.opened.key \in DOMAIN At(req.opened.stat).shards
        BY <1>3, <2>3, <2>4 DEF Here, At
    <3> QED BY <2>2, <2>3, <2>4, <2>6, <3>1 DEF Serves
  <2>8. CacheHolds(r, req, archives[r], offsets', store)
    <3>1. archives[r].pid = r /\ CacheSound(archives[r], store)
        BY <1>1, RequestFacts DEF CacheHolds, InArchive
    <3> QED BY <2>3, <2>4, <2>7, <3>1 DEF CacheHolds
  <2>9. \A x \in FdsOf(req, archives[r]) :
          x \in FdsOf(request[r], archives[r])
            \/ \A s \in Readers : x \notin FdsOf(request[s], archives[s])
    <3>1. FdsOf(req, archives[r]) \subseteq FdsOf(request[r], archives[r]) \cup {d}
        BY <2>3, <2>4 DEF FdsOf
    <3> QED BY <2>2, <3>1
  <2>10. Changes(request, request', r, req) /\ Changes(archives, archives', r, archives[r])
      BY <2>1, ExceptChanges DEF ReadStep, ReadingInv
  <2>11. /\ store' = store /\ DOMAIN answers' = Readers
         /\ \A s \in Readers : IsList(answers'[s]) /\ \A b \in ToSet(answers'[s]) : AnswerHolds(b, store)
         /\ DOMAIN offsets' = Descriptors /\ \A x \in Descriptors : offsets'[x] = offsets[x]
      BY <2>1 DEF ReadStep, ReadingInv
  <2> QED BY <2>5, <2>8, <2>9, <2>10, <2>11, Frame
<1> QED BY <1>2, <1>3

LEMMA CheckArchiveKeeps ==
    ASSUME ReadingInv, NEW r \in Readers, CheckArchive(r)
    PROVE  ReadingInv'
<1>1. request[r].pc = "opened" /\ request[r].pc # "idle"
    BY DEF CheckArchive
<1>2. CASE Refuse(r, "changed")
    BY <1>1, <1>2, RefuseKeeps DEF Refuse
<1>3. CASE GoOn(r, "sidecar") /\ UNCHANGED <<archives, offsets>>
  <2> DEFINE req == [request[r] EXCEPT !.pc = "sidecar"]
  <2>1. ReadStep(r, req)
      BY <1>3 DEF GoOn
  <2>2. /\ SameCall(req, request[r]) /\ req.pc = "sidecar"
        /\ req.shard = request[r].shard /\ req.opened = request[r].opened
      BY RequestFacts, NewPc
  <2> HIDE DEF req
  <2>3. CallHolds(req, store)
      BY <1>1, <2>2, RequestFacts, SameCallHolds
  <2>4. CacheHolds(r, req, archives[r], offsets, store)
    <3>1. /\ archives[r].pid = r /\ CacheSound(archives[r], store)
          /\ DOMAIN request[r].opened = OpenedFields
          /\ Serves(request[r].opened, request[r], store)
        BY <1>1, RequestFacts DEF CacheHolds, InArchive, Holding
    <3>2. Serves(req.opened, req, store)
        BY <2>2, <3>1 DEF Serves, SameCall
    <3> QED BY <2>2, <3>1, <3>2 DEF CacheHolds
  <2>5. FdsOf(req, archives[r]) \subseteq FdsOf(request[r], archives[r])
      BY <1>1, <2>2 DEF FdsOf, Holding
  <2> QED BY <1>3, <2>1, <2>3, <2>4, <2>5, GoesOn
<1> QED BY <1>2, <1>3 DEF CheckArchive

LEMMA NewArchiveHolds ==
    ASSUME NEW opened, NEW last, opened.stat \in 1 .. last, opened.fd \in Descriptors
    PROVE  /\ ArchiveHolds(NewArchive(opened), last)
           /\ NewArchive(opened).key = opened.key /\ NewArchive(opened).fd = opened.fd
           /\ NewArchive(opened).stat = opened.stat
<1> DEFINE a == NewArchive(opened)
<1>1. /\ DOMAIN a = ArchiveFields
      /\ a.key = opened.key /\ a.fd = opened.fd /\ a.stat = opened.stat /\ a.verified = {}
      /\ a.complete = (Sidecar(opened) = Nothing)
      /\ a.members = IF Sidecar(opened) = Nothing THEN MembersOf(opened) ELSE Sidecar(opened)
    BY DEF NewArchive, ArchiveFields
<1> HIDE DEF a
<1>2. MembersOf(a) = MembersOf(opened)
    BY <1>1 DEF MembersOf
<1> QED BY <1>1, <1>2 DEF ArchiveHolds, a

LEMMA ReadSidecarKeeps ==
    ASSUME ReadingInv, NEW r \in Readers, ReadSidecar(r)
    PROVE  ReadingInv'
<1> DEFINE new == NewArchive(request[r].opened)
           after == Kept(archives[r].opened, new, MaxArchives)
           cache == [archives[r] EXCEPT !.opened = after]
           req == [request[r] EXCEPT !.pc = "member", !.opened = Nothing]
<1>1. /\ request[r].pc = "sidecar" /\ request[r].pc # "idle"
      /\ archives' = [archives EXCEPT ![r].opened = after]
      /\ ReadStep(r, req) /\ offsets' = offsets
    BY DEF ReadSidecar
<1>2. /\ archives[r].pid = r /\ CacheSound(archives[r], store)
      /\ Serves(request[r].opened, request[r], store)
    BY <1>1, RequestFacts DEF CacheHolds, InArchive, Holding
<1>3. request[r].since \in 1 .. store
    BY <1>1, RequestFacts DEF CallHolds
<1>4. request[r].opened.stat \in 1 .. store
    BY <1>2, <1>3 DEF Serves
<1>5. /\ ArchiveHolds(new, store)
      /\ new.key = request[r].opened.key /\ new.fd = request[r].opened.fd
      /\ new.stat = request[r].opened.stat
    BY <1>2, <1>4, NewArchiveHolds DEF Serves
<1> HIDE DEF new
<1>6. /\ IsList(after) /\ ToSet(after) \subseteq ToSet(archives[r].opened) \cup {new}
      /\ after # <<>> /\ after[Len(after)] = new
    BY <1>2, KeptIs, StoreReaderAssumption DEF CacheSound
<1> HIDE DEF after
<1>7. Changes(archives, archives', r, cache)
    BY <1>1, ExceptChanges DEF ReadingInv
<1>8. DOMAIN cache = {"pid", "opened"} /\ cache.pid = r /\ cache.opened = after
    BY <1>2, NewOpened DEF CacheSound
<1> HIDE DEF cache
<1>9. SameCall(req, request[r]) /\ req.pc = "member" /\ req.shard = request[r].shard
    BY RequestFacts DEF SameCall, RequestFields
<1>10. Changes(request, request', r, req) /\ store' = store
    BY <1>1, ExceptChanges DEF ReadStep, ReadingInv
<1> HIDE DEF req
<1>11. CallHolds(req, store)
    BY <1>1, <1>9, RequestFacts, SameCallHolds
<1>12. CacheSound(cache, store)
    BY <1>2, <1>5, <1>6, <1>8 DEF CacheSound
<1>13. Newest(cache) = new
    BY <1>6, <1>8 DEF Newest
<1>14. Serves(new, req, store)
    BY <1>2, <1>5, <1>9 DEF Serves, SameCall
<1>15. CacheHolds(r, req, cache, offsets', store)
    BY <1>6, <1>8, <1>9, <1>12, <1>13, <1>14 DEF CacheHolds, Holding
<1>16. FdsOf(req, cache) \subseteq FdsOf(request[r], archives[r])
    BY <1>1, <1>5, <1>6, <1>8, <1>9 DEF FdsOf, Holding
<1>17. /\ DOMAIN answers' = Readers
       /\ \A s \in Readers : IsList(answers'[s]) /\ \A b \in ToSet(answers'[s]) : AnswerHolds(b, store)
       /\ DOMAIN offsets' = Descriptors /\ \A x \in Descriptors : offsets'[x] = offsets[x]
    BY <1>1 DEF ReadStep, ReadingInv
<1> QED BY <1>2, <1>7, <1>8, <1>10, <1>11, <1>15, <1>16, <1>17, Frame

-----------------------------------------------------------------------------
\* Every member in the table of an archive is where the table says.
LEMMA MembersAre ==
    ASSUME NEW a, NEW key
    PROVE  /\ key \in DOMAIN MembersOf(a) <=> key \in ToSet(At(a.stat).shards[a.key])
           /\ key \in DOMAIN MembersOf(a) =>
                At(a.stat).shards[a.key][MembersOf(a)[key]] = key
<1> DEFINE tar == At(a.stat).shards[a.key]
<1>1. MembersOf(a) = [k \in ToSet(tar) |-> CHOOSE p \in DOMAIN tar : tar[p] = k]
    BY DEF MembersOf
<1> HIDE DEF tar
<1>2. ASSUME key \in ToSet(tar) PROVE tar[CHOOSE p \in DOMAIN tar : tar[p] = key] = key
  <2>1. \E p \in DOMAIN tar : tar[p] = key
      BY <1>2 DEF ToSet
  <2> QED BY <2>1
<1>3. DOMAIN MembersOf(a) = ToSet(tar)
    BY <1>1
<1>4. key \in ToSet(tar) => tar[MembersOf(a)[key]] = key
    BY <1>1, <1>2
<1> QED BY <1>3, <1>4 DEF tar

\* What is looked up is in the archive where it is said to be, and what is not found
\* is not in it.
LEMMA LookUpHolds ==
    ASSUME NEW a, NEW last, ArchiveHolds(a, last), NEW key
    PROVE  LET b == LookUp(a, key)
           IN /\ ArchiveHolds(b, last)
              /\ b.key = a.key /\ b.fd = a.fd /\ b.stat = a.stat
              /\ key \in DOMAIN b.members => HeaderIs(b, key)
              /\ key \notin DOMAIN b.members => key \notin ToSet(At(b.stat).shards[b.key])
<1>0. DOMAIN a = ArchiveFields
    BY DEF ArchiveHolds
<1>1. CASE a.complete \/ key \in a.verified
  <2>1. LookUp(a, key) = a
      BY <1>1 DEF LookUp
  <2>2. CASE key \in a.verified
      BY <2>1, <2>2 DEF ArchiveHolds
  <2>3. CASE a.complete
    <3>1. a.members = MembersOf(a)
        BY <2>3 DEF ArchiveHolds
    <3>2. key \in DOMAIN a.members => HeaderIs(a, key)
        BY <3>1, MembersAre DEF HeaderIs
    <3>3. key \notin DOMAIN a.members => key \notin ToSet(At(a.stat).shards[a.key])
        BY <3>1, MembersAre
    <3> QED BY <2>1, <3>2, <3>3
  <2> QED BY <1>1, <2>2, <2>3
<1>2. CASE ~(a.complete \/ key \in a.verified) /\ key \in DOMAIN a.members /\ HeaderIs(a, key)
  <2> DEFINE b == [a EXCEPT !.verified = @ \cup {key}]
  <2>1. LookUp(a, key) = b
      BY <1>2 DEF LookUp
  <2>2. /\ DOMAIN b = ArchiveFields /\ b.key = a.key /\ b.fd = a.fd /\ b.stat = a.stat
        /\ b.complete = a.complete /\ b.members = a.members
        /\ b.verified = a.verified \cup {key}
      BY <1>0 DEF ArchiveFields
  <2> HIDE DEF b
  <2>3. \A k : HeaderIs(b, k) <=> HeaderIs(a, k)
      BY <2>2 DEF HeaderIs
  <2>4. MembersOf(b) = MembersOf(a)
      BY <2>2 DEF MembersOf
  <2>5. ArchiveHolds(b, last)
      BY <1>2, <2>2, <2>3, <2>4 DEF ArchiveHolds
  <2> QED BY <1>2, <2>1, <2>2, <2>3, <2>5
<1>3. CASE /\ ~(a.complete \/ key \in a.verified)
           /\ ~(key \in DOMAIN a.members /\ HeaderIs(a, key))
  <2> DEFINE b == [a EXCEPT !.complete = TRUE, !.members = MembersOf(a), !.verified = {}]
  <2>1. LookUp(a, key) = b
      BY <1>3 DEF LookUp
  <2>2. /\ DOMAIN b = ArchiveFields /\ b.key = a.key /\ b.fd = a.fd /\ b.stat = a.stat
        /\ b.complete = TRUE /\ b.members = MembersOf(a) /\ b.verified = {}
      BY <1>0 DEF ArchiveFields
  <2> HIDE DEF b
  <2>3. MembersOf(b) = MembersOf(a)
      BY <2>2 DEF MembersOf
  <2>4. ArchiveHolds(b, last)
      BY <2>2, <2>3 DEF ArchiveHolds
  <2>5. key \in DOMAIN b.members => HeaderIs(b, key)
      BY <2>2, MembersAre DEF HeaderIs
  <2>6. key \notin DOMAIN b.members => key \notin ToSet(At(b.stat).shards[b.key])
      BY <2>2, MembersAre
  <2> QED BY <2>1, <2>2, <2>4, <2>5, <2>6
<1> QED BY <1>1, <1>2, <1>3

LEMMA FindMemberKeeps ==
    ASSUME ReadingInv, NEW r \in Readers, FindMember(r)
    PROVE  ReadingInv'
<1> DEFINE all == archives[r].opened
           old == all[Len(all)]
           new == LookUp(old, Current(r))
           list == [all EXCEPT ![Len(all)] = new]
           cache == [archives[r] EXCEPT !.opened = list]
<1>1. /\ request[r].pc = "member" /\ request[r].pc # "idle"
      /\ archives' = [archives EXCEPT ![r].opened = list]
  <2>1. archives' = [archives EXCEPT ![r].opened = [@ EXCEPT ![Len(all)] = new]]
      BY DEF FindMember
  <2> QED BY <2>1 DEF FindMember
<1>2. /\ archives[r].pid = r /\ CacheSound(archives[r], store)
      /\ all # <<>> /\ old = Newest(archives[r]) /\ Serves(old, request[r], store)
    BY <1>1, RequestFacts DEF CacheHolds, InArchive, Newest
<1>3. /\ ArchiveHolds(old, store) /\ old \in ToSet(all)
      /\ old.fd \in FdsOf(request[r], archives[r])
  <2>1. Newest(archives[r]) \in ToSet(all) /\ Newest(archives[r]).fd \in FdsOf(request[r], archives[r])
      BY <1>2, RequestFacts, NewestIsHeld
  <2> QED BY <1>2, <2>1 DEF CacheSound
<1> HIDE DEF old
<1>4. /\ ArchiveHolds(new, store)
      /\ new.key = old.key /\ new.fd = old.fd /\ new.stat = old.stat
      /\ Current(r) \in DOMAIN new.members => HeaderIs(new, Current(r))
      /\ Current(r) \notin DOMAIN new.members =>
            Current(r) \notin ToSet(At(new.stat).shards[new.key])
    BY <1>3, LookUpHolds
<1>5. /\ Current(r) \in DOMAIN new.members =>
            /\ offsets' = [offsets EXCEPT ![new.fd] = new.members[Current(r)]]
            /\ GoOn(r, "bytes")
      /\ Current(r) \notin DOMAIN new.members =>
            EndRequest(r, <<>>, "missing") /\ offsets' = offsets
    BY DEF FindMember, old
<1> HIDE DEF new
<1>6. /\ IsList(list) /\ ToSet(list) \subseteq ToSet(all) \cup {new}
      /\ list # <<>> /\ list[Len(list)] = new
    BY <1>2, ListReplace DEF CacheSound
<1> HIDE DEF list
<1>7. Changes(archives, archives', r, cache)
    BY <1>1, ExceptChanges DEF ReadingInv
<1>8. DOMAIN cache = {"pid", "opened"} /\ cache.pid = r /\ cache.opened = list
    BY <1>2, NewOpened DEF CacheSound
<1> HIDE DEF cache
<1>9. CacheSound(cache, store)
    BY <1>2, <1>4, <1>6, <1>8 DEF CacheSound
<1>10. {a.fd : a \in ToSet(list)} \subseteq FdsOf(request[r], archives[r])
  <2>1. \A a \in ToSet(all) : a.fd \in FdsOf(request[r], archives[r])
      BY DEF FdsOf
  <2>2. \A a \in ToSet(list) : a \in ToSet(all) \/ a = new
      BY <1>6
  <2> HIDE DEF all
  <2> QED BY <1>3, <1>4, <2>1, <2>2
<1>11. CallHolds(NoRequest, store) /\ NoRequest.pc = "idle"
    BY NoRequestHolds
<1>12. CASE Current(r) \notin DOMAIN new.members
  <2>1. EndRequest(r, <<>>, "missing") /\ offsets' = offsets /\ store' = store
      BY <1>5, <1>12 DEF EndRequest
  <2>2. \E v \in request[r].since .. store :
          /\ request[r].shard \in DOMAIN At(v).shards
          /\ Current(r) \notin ToSet(At(v).shards[request[r].shard])
    <3>1. /\ old.stat \in request[r].since .. store /\ old.key = request[r].shard
          /\ old.key \in DOMAIN At(old.stat).shards
        BY <1>2 DEF Serves
    <3>2. Current(r) \notin ToSet(At(old.stat).shards[old.key])
        BY <1>4, <1>12
    <3> QED BY <3>1, <3>2
  <2> DEFINE a == [wanted |-> request[r].wanted, since |-> request[r].since,
                   values |-> <<>>, error |-> "missing",
                   last |-> [index |-> Current(r), shard |-> request[r].shard]]
  <2>3. AnswerHolds(a, store)
    <3>1. request[r].since \in 1 .. store
        BY <1>1, RequestFacts DEF CallHolds
    <3> QED BY <2>2, <3>1 DEF AnswerHolds
  <2>4. answers' = [answers EXCEPT ![r] = Append(@, a)]
      BY <2>1 DEF EndRequest
  <2> HIDE DEF a
  <2>5. /\ DOMAIN answers' = Readers
        /\ \A s \in Readers : IsList(answers'[s]) /\ \A b \in ToSet(answers'[s]) : AnswerHolds(b, store)
      BY <2>3, <2>4, AnswersAfter
  <2>6. Changes(request, request', r, NoRequest)
      BY <2>1, ExceptChanges DEF EndRequest, ReadingInv
  <2>7. /\ CacheHolds(r, NoRequest, cache, offsets', store)
        /\ FdsOf(NoRequest, cache) = {b.fd : b \in ToSet(list)}
      BY <1>8, <1>9, OutsideArchives, NoRequestHolds
  <2>8. DOMAIN offsets' = Descriptors /\ \A d \in Descriptors : offsets'[d] = offsets[d]
      BY <2>1 DEF ReadingInv
  <2> QED BY <1>2, <1>7, <1>8, <1>10, <1>11, <2>1, <2>5, <2>6, <2>7, <2>8, Frame
<1>13. CASE Current(r) \in DOMAIN new.members
  <2> DEFINE req == [request[r] EXCEPT !.pc = "bytes"]
  <2>1. /\ offsets' = [offsets EXCEPT ![new.fd] = new.members[Current(r)]]
        /\ ReadStep(r, req)
      BY <1>5, <1>13 DEF GoOn
  <2>2. SameCall(req, request[r]) /\ req.pc = "bytes" /\ req.shard = request[r].shard
      BY RequestFacts, NewPc
  <2> HIDE DEF req
  <2>3. CallHolds(req, store)
      BY <1>1, <2>2, RequestFacts, SameCallHolds
  <2>4. Changes(request, request', r, req) /\ store' = store
      BY <2>1, ExceptChanges DEF ReadStep, ReadingInv
  <2>5. Newest(cache) = new
      BY <1>6, <1>8 DEF Newest
  <2>6. Serves(new, req, store)
      BY <1>2, <1>4, <2>2 DEF Serves, SameCall
  <2>7. /\ DOMAIN offsets' = Descriptors /\ offsets'[new.fd] = new.members[Current(r)]
        /\ \A d \in Descriptors : offsets'[d] = offsets[d] \/ d = new.fd
    <3>1. DOMAIN offsets = Descriptors /\ new.fd \in Descriptors
        BY <1>4 DEF ReadingInv, ArchiveHolds
    <3> QED BY <2>1, <3>1
  <2>8. At(new.stat).shards[new.key][offsets'[new.fd]] = Min(req.left)
    <3>1. HeaderIs(new, Current(r)) /\ Current(r) = Min(req.left)
        BY <1>4, <1>13, <2>2 DEF Current, SameCall
    <3> QED BY <2>7, <3>1 DEF HeaderIs
  <2>9. CacheHolds(r, req, cache, offsets', store)
      BY <1>6, <1>8, <1>9, <2>2, <2>5, <2>6, <2>8 DEF CacheHolds, Holding
  <2>10. FdsOf(req, cache) \subseteq FdsOf(request[r], archives[r])
    <3>1. FdsOf(req, cache) = {a.fd : a \in ToSet(list)}
        BY <1>8, <2>2 DEF FdsOf, Holding
    <3> QED BY <1>10, <3>1
  <2>11. /\ DOMAIN answers' = Readers
         /\ \A s \in Readers : IsList(answers'[s]) /\ \A b \in ToSet(answers'[s]) : AnswerHolds(b, store)
      BY <2>1 DEF ReadStep, ReadingInv
  <2>12. \A d \in Descriptors :
           offsets'[d] = offsets[d]
             \/ (archives[r].pid = r /\ d \in FdsOf(request[r], archives[r]))
      BY <1>2, <1>3, <1>4, <2>7
  <2> QED BY <1>2, <1>7, <1>8, <2>3, <2>4, <2>7, <2>9, <2>10, <2>11, <2>12, Frame
<1> QED BY <1>12, <1>13

\* The bytes that are read are those of the sample that is wanted.
LEMMA ReadBytesKeeps ==
    ASSUME ReadingInv, NEW r \in Readers, ReadBytes(r)
    PROVE  ReadingInv'
<1> DEFINE opened == Last(archives[r].opened)
           key == At(opened.stat).shards[opened.key][offsets[opened.fd]]
           v == [index |-> Current(r), key |-> key, store |-> opened.stat]
<1>1. /\ request[r].pc = "bytes" /\ request[r].pc # "idle"
      /\ NextSample(r, v) /\ archives' = archives /\ offsets' = offsets
    BY DEF ReadBytes
<1>2. opened = Newest(archives[r])
    BY DEF Last, Newest
<1>3. key = Current(r) /\ opened.stat \in request[r].since .. store
    BY <1>1, <1>2, RequestFacts DEF CacheHolds, Serves, Current
<1>4. v.index = Current(r) /\ v.key = key /\ v.store = opened.stat
    OBVIOUS
<1> HIDE DEF v
<1>5. Right(v, request[r].since, store)
    BY <1>3, <1>4 DEF Right
<1> QED BY <1>1, <1>4, <1>5, NextSampleKeeps

LEMMA CloseArchivesKeeps ==
    ASSUME ReadingInv, NEW r \in Readers, CloseArchives(r)
    PROVE  ReadingInv'
<1> DEFINE cache == [pid |-> r, opened |-> <<>>]
<1>1. /\ request[r].pc \notin InArchive
      /\ archives' = [archives EXCEPT ![r] = cache]
      /\ store' = store /\ offsets' = offsets /\ request' = request /\ answers' = answers
    BY DEF CloseArchives, InArchive
<1>2. cache.pid = r /\ cache.opened = <<>> /\ DOMAIN cache = {"pid", "opened"}
    OBVIOUS
<1> HIDE DEF cache
<1>3. ToSet(cache.opened) = {} /\ IsList(cache.opened)
    BY <1>2 DEF ToSet, IsList
<1>4. CacheSound(cache, store)
    BY <1>2, <1>3 DEF CacheSound
<1>5. CacheHolds(r, request[r], cache, offsets', store) /\ FdsOf(request[r], cache) = {}
    BY <1>1, <1>3, <1>4, OutsideArchives
<1>6. Changes(archives, archives', r, cache) /\ Changes(request, request', r, request[r])
    BY <1>1, ExceptChanges DEF ReadingInv
<1>7. /\ DOMAIN answers' = Readers
      /\ \A s \in Readers : IsList(answers'[s]) /\ \A b \in ToSet(answers'[s]) : AnswerHolds(b, store)
      /\ DOMAIN offsets' = Descriptors /\ \A x \in Descriptors : offsets'[x] = offsets[x]
    BY <1>1 DEF ReadingInv
<1> QED BY <1>1, <1>5, <1>6, <1>7, RequestFacts, Frame

\* A forked process has what its parent has open, and reads nothing yet.
LEMMA ForkReaderKeeps ==
    ASSUME ReadingInv, NEW r \in Readers, NEW s \in Readers, ForkReader(r, s)
    PROVE  ReadingInv'
<1>1. /\ s # r /\ request[s] = NoRequest
      /\ archives' = [archives EXCEPT ![s] = archives[r]]
      /\ store' = store /\ offsets' = offsets /\ request' = request /\ answers' = answers
    BY DEF ForkReader, NotBegun
<1>2. Changes(archives, archives', s, archives[r])
    BY <1>1, ExceptChanges DEF ReadingInv
<1>3. /\ CacheHolds(s, request[s], archives[r], offsets, store)
      /\ FdsOf(request[s], archives[r]) = {a.fd : a \in ToSet(archives[r].opened)}
    BY <1>1, RequestFacts, NoRequestHolds, OutsideArchives
<1>4. ASSUME NEW x \in Readers
      PROVE  /\ CallHolds(request'[x], store') /\ CacheHolds(x, request'[x], archives'[x], offsets', store')
             /\ IsList(answers'[x]) /\ \A a \in ToSet(answers'[x]) : AnswerHolds(a, store')
  <2>1. CASE x = s
      BY <1>1, <1>2, <1>3, <2>1 DEF Changes, ReadingInv
  <2>2. CASE x # s
      BY <1>1, <1>2, <2>2 DEF Changes, ReadingInv
  <2> QED BY <2>1, <2>2
<1> DEFINE p(x) == IF x = s THEN r ELSE x
<1>5. \A x \in Readers : /\ p(x) \in Readers
                         /\ archives'[x].pid = archives[p(x)].pid
                         /\ FdsOf(request'[x], archives'[x]) \subseteq FdsOf(request[p(x)], archives[p(x)])
  <2>1. FdsOf(request[s], archives[r]) \subseteq FdsOf(request[r], archives[r])
      BY <1>3 DEF FdsOf
  <2> QED BY <1>1, <1>2, <2>1 DEF Changes
<1> HIDE DEF p
<1>6. ASSUME NEW x \in Readers, NEW y \in Readers, archives'[x].pid # archives'[y].pid
      PROVE  FdsOf(request'[x], archives'[x]) \cap FdsOf(request'[y], archives'[y]) = {}
  <2>1. FdsOf(request[p(x)], archives[p(x)]) \cap FdsOf(request[p(y)], archives[p(y)]) = {}
      BY <1>5, <1>6 DEF ReadingInv, Apart
  <2> QED BY <1>5, <2>1
<1>7. Apart'
    BY <1>6 DEF Apart
<1> QED BY <1>1, <1>2, <1>4, <1>7 DEF ReadingInv, Changes

LEMMA RebuildKeeps ==
    ASSUME ReadingInv, Rebuild
    PROVE  ReadingInv'
<1>1. /\ store \in Nat /\ store' = store + 1 /\ store' \in Versions
      /\ UNCHANGED <<archives, offsets, request, answers>>
    BY StoreReaderAssumption DEF Rebuild, ReadingInv, Versions
<1>2. store' \in Nat /\ store <= store'
    BY <1>1
<1>3. ASSUME NEW r \in Readers
      PROVE  /\ CallHolds(request[r], store') /\ CacheHolds(r, request[r], archives[r], offsets, store')
             /\ IsList(answers[r]) /\ \A a \in ToSet(answers[r]) : AnswerHolds(a, store')
    BY <1>1, <1>2, Later DEF ReadingInv
<1>4. Apart'
    BY <1>1 DEF ReadingInv, Apart
<1> QED BY <1>1, <1>3, <1>4 DEF ReadingInv

\* Nothing that a request is about has changed.
LEMMA ReadingUnchanged ==
    ASSUME ReadingInv, UNCHANGED <<store, archives, offsets, request, answers>>
    PROVE  ReadingInv'
BY DEF ReadingInv, Apart

-----------------------------------------------------------------------------
\* The opened dataset.  A dataset that is read changes in its caches only.
Kin(new, old) ==
    {"stat", "sizes", "count"} \subseteq DOMAIN old =>
        /\ {"stat", "sizes", "count"} \subseteq DOMAIN new
        /\ new.stat = old.stat /\ new.sizes = old.sizes /\ new.count = old.count

LEMMA KinHolds ==
    ASSUME NEW new, NEW old, Kin(new, old), DatasetHolds(old)
    PROVE  DatasetHolds(new)
BY DEF Kin, DatasetHolds

LEMMA KinIs ==
    ASSUME NEW ds, NEW x
    PROVE  /\ Kin(ds, ds)
           /\ Kin([ds EXCEPT !.rows = x], ds) /\ Kin([ds EXCEPT !.entries = x], ds)
           /\ Kin([ds EXCEPT !.view = x], ds) /\ Kin([ds EXCEPT !.covered = x], ds)
           /\ Kin([ds EXCEPT !.rows = x, !.entries = x], ds)
BY DEF Kin

\* Steps of requests, and the last steps of an opening: the dataset of one reader is
\* changed in its caches, and whoever has begun had begun before.
LEMMA OpeningFrame ==
    ASSUME OpeningInv, NEW r \in Readers,
           store' = store, markers' = markers,
           DOMAIN opening' = Readers, DOMAIN dataset' = Readers,
           \A s \in Readers : opening'[s] = opening[s] \/ opening'[s].pc \notin {"layout", "validate", "restat"},
           \A s \in Readers : s # r => dataset'[s] = dataset[s] /\ (Begun(s)' => Begun(s)),
           Begun(r)' => Begun(r) /\ Kin(dataset'[r], dataset[r])
    PROVE  OpeningInv'
<1>1. ASSUME NEW s \in Readers PROVE CallOpens(opening'[s], markers', store')
    BY DEF OpeningInv, CallOpens
<1>2. ASSUME NEW s \in Readers, Begun(s)' PROVE DatasetHolds(dataset'[s])
  <2>1. CASE s = r
      BY <1>2, <2>1, KinHolds DEF OpeningInv
  <2>2. CASE s # r
      BY <1>2, <2>2 DEF OpeningInv
  <2> QED BY <2>1, <2>2
<1>3. store' \in Versions /\ \A m \in markers' : MarkHolds(m)
    BY DEF OpeningInv
<1> QED BY <1>1, <1>2, <1>3 DEF OpeningInv

\* The reader whose request changes had begun, or begins with a dataset.
LEMMA RequestFrame ==
    ASSUME OpeningInv, ReadingInv, NEW r \in Readers,
           UNCHANGED <<store, markers, opening>>, DOMAIN dataset' = Readers,
           \A s \in Readers : s # r => dataset'[s] = dataset[s] /\ request'[s] = request[s],
           request[r].pc # "idle" \/ dataset[r] # Nothing,
           Kin(dataset'[r], dataset[r])
    PROVE  OpeningInv'
<1>1. \A s \in Readers : s # r => (Begun(s)' => Begun(s))
    BY DEF Begun
<1>2. Begun(r)
    BY DEF Begun
<1> QED BY <1>1, <1>2, OpeningFrame DEF OpeningInv

Requesting(r) ==
    /\ UNCHANGED <<store, markers, opening>>
    /\ \A s \in Readers : s # r => request'[s] = request[s]

LEMMA StepIsRequesting ==
    ASSUME ReadingInv, NEW r \in Readers
    PROVE  /\ \A req : ReadStep(r, req) => Requesting(r)
           /\ \A label : GoOn(r, label) => Requesting(r)
           /\ \A values, error : EndRequest(r, values, error) => Requesting(r)
           /\ \A error : Refuse(r, error) => Requesting(r) /\ dataset' = dataset
           /\ \A value : NextSample(r, value) => Requesting(r)
<1>1. \A req : ReadStep(r, req) => Requesting(r)
    BY ExceptChanges DEF ReadStep, Requesting, ReadingInv, Changes
<1>2. \A values, error : EndRequest(r, values, error) => Requesting(r)
    BY ExceptChanges DEF EndRequest, Requesting, ReadingInv, Changes
<1> QED BY <1>1, <1>2 DEF GoOn, Refuse, NextSample, Return

LEMMA RequestsKeepOpening ==
    ASSUME OpeningInv, ReadingInv, NEW r \in Readers,
           \/ \E wanted \in Requests : BeginRequest(r, wanted)
           \/ ReadSample(r) \/ OpenView(r) \/ ReadEntry(r)
           \/ FindArchive(r) \/ OpenArchive(r) \/ CheckArchive(r) \/ ReadSidecar(r)
           \/ FindMember(r) \/ ReadBytes(r)
    PROVE  OpeningInv'
<1>1. DOMAIN dataset = Readers
    BY DEF OpeningInv
<1>2. ASSUME Requesting(r), dataset' = dataset, request[r].pc # "idle" \/ dataset[r] # Nothing
      PROVE  OpeningInv'
    BY <1>1, <1>2, KinIs, RequestFrame DEF Requesting
<1>3. ASSUME Requesting(r), request[r].pc # "idle", NEW x,
             \/ dataset' = [dataset EXCEPT ![r] = [dataset[r] EXCEPT !.rows = x]]
             \/ dataset' = [dataset EXCEPT ![r] = [dataset[r] EXCEPT !.view = x]]
             \/ dataset' = [dataset EXCEPT ![r] = [dataset[r] EXCEPT !.entries = x]]
      PROVE  OpeningInv'
  <2>1. Kin(dataset'[r], dataset[r])
      BY <1>1, <1>3, KinIs
  <2>2. DOMAIN dataset' = Readers /\ \A s \in Readers : s # r => dataset'[s] = dataset[s]
      BY <1>1, <1>3
  <2> QED BY <1>3, <2>1, <2>2, RequestFrame DEF Requesting
<1>4. ASSUME NEW wanted \in Requests, BeginRequest(r, wanted) PROVE OpeningInv'
    BY <1>2, <1>4, StepIsRequesting DEF BeginRequest
<1>5. CASE ReadSample(r)
  <2>1. request[r].pc # "idle"
      BY <1>5 DEF ReadSample
  <2>2. CASE Refuse(r, "changed") \/ Refuse(r, "short")
      BY <1>2, <2>1, <2>2, StepIsRequesting
  <2>3. CASE /\ Requesting(r)
             /\ \E x : dataset' = [dataset EXCEPT ![r] = [dataset[r] EXCEPT !.rows = x]]
      BY <1>3, <2>1, <2>3
  <2>4. \/ Refuse(r, "changed") \/ Refuse(r, "short")
        \/ /\ GoOn(r, "view") \/ \E v : NextSample(r, v)
           /\ \E x : dataset' = [dataset EXCEPT ![r] = [dataset[r] EXCEPT !.rows = x]]
      BY <1>5 DEF ReadSample
  <2> QED BY <2>2, <2>3, <2>4, StepIsRequesting
<1>6. CASE OpenView(r)
  <2>1. request[r].pc # "idle"
      BY <1>6 DEF OpenView
  <2>2. \/ dataset' = dataset /\ GoOn(r, "entry")
        \/ /\ GoOn(r, "entry")
           /\ \E x : dataset' = [dataset EXCEPT ![r] = [dataset[r] EXCEPT !.view = x]]
        \/ EndRequest(r, <<>>, "changed") /\ dataset' = dataset
      BY <1>6 DEF OpenView
  <2> QED BY <1>2, <1>3, <2>1, <2>2, StepIsRequesting
<1>7. CASE ReadEntry(r)
  <2>1. request[r].pc # "idle"
      BY <1>7 DEF ReadEntry
  <2>2. \/ Refuse(r, "absent") \/ Refuse(r, "changed") \/ Refuse(r, "short")
        \/ /\ \E req : ReadStep(r, req)
           /\ \E x : dataset' = [dataset EXCEPT ![r] = [dataset[r] EXCEPT !.entries = x]]
      BY <1>7 DEF ReadEntry
  <2>3. CASE /\ \E req : ReadStep(r, req)
             /\ \E x : dataset' = [dataset EXCEPT ![r] = [dataset[r] EXCEPT !.entries = x]]
      BY <1>3, <2>1, <2>3, StepIsRequesting
  <2> QED BY <1>2, <2>1, <2>2, <2>3, StepIsRequesting
<1>8. CASE FindArchive(r)
    BY <1>2, <1>8, StepIsRequesting DEF FindArchive
<1>9. CASE OpenArchive(r)
  <2>1. request[r].pc # "idle" /\ dataset' = dataset
      BY <1>9 DEF OpenArchive, Refuse
  <2>2. Requesting(r)
      BY <1>9, StepIsRequesting DEF OpenArchive
  <2> QED BY <1>2, <2>1, <2>2
<1>10. CASE CheckArchive(r)
    BY <1>2, <1>10, StepIsRequesting DEF CheckArchive
<1>11. CASE ReadSidecar(r)
    BY <1>2, <1>11, StepIsRequesting DEF ReadSidecar
<1>12. CASE FindMember(r)
  <2>1. request[r].pc # "idle" /\ dataset' = dataset
      BY <1>12 DEF FindMember
  <2>2. Requesting(r)
      BY <1>12, StepIsRequesting DEF FindMember
  <2> QED BY <1>2, <2>1, <2>2
<1>13. CASE ReadBytes(r)
    BY <1>2, <1>13, StepIsRequesting DEF ReadBytes
<1> QED BY <1>4, <1>5, <1>6, <1>7, <1>8, <1>9, <1>10, <1>11, <1>12, <1>13

-----------------------------------------------------------------------------
\* A call of read_store_dataset goes a step.
LEMMA OpenFrame ==
    ASSUME OpeningInv, NEW r \in Readers, NEW req, OpenStep(r, req),
           markers \subseteq markers', \A m \in markers' : MarkHolds(m),
           CallOpens(req, markers', store),
           DOMAIN dataset' = Readers, \A s \in Readers : s # r => dataset'[s] = dataset[s],
           Begun(r)' => DatasetHolds(dataset'[r])
    PROVE  OpeningInv'
<1>1. Changes(opening, opening', r, req) /\ store' = store /\ request' = request
    BY ExceptChanges DEF OpenStep, OpeningInv
<1>2. ASSUME NEW s \in Readers PROVE CallOpens(opening'[s], markers', store')
  <2>1. CASE s = r
      BY <1>1, <2>1 DEF Changes
  <2>2. CASE s # r
    <3>1. CallOpens(opening[s], markers, store) /\ opening'[s] = opening[s]
        BY <1>1, <2>2 DEF OpeningInv, Changes
    <3> QED BY <1>1, <3>1 DEF CallOpens
  <2> QED BY <2>1, <2>2
<1>3. ASSUME NEW s \in Readers, Begun(s)' PROVE DatasetHolds(dataset'[s])
  <2>1. CASE s = r
      BY <1>3, <2>1
  <2>2. CASE s # r
      BY <1>1, <1>3, <2>2 DEF OpeningInv, Begun, Changes
  <2> QED BY <2>1, <2>2
<1> QED BY <1>1, <1>2, <1>3 DEF OpeningInv, Changes

\* The same when the dataset stays and the call is not one that has it.
LEMMA OpenFrameSame ==
    ASSUME OpeningInv, NEW r \in Readers, NEW req, OpenStep(r, req),
           markers \subseteq markers', \A m \in markers' : MarkHolds(m),
           CallOpens(req, markers', store), dataset' = dataset,
           req.pc \in {"load", "cover"} => Begun(r)
    PROVE  OpeningInv'
<1>1. opening'[r] = req /\ request' = request
    BY DEF OpenStep, OpeningInv
<1>2. Begun(r)' => Begun(r)
    BY <1>1 DEF Begun
<1>3. Begun(r)' => DatasetHolds(dataset'[r])
    BY <1>2 DEF OpeningInv
<1> QED BY <1>3, OpenFrame DEF OpeningInv

\* A view is loaded or checked: the dataset that was opened stays as it is.
LEMMA LoadFrame ==
    ASSUME OpeningInv, NEW r \in Readers, NEW ds, NEW req,
           opening[r].pc \in {"load", "cover"}, OpenStep(r, req), req.pc \in {"cover", "idle"},
           markers' = markers, Changes(dataset, dataset', r, ds), Kin(ds, dataset[r])
    PROVE  OpeningInv'
<1>1. DatasetHolds(dataset[r])
    BY DEF OpeningInv, Begun
<1>2. DatasetHolds(dataset'[r])
    BY <1>1, KinHolds DEF Changes
<1>3. CallOpens(req, markers', store)
    BY DEF CallOpens
<1>4. \A m \in markers : MarkHolds(m)
    BY DEF OpeningInv
<1> QED BY <1>2, <1>3, <1>4, OpenFrame DEF Changes

LEMMA OpeningSteps ==
    ASSUME OpeningInv, NEW r \in Readers,
           \/ \E preload \in BOOLEAN : BeginOpen(r, preload)
           \/ StatManifest(r) \/ ReadLayout(r) \/ ValidateIndex(r) \/ Restat(r)
           \/ LoadView(r) \/ CheckCoverage(r)
    PROVE  OpeningInv'
<1>0. store \in Nat /\ store \in 1 .. store /\ store \in Versions /\ DOMAIN dataset = Readers
      /\ CallOpens(opening[r], markers, store) /\ \A m \in markers : MarkHolds(m)
    BY StoreIsNumber DEF OpeningInv
<1>1. ASSUME NEW preload, BeginOpen(r, preload) PROVE OpeningInv'
  <2> DEFINE req == [pc |-> "stat", count |-> Here.count, preload |-> preload]
  <2>1. OpenStep(r, req) /\ markers' = markers /\ dataset' = dataset /\ req.pc = "stat"
      BY <1>1 DEF BeginOpen
  <2> HIDE DEF req
  <2>2. CallOpens(req, markers', store)
      BY <2>1 DEF CallOpens
  <2> QED BY <1>0, <2>1, <2>2, OpenFrameSame
<1>2. CASE StatManifest(r)
  <2> DEFINE req == [pc |-> "layout", count |-> opening[r].count, preload |-> opening[r].preload,
                      stat |-> store]
  <2>1. /\ OpenStep(r, req) /\ markers' = markers /\ dataset' = dataset
        /\ req.pc = "layout" /\ req.stat = store
      BY <1>2 DEF StatManifest
  <2> HIDE DEF req
  <2>2. CallOpens(req, markers', store)
      BY <1>0, <2>1 DEF CallOpens
  <2> QED BY <1>0, <2>1, <2>2, OpenFrameSame
<1>3. ASSUME GiveUp(r) PROVE OpeningInv'
  <2> DEFINE req == [pc |-> "failed"]
  <2>1. OpenStep(r, req) /\ markers' = markers /\ dataset' = dataset /\ req.pc = "failed"
      BY <1>3 DEF GiveUp
  <2> HIDE DEF req
  <2>2. CallOpens(req, markers', store)
      BY <2>1 DEF CallOpens
  <2> QED BY <1>0, <2>1, <2>2, OpenFrameSame
<1>4. CASE ReadLayout(r)
  <2> DEFINE req == [pc |-> "validate", count |-> opening[r].count,
                      preload |-> opening[r].preload, stat |-> opening[r].stat,
                      sizes |-> Here.sizes]
  <2>1. CASE GiveUp(r)
      BY <1>3, <2>1
  <2>2. CASE OpenStep(r, req) /\ UNCHANGED <<markers, dataset>>
    <3>1. /\ req.pc = "validate" /\ req.stat = opening[r].stat /\ req.sizes = Here.sizes
          /\ DOMAIN req = {"pc", "count", "preload", "stat", "sizes"}
        OBVIOUS
    <3>2. opening[r].stat \in 1 .. store
        BY <1>0, <1>4 DEF ReadLayout, CallOpens
    <3> HIDE DEF req
    <3>3. CallOpens(req, markers', store)
        BY <3>1, <3>2 DEF CallOpens, Here, At
    <3> QED BY <1>0, <2>2, <3>1, <3>3, OpenFrameSame
  <2> QED BY <1>4, <2>1, <2>2 DEF ReadLayout
<1>5. CASE ValidateIndex(r)
  <2> DEFINE req == [opening[r] EXCEPT !.pc = "restat"]
             mark == [count |-> opening[r].count, stat |-> opening[r].stat]
  <2>1. /\ opening[r].stat \in 1 .. store
        /\ DOMAIN opening[r] = {"pc", "count", "preload", "stat", "sizes"}
        /\ opening[r].stat = store => opening[r].sizes = At(store).sizes
      BY <1>0, <1>5 DEF ValidateIndex, CallOpens
  <2>2. /\ req.pc = "restat" /\ req.stat = opening[r].stat /\ req.count = opening[r].count
        /\ req.sizes = opening[r].sizes
        /\ DOMAIN req = {"pc", "count", "preload", "stat", "sizes"}
      BY <2>1
  <2> HIDE DEF req
  <2>3. CASE mark \in markers /\ OpenStep(r, req) /\ UNCHANGED <<markers, dataset>>
    <3>1. CallOpens(req, markers', store)
        BY <2>1, <2>2, <2>3 DEF CallOpens
    <3> QED BY <1>0, <2>2, <2>3, <3>1, OpenFrameSame
  <2>4. CASE /\ IndexIsValid(Here) /\ Len(Here.samples) = opening[r].count
             /\ store = opening[r].stat
             /\ markers' = markers \cup {mark} /\ OpenStep(r, req) /\ UNCHANGED dataset
    <3>1. CallOpens(req, markers', store)
        BY <2>1, <2>2, <2>4 DEF CallOpens
    <3>2. MarkHolds(mark)
        BY <1>0, <2>4 DEF MarkHolds, Here, At
    <3>3. \A m \in markers' : MarkHolds(m)
        BY <1>0, <2>4, <3>2
    <3> HIDE DEF mark
    <3> QED BY <2>2, <2>4, <3>1, <3>3, OpenFrameSame
  <2>5. CASE GiveUp(r)
      BY <1>3, <2>5
  <2> QED BY <1>5, <2>3, <2>4, <2>5 DEF ValidateIndex, req
<1>6. CASE Restat(r)
  <2> DEFINE req == IF opening[r].preload THEN [pc |-> "load"] ELSE NoStep
             ds == NewDataset(opening[r])
             mark == [count |-> opening[r].count, stat |-> opening[r].stat]
  <2>1. CASE GiveUp(r)
      BY <1>3, <2>1
  <2>2. CASE /\ store = opening[r].stat /\ dataset' = [dataset EXCEPT ![r] = ds]
             /\ OpenStep(r, req) /\ UNCHANGED markers
    <3>1. mark \in markers /\ opening[r].sizes = At(opening[r].stat).sizes
        BY <1>0, <1>6, <2>2 DEF Restat, CallOpens
    <3>2. MarkHolds(mark) /\ mark.count = opening[r].count /\ mark.stat = opening[r].stat
        BY <1>0, <3>1
    <3> HIDE DEF mark
    <3>3. /\ {"stat", "sizes", "count"} \subseteq DOMAIN ds
          /\ ds.stat = opening[r].stat /\ ds.count = opening[r].count /\ ds.sizes = opening[r].sizes
        BY DEF NewDataset
    <3> HIDE DEF ds
    <3>4. DatasetHolds(ds)
        BY <3>1, <3>2, <3>3 DEF DatasetHolds, MarkHolds
    <3>5. req.pc = "load" \/ req.pc = "idle"
        BY DEF NoStep
    <3> HIDE DEF req
    <3>6. CallOpens(req, markers', store)
        BY <3>5 DEF CallOpens
    <3>7. Changes(dataset, dataset', r, ds)
        BY <1>0, <2>2, ExceptChanges
    <3> QED BY <1>0, <2>2, <3>4, <3>6, <3>7, OpenFrame DEF Changes
  <2> QED BY <1>6, <2>1, <2>2 DEF Restat
<1>8. CASE LoadView(r)
  <2>1. CASE GiveUp(r)
      BY <1>3, <2>1
  <2>2. ASSUME NEW x, NEW req, req = [pc |-> "cover"],
               dataset' = [dataset EXCEPT ![r] = [dataset[r] EXCEPT !.view = x]],
               OpenStep(r, req), markers' = markers
        PROVE  OpeningInv'
    <3>1. Kin([dataset[r] EXCEPT !.view = x], dataset[r])
        BY KinIs
    <3>2. Changes(dataset, dataset', r, [dataset[r] EXCEPT !.view = x])
        BY <1>0, <2>2, ExceptChanges
    <3>3. req.pc \in {"cover", "idle"} /\ opening[r].pc \in {"load", "cover"}
        BY <1>8, <2>2 DEF LoadView
    <3>4. \A ds : Changes(dataset, dataset', r, ds) /\ Kin(ds, dataset[r]) => OpeningInv'
        BY <2>2, <3>3, LoadFrame
    <3> QED BY <3>1, <3>2, <3>4
  <2> QED BY <1>8, <2>1, <2>2 DEF LoadView
<1>9. CASE CheckCoverage(r)
  <2>1. CASE GiveUp(r)
      BY <1>3, <2>1
  <2>2. CASE /\ dataset' = [dataset EXCEPT ![r] = [dataset[r] EXCEPT !.covered = TRUE]]
             /\ OpenStep(r, NoStep) /\ markers' = markers
    <3>1. Kin([dataset[r] EXCEPT !.covered = TRUE], dataset[r])
        BY KinIs
    <3>2. Changes(dataset, dataset', r, [dataset[r] EXCEPT !.covered = TRUE])
        BY <1>0, <2>2, ExceptChanges
    <3>3. NoStep.pc \in {"cover", "idle"} /\ opening[r].pc \in {"load", "cover"}
        BY <1>9 DEF CheckCoverage, NoStep
    <3>4. \A ds : Changes(dataset, dataset', r, ds) /\ Kin(ds, dataset[r]) => OpeningInv'
        BY <2>2, <3>3, LoadFrame
    <3> QED BY <3>1, <3>2, <3>4
  <2> QED BY <1>9, <2>1, <2>2 DEF CheckCoverage
<1> QED BY <1>1, <1>2, <1>4, <1>5, <1>6, <1>8, <1>9

\* A dataset is handed to another process, or the store is built anew under it.
LEMMA HandingOn ==
    ASSUME OpeningInv, NEW r \in Readers, NEW s \in Readers, ForkReader(r, s) \/ Pickle(r, s)
    PROVE  OpeningInv'
<1> DEFINE copy == [dataset[r] EXCEPT !.rows = <<>>, !.entries = <<>>]
<1>1. /\ UNCHANGED <<store, markers, opening, request>> /\ dataset[r] # Nothing
      /\ dataset' = [dataset EXCEPT ![s] = dataset[r]] \/ dataset' = [dataset EXCEPT ![s] = copy]
    BY DEF ForkReader, Pickle
<1>2. DatasetHolds(dataset[r])
    BY <1>1 DEF OpeningInv, Begun
<1>3. Kin(copy, dataset[r])
    BY DEF Kin
<1> HIDE DEF copy
<1>4. DatasetHolds(copy)
    BY <1>2, <1>3, KinHolds
<1>5. /\ DOMAIN dataset' = Readers /\ DatasetHolds(dataset'[s])
      /\ \A x \in Readers : x # s => dataset'[x] = dataset[x]
    BY <1>1, <1>2, <1>4 DEF OpeningInv
<1>6. ASSUME NEW x \in Readers, Begun(x)' PROVE DatasetHolds(dataset'[x])
  <2>1. CASE x = s
      BY <1>5, <2>1
  <2>2. CASE x # s
      BY <1>1, <1>5, <1>6, <2>2 DEF OpeningInv, Begun
  <2> QED BY <2>1, <2>2
<1> QED BY <1>1, <1>5, <1>6 DEF OpeningInv

LEMMA RebuildKeepsOpening ==
    ASSUME OpeningInv, Rebuild
    PROVE  OpeningInv'
<1>1. /\ store \in Nat /\ store' = store + 1 /\ store' \in Versions
      /\ UNCHANGED <<markers, opening, dataset, request>>
    BY StoreReaderAssumption DEF Rebuild, OpeningInv, Versions
<1>2. ASSUME NEW r \in Readers PROVE CallOpens(opening[r], markers, store')
  <2>1. CallOpens(opening[r], markers, store)
      BY DEF OpeningInv
  <2>2. \A n : n \in 1 .. store => n \in 1 .. store' /\ n # store'
      BY <1>1
  <2> QED BY <1>1, <2>1, <2>2 DEF CallOpens
<1>3. \A r \in Readers : Begun(r)' => Begun(r)
    BY <1>1 DEF Begun
<1> QED BY <1>1, <1>2, <1>3 DEF OpeningInv

-----------------------------------------------------------------------------
LEMMA ReaderInit == RInit => ReaderInv
<1> SUFFICES ASSUME RInit PROVE ReaderInv
    OBVIOUS
<1>1. store = 1 /\ store \in Versions
    BY StoreReaderAssumption DEF RInit, Versions
<1>2. ASSUME NEW r \in Readers
      PROVE  /\ opening[r].pc = "idle" /\ dataset[r] = Nothing /\ request[r] = NoRequest
             /\ archives[r] = [pid |-> r, opened |-> <<>>] /\ answers[r] = <<>>
    BY DEF RInit, NoStep
<1>3. OpeningInv
  <2>1. ASSUME NEW r \in Readers
        PROVE  CallOpens(opening[r], markers, store) /\ ~Begun(r)
      BY <1>2, NoRequestHolds DEF CallOpens, Begun
  <2> QED BY <1>1, <2>1 DEF OpeningInv, RInit
<1>4. ToSet(<<>>) = {} /\ IsList(<<>>)
    BY DEF ToSet, IsList
<1>5. ASSUME NEW r \in Readers
      PROVE  /\ CacheHolds(r, request[r], archives[r], offsets, store)
             /\ FdsOf(request[r], archives[r]) = {}
  <2> DEFINE cache == [pid |-> r, opened |-> <<>>]
  <2>1. cache.opened = <<>> /\ DOMAIN cache = {"pid", "opened"}
      OBVIOUS
  <2> HIDE DEF cache
  <2>2. CacheSound(cache, store)
      BY <1>4, <2>1 DEF CacheSound
  <2>3. /\ CacheHolds(r, NoRequest, cache, offsets, store)
        /\ FdsOf(NoRequest, cache) = {a.fd : a \in ToSet(cache.opened)}
      BY <2>2, NoRequestHolds, OutsideArchives
  <2>4. FdsOf(NoRequest, cache) = {}
      BY <1>4, <2>1, <2>3
  <2> QED BY <1>2, <2>3, <2>4 DEF cache
<1>6. ReadingInv
  <2>1. Apart
      BY <1>5 DEF Apart
  <2>2. ASSUME NEW r \in Readers
        PROVE  CallHolds(request[r], store) /\ IsList(answers[r]) /\ ToSet(answers[r]) = {}
      BY <1>2, <1>4, NoRequestHolds
  <2> QED BY <1>1, <1>5, <2>1, <2>2 DEF ReadingInv, RInit
<1> QED BY <1>3, <1>6 DEF ReaderInv

LEMMA ReaderStep == ReaderInv /\ [RNext]_rvars => ReaderInv'
<1> SUFFICES ASSUME ReaderInv, [RNext]_rvars PROVE ReaderInv'
    OBVIOUS
<1> USE DEF ReaderInv
<1>1. CASE Rebuild
    BY <1>1, RebuildKeeps, RebuildKeepsOpening
<1>2. ASSUME NEW r \in Readers,
             \/ \E preload \in BOOLEAN : BeginOpen(r, preload)
             \/ StatManifest(r) \/ ReadLayout(r) \/ ValidateIndex(r) \/ Restat(r)
             \/ LoadView(r) \/ CheckCoverage(r)
      PROVE  ReaderInv'
  <2>1. OpeningInv'
      BY <1>2, OpeningSteps
  <2>2. UNCHANGED <<store, archives, offsets, request, answers>>
      BY <1>2 DEF BeginOpen, StatManifest, ReadLayout, ValidateIndex, Restat, LoadView,
                  CheckCoverage, OpenStep, GiveUp
  <2> QED BY <2>1, <2>2, ReadingUnchanged
<1>3. ASSUME NEW r \in Readers, NEW s \in Readers, ForkReader(r, s) PROVE ReaderInv'
    BY <1>3, ForkReaderKeeps, HandingOn
<1>4. ASSUME NEW r \in Readers, NEW s \in Readers, Pickle(r, s) PROVE ReaderInv'
  <2>1. UNCHANGED <<store, archives, offsets, request, answers>>
      BY <1>4 DEF Pickle
  <2> QED BY <1>4, <2>1, ReadingUnchanged, HandingOn
<1>5. ASSUME NEW r \in Readers, NEW wanted \in Requests, BeginRequest(r, wanted) PROVE ReaderInv'
  <2>1. Begun(r) => dataset[r].count \in Nat
    <3>1. ASSUME Begun(r) PROVE dataset[r].count \in Nat
      <4>1. DatasetHolds(dataset[r])
          BY <3>1 DEF OpeningInv
      <4> QED BY <4>1, StoreReaderAssumption DEF DatasetHolds, Versions, At
    <3> QED BY <3>1
  <2> QED BY <1>5, <2>1, BeginRequestKeeps, RequestsKeepOpening
<1>6. ASSUME NEW r \in Readers,
             \/ ReadSample(r) \/ OpenView(r) \/ ReadEntry(r)
             \/ FindArchive(r) \/ OpenArchive(r) \/ CheckArchive(r) \/ ReadSidecar(r)
             \/ FindMember(r) \/ ReadBytes(r)
      PROVE  ReaderInv'
  <2>1. OpeningInv'
      BY <1>6, RequestsKeepOpening
  <2> QED BY <1>6, <2>1, ReadSampleKeeps, OpenViewKeeps, ReadEntryKeeps, FindArchiveKeeps,
             OpenArchiveKeeps, CheckArchiveKeeps, ReadSidecarKeeps, FindMemberKeeps, ReadBytesKeeps
<1>7. ASSUME NEW r \in Readers, CloseArchives(r) PROVE ReaderInv'
  <2>1. UNCHANGED <<store, markers, opening, dataset, request>>
      BY <1>7 DEF CloseArchives
  <2>2. OpeningInv'
      BY <2>1 DEF OpeningInv, Begun
  <2> QED BY <1>7, <2>2, CloseArchivesKeeps
<1>8. CASE UNCHANGED rvars
  <2>1. OpeningInv'
      BY <1>8 DEF OpeningInv, Begun, rvars
  <2> QED BY <1>8, <2>1, ReadingUnchanged DEF rvars
<1> QED BY <1>1, <1>2, <1>3, <1>4, <1>5, <1>6, <1>7, <1>8 DEF RNext

\* What readers know of the store, of their archives and of their requests stays true:
\* the invariant behind the next theorem.
THEOREM ReaderSafe == RSpec => []ReaderInv
<1> QED BY ReaderInit, ReaderStep, PTL DEF RSpec

LEMMA ReaderAnswers == ReaderInv => StoreReadsHold
<1> SUFFICES ASSUME ReaderInv PROVE StoreReadsHold
    OBVIOUS
<1>1. OpenedIsValid
  <2>1. \A m \in markers : IndexIsValid(At(m.stat)) /\ Len(At(m.stat).samples) = m.count
      BY DEF ReaderInv, OpeningInv, MarkHolds
  <2>2. ASSUME NEW r \in Readers, dataset[r] # Nothing PROVE DatasetHolds(dataset[r])
      BY <2>2 DEF ReaderInv, OpeningInv, Begun
  <2> QED BY <2>1, <2>2 DEF OpenedIsValid, DatasetHolds
<1>2. \A r \in Readers : \A a \in ToSet(answers[r]) : AnswerHolds(a, store)
    BY DEF ReaderInv, ReadingInv
<1> QED BY <1>1, <1>2 DEF StoreReadsHold, AnswerHolds, Right

\* A dataset that is open is that of a valid store, and a sample that is read has its own
\* payload or none, whatever is rebuilt, forked, cached or closed meanwhile, for any stores,
\* readers, requests and limits of the caches (store/reader.py, store/payload/archive.py).
THEOREM StoreReadsSafe == RSpec => []StoreReadsHold
<1> QED BY ReaderSafe, ReaderAnswers, PTL

-----------------------------------------------------------------------------
(* SnapshotCatalog: the producer of an online materialization, its         *)
(* consumers, and the published prefix they implement.                     *)

\* DenseStop of a set of indexes is a number.
LEMMA DenseStopType ==
    ASSUME NEW done \in SUBSET Indexes(MaxCount)
    PROVE  DenseStop(done) \in Nat
<1>1. IsFiniteSet(Indexes(MaxCount))
    BY LimitsAssumption, FS_Interval DEF Indexes
<1>2. {i \in done : 0 .. i \subseteq done} \subseteq Indexes(MaxCount)
    OBVIOUS
<1>3. IsFiniteSet({i \in done : 0 .. i \subseteq done})
    BY <1>1, <1>2, FS_Subset
<1> QED BY <1>3, FS_CardinalityType DEF DenseStop

\* The sample count of a catalog is a number.
LEMMA SampleCountType ==
    ASSUME NEW c \in Catalogs
    PROVE  SampleCount(c) \in Nat
<1>1. c.entries \in Seq(Entries)
    BY DEF Catalogs
<1>2. CASE c.entries = <<>>
    BY <1>2 DEF SampleCount
<1>3. CASE c.entries # <<>>
    <2>1. Len(c.entries) \in DOMAIN c.entries
        BY <1>1, <1>3
    <2>2. c.entries[Len(c.entries)] \in Entries
        BY <1>1, <2>1
    <2> QED BY <1>3, <2>2 DEF SampleCount, Entries
<1> QED BY <1>2, <1>3

\* A catalog record is determined by its fields.
LEMMA EmptyCatalogType == EmptyCatalog \in Catalogs /\ SampleCount(EmptyCatalog) = 0
BY DEF EmptyCatalog, Catalogs, Entries, SampleCount

\* The local state of a call that has not started is well typed.
LEMMA NoCallType == NoCall \in PublisherTypes
BY EmptyCatalogType, LimitsAssumption DEF NoCall, PublisherTypes, Indexes

\* Missing samples lie below the length of the source.
LEMMA MissingType ==
    ASSUME NEW done, NEW n \in 0 .. MaxCount, NEW max
    PROVE  /\ Missing(done, n, max) \subseteq Indexes(MaxCount)
           /\ Missing(done, n, max) \cap done = {}
BY LimitsAssumption DEF Missing, Indexes

\* Start and Stop of a well typed call are numbers.
LEMMA RangeType ==
    ASSUME TypeOK, NEW p \in Producers
    PROVE  Start(p) \in Nat /\ Stop(p) \in Nat /\ call[p] \in PublisherTypes
<1>1. call[p] \in PublisherTypes
    BY DEF TypeOK
<1>2. Start(p) \in Nat
    BY <1>1, SampleCountType DEF Start, PublisherTypes
<1>3. Stop(p) \in Nat
    BY <1>1, DenseStopType DEF Stop, PublisherTypes
<1> QED BY <1>1, <1>2, <1>3

-----------------------------------------------------------------------------
(* Types.                                                                  *)

\* Publishing leaves the call well typed, at a known place.
LEMMA PublishToType ==
    ASSUME TypeOK, NEW p \in Producers, NEW done \in PublisherTypes,
           NEW back \in {"leftover", "compute", "wrapup", "return"},
           PublishTo(p, done, back)
    PROVE  call' \in [Producers -> PublisherTypes] /\ pc' = [pc EXCEPT ![p] = pc'[p]]
           /\ pc'[p] \in {"raise", "segment"}
<1>1. [done EXCEPT !.back = back] \in PublisherTypes
    BY DEF PublisherTypes
<1> QED BY <1>1 DEF PublishTo, Goto, TypeOK

\* Every step keeps the types.
LEMMA TypeStep == TypeOK /\ [Next]_vars => TypeOK'
<1> SUFFICES ASSUME TypeOK, [Next]_vars PROVE TypeOK'
    OBVIOUS
<1> USE NullAssumption, LimitsAssumption
<1>1. ASSUME NEW p \in Producers, Produce(p) PROVE TypeOK'
    <2>0. call[p] \in PublisherTypes /\ Start(p) \in Nat /\ Stop(p) \in Nat
        BY RangeType
    <2>1. CASE Begin(p)
        <3>1. \A max \in Sizes : [NoCall EXCEPT !.max = max] \in PublisherTypes
            BY NoCallType, SizesAssumption DEF PublisherTypes
        <3> QED BY <2>1, <3>1 DEF Begin, TypeOK, disk, consumers
    <2>2. CASE OpenSource(p)
        <3>1. \A n \in 0 .. MaxCount, s \in BOOLEAN :
                 [call[p] EXCEPT !.count = n, !.sealed = s] \in PublisherTypes
            BY <2>0 DEF PublisherTypes
        <3>2. call' \in [Producers -> PublisherTypes]
            <4>1. PICK n \in 0 .. MaxCount, s \in BOOLEAN :
                     call' = [call EXCEPT ![p] = [call[p] EXCEPT !.count = n, !.sealed = s]]
                BY <2>2 DEF OpenSource, TypeOK
            <4> QED BY <3>1, <4>1 DEF TypeOK
        <3> QED BY <2>2, <3>2 DEF OpenSource, Goto, TypeOK, disk, consumers
    <2>31. CASE MakeStaging(p)
        BY <2>31, LimitsAssumption DEF MakeStaging, Goto, TypeOK, Bare, consumers
    <2>3. CASE PrepareStaging(p)
        <3>1. [call[p] EXCEPT !.completed = durable, !.recorded = durable] \in PublisherTypes
            BY <2>0 DEF PublisherTypes, TypeOK
        <3>2. call' \in [Producers -> PublisherTypes] /\ staging' \in 0 .. Bare \cup {Null}
            BY <2>3, <2>0, <3>1, LimitsAssumption DEF PrepareStaging, TypeOK, PublisherTypes, Bare
        <3> QED BY <2>3, <3>2 DEF PrepareStaging, Goto, TypeOK, consumers
    <2>4. CASE InitialiseRoot(p)
        <3>1. [call[p] EXCEPT !.pub = EmptyCatalog, !.back = "leftover"] \in PublisherTypes
            BY <2>0, EmptyCatalogType DEF PublisherTypes
        <3> QED BY <2>4, <3>1 DEF InitialiseRoot, Goto, TypeOK, disk, consumers
    <2>5. CASE OpenCatalog(p)
        <3>1. catalog \in Catalogs
            BY <2>5 DEF OpenCatalog, TypeOK
        <3>2. [call[p] EXCEPT !.pub = catalog, !.before = SampleCount(catalog)]
                 \in PublisherTypes
            BY <2>0, <3>1, SampleCountType DEF PublisherTypes
        <3> QED BY <2>5, <3>2 DEF OpenCatalog, Goto, TypeOK, disk, consumers
    <2>6. CASE PublishLeftover(p)
        <3>1. CASE Due(p, TRUE)
            BY <2>0, <2>6, <3>1, PublishToType
               DEF PublishLeftover, TypeOK, disk, consumers
        <3>2. CASE ~Due(p, TRUE)
            <4>1. [call[p] EXCEPT !.todo =
                      Missing(call[p].completed, call[p].count, call[p].max)]
                         \in PublisherTypes
                BY <2>0, MissingType DEF PublisherTypes
            <4> QED BY <2>6, <3>2, <4>1 DEF PublishLeftover, Goto, TypeOK, disk, consumers
        <3> QED BY <3>1, <3>2
    <2>7. CASE CommitSegment(p)
        <3>1. NextEntry(p) \in Entries
            BY <2>0 DEF NextEntry, Entries
        <3>2. NextDirectory(p) \in Nat \X Nat \X Nat
            BY <2>0 DEF NextDirectory, NextEntry, Directory, PublisherTypes, Catalogs
        <3>3. [call[p] EXCEPT !.pub.entries = Append(@, NextEntry(p))] \in PublisherTypes
            <4>1. call[p].pub.entries \in Seq(Entries)
                BY <2>0 DEF PublisherTypes, Catalogs
            <4>2. Append(call[p].pub.entries, NextEntry(p)) \in Seq(Entries)
                BY <3>1, <4>1
            <4> QED BY <2>0, <4>2 DEF PublisherTypes, Catalogs
        <3>4. call' \in [Producers -> PublisherTypes]
            BY <2>7, <3>3 DEF CommitSegment, TypeOK
        <3> QED BY <2>7, <3>2, <3>4 DEF CommitSegment, Goto, TypeOK, consumers
    <2>8. CASE WriteCatalog(p)
        BY <2>8 DEF WriteCatalog, Goto, TypeOK, disk, consumers
    <2>9. CASE ReplaceCatalog(p)
        BY <2>9, <2>0 DEF ReplaceCatalog, Goto, TypeOK, consumers, PublisherTypes
    <2>10. CASE WriteFragment(p)
        <3>1. \A i \in call[p].todo :
                 /\ i \in Indexes(MaxCount)
                 /\ [call[p] EXCEPT !.todo = @ \ {i}, !.written = @ \cup {i}] \in PublisherTypes
            BY <2>0 DEF PublisherTypes
        <3>2. call' \in [Producers -> PublisherTypes] /\ durable' \in SUBSET Indexes(MaxCount)
            BY <2>10, <3>1 DEF WriteFragment, TypeOK
        <3> QED BY <2>10, <3>2 DEF WriteFragment, TypeOK, consumers
    <2>11. CASE Record(p)
        <3> DEFINE done(i) == [call[p] EXCEPT !.written = @ \ {i}, !.recorded = @ \cup {i}]
        <3>1. PICK i \in call[p].written :
                 \/ PublishTo(p, done(i), "compute")
                 \/ call' = [call EXCEPT ![p] = done(i)] /\ UNCHANGED pc
            BY <2>11 DEF Record
        <3>2. done(i) \in PublisherTypes
            BY <2>0 DEF PublisherTypes
        <3>3. CASE PublishTo(p, done(i), "compute")
            <4> HIDE DEF done
            <4> QED BY <2>11, <3>2, <3>3, PublishToType DEF Record, TypeOK, disk, consumers
        <3>4. CASE call' = [call EXCEPT ![p] = done(i)] /\ UNCHANGED pc
            <4> HIDE DEF done
            <4> QED BY <2>11, <3>2, <3>4 DEF Record, TypeOK, disk, consumers
        <3> QED BY <3>1, <3>3, <3>4
    <2>12. CASE Computed(p)
        <3> DEFINE done == [call[p] EXCEPT !.completed = durable]
        <3>1. done \in PublisherTypes
            BY <2>0 DEF PublisherTypes, TypeOK
        <3>2. CASE PublishTo(p, done, "wrapup")
            <4> HIDE DEF done
            <4> QED BY <2>12, <3>1, <3>2, PublishToType DEF Computed, TypeOK, disk, consumers
        <3>3. CASE call' = [call EXCEPT ![p] = done] /\ Goto(p, "wrapup")
            <4> HIDE DEF done
            <4> QED BY <2>12, <3>1, <3>3 DEF Computed, Goto, TypeOK, disk, consumers
        <3> QED BY <2>12, <3>2, <3>3 DEF Computed
    <2>13. CASE WrapUp(p)
        <3>1. CASE PublishTo(p, call[p], "wrapup")
            BY <2>0, <2>13, <3>1, PublishToType DEF WrapUp, TypeOK, disk, consumers
        <3>2. CASE ~PublishTo(p, call[p], "wrapup")
            <4>1. [call[p] EXCEPT !.pub.sealed = TRUE, !.back = "return"] \in PublisherTypes
                BY <2>0 DEF PublisherTypes, Catalogs
            <4>2. call' \in [Producers -> PublisherTypes]
                BY <2>13, <3>2, <4>1 DEF WrapUp, TypeOK
            <4> QED BY <2>13, <3>2, <4>2 DEF WrapUp, Goto, TypeOK, disk, consumers
        <3> QED BY <3>1, <3>2
    <2>14. CASE End(p)
        BY <2>14, NoCallType DEF End, TypeOK, disk, consumers
    <2>15. CASE Fail(p)
        BY <2>15 DEF Fail, Goto, TypeOK, disk, consumers
    <2>16. CASE Crash(p)
        BY <2>16, NoCallType DEF Crash, Goto, TypeOK, consumers
    <2> QED
        BY <1>1, <2>1, <2>2, <2>3, <2>4, <2>5, <2>6, <2>7, <2>8, <2>9, <2>10, <2>11,
           <2>31, <2>12, <2>13, <2>14, <2>15, <2>16 DEF Produce
<1>2. ASSUME NEW c \in Consumers, Consume(c) PROVE TypeOK'
    <2>1. CASE LoadCatalog(c)
        BY <2>1 DEF LoadCatalog, TypeOK, disk, producing
    <2>2. CASE ListRoot(c)
        BY <2>2, EmptyCatalogType DEF ListRoot, TypeOK, disk, producing
    <2>3. CASE OpenSegments(c)
        BY <2>3 DEF OpenSegments, TypeOK, disk, producing
    <2>4. CASE CloseDataset(c)
        BY <2>4 DEF CloseDataset, TypeOK, disk, producing
    <2> QED BY <1>2, <2>1, <2>2, <2>3, <2>4 DEF Consume
<1>3. CASE UNCHANGED vars
    BY <1>3 DEF vars, TypeOK
<1> QED BY <1>1, <1>2, <1>3 DEF Next

-----------------------------------------------------------------------------
(* One producer at a time.                                                 *)

\* While a producer steps the others are idle and stay so: its step is on its
\* own behalf, and every step but Begin needs the lock.
LEMMA LockStep ==
    ASSUME TypeOK, OneProducer, NEW p \in Producers, Produce(p)
    PROVE  /\ OneProducer'
           /\ \A q \in Producers \ {p} :
                pc[q] = "idle" /\ pc'[q] = "idle" /\ call'[q] = call[q]
           /\ held' = held /\ cpc' = cpc
<1> USE NullAssumption
<1>1. CASE Begin(p)
    BY <1>1 DEF Begin, OneProducer, TypeOK, consumers
<1>2. CASE ~Begin(p)
    <2>1. pc[p] # "idle"
        BY <1>2 DEF Produce, OpenSource, MakeStaging, PrepareStaging, InitialiseRoot, OpenCatalog,
           PublishLeftover, CommitSegment, WriteCatalog, ReplaceCatalog, WriteFragment,
           Record, Computed, WrapUp, End, Fail, Crash
    <2>2. lock = p /\ \A q \in Producers \ {p} : pc[q] = "idle"
        BY <2>1 DEF OneProducer
    <2>3. /\ lock' = p \/ pc'[p] = "idle"
          /\ \A q \in Producers \ {p} : pc'[q] = pc[q] /\ call'[q] = call[q]
          /\ held' = held /\ cpc' = cpc
        <3>1. CASE OpenSource(p)
            BY <2>1, <2>2, <3>1 DEF OpenSource, Goto, TypeOK, consumers
        <3>21. CASE MakeStaging(p)
            BY <2>1, <2>2, <3>21 DEF MakeStaging, Goto, TypeOK, consumers
        <3>2. CASE PrepareStaging(p)
            BY <2>1, <2>2, <3>2 DEF PrepareStaging, Goto, TypeOK, consumers
        <3>3. CASE InitialiseRoot(p)
            BY <2>1, <2>2, <3>3 DEF InitialiseRoot, Goto, TypeOK, consumers
        <3>4. CASE OpenCatalog(p)
            BY <2>1, <2>2, <3>4 DEF OpenCatalog, Goto, TypeOK, consumers
        <3>5. CASE PublishLeftover(p)
            BY <2>1, <2>2, <3>5 DEF PublishLeftover, Goto, PublishTo, TypeOK, consumers
        <3>6. CASE CommitSegment(p)
            BY <2>1, <2>2, <3>6 DEF CommitSegment, Goto, TypeOK, consumers
        <3>7. CASE WriteCatalog(p)
            BY <2>1, <2>2, <3>7 DEF WriteCatalog, Goto, TypeOK, consumers
        <3>8. CASE ReplaceCatalog(p)
            BY <2>1, <2>2, <3>8 DEF ReplaceCatalog, Goto, TypeOK, consumers
        <3>9. CASE WriteFragment(p)
            BY <2>1, <2>2, <3>9 DEF WriteFragment, Goto, TypeOK, consumers
        <3>10. CASE Record(p)
            BY <2>1, <2>2, <3>10 DEF Record, Goto, PublishTo, TypeOK, consumers
        <3>11. CASE Computed(p)
            BY <2>1, <2>2, <3>11 DEF Computed, Goto, PublishTo, TypeOK, consumers
        <3>12. CASE WrapUp(p)
            BY <2>1, <2>2, <3>12 DEF WrapUp, Goto, PublishTo, TypeOK, consumers
        <3>13. CASE End(p)
            BY <2>1, <2>2, <3>13 DEF End, Goto, TypeOK, consumers
        <3>14. CASE Fail(p)
            BY <2>1, <2>2, <3>14 DEF Fail, Goto, TypeOK, consumers
        <3>15. CASE Crash(p)
            BY <2>1, <2>2, <3>15 DEF Crash, Goto, TypeOK, consumers
        <3> QED
            BY <1>2, <3>1, <3>2, <3>3, <3>4, <3>5, <3>6, <3>7, <3>8, <3>9, <3>10, <3>11,
               <3>21, <3>12, <3>13, <3>14, <3>15 DEF Produce
    <2> QED BY <2>2, <2>3 DEF OneProducer
<1> QED BY <1>1, <1>2

-----------------------------------------------------------------------------
(* The catalog in memory and the catalog on disk.                          *)

\* Publishing from a place where memory and disk agree keeps them so.
LEMMA PublishToMemory ==
    ASSUME TypeOK, NEW p \in Producers, NEW done \in PublisherTypes, NEW back,
           PublishTo(p, done, back), catalog' = catalog, catalog # Null,
           call[p].pub = catalog, done.pub = catalog,
           DenseStop(done.recorded) > SampleCount(catalog)
    PROVE  /\ pc'[p] \in {"raise", "segment"}
           /\ pc'[p] = "segment" =>
                /\ call'[p].pub = catalog'
                /\ ~call'[p].pub.sealed
                /\ Stop(p)' > Start(p)'
BY DEF PublishTo, Goto, TypeOK, PublisherTypes, Start, Stop

\* Every step of a producer keeps memory and disk in step.
LEMMA MemoryStep ==
    ASSUME TypeOK, TypeOK', OneProducer, MemoryFollowsDisk, NEW p \in Producers, Produce(p)
    PROVE  MemoryFollowsDisk'
<1> DEFINE M ==
        /\ pc[p] \in {"leftover", "compute", "segment", "wrapup", "return"} =>
               catalog # Null /\ call[p].pub = catalog
        /\ pc[p] = "segment" => ~call[p].pub.sealed /\ Stop(p) > Start(p)
        /\ pc[p] \in {"write", "replace"} =>
               \/ call[p].pub = Published
               \/ Grown(call[p].pub, Published)
               \/ Finished(call[p].pub, Published)
<1>0. M
    BY DEF MemoryFollowsDisk
<1>1. \A q \in Producers \ {p} : pc'[q] = "idle"
    BY LockStep
<1>2. SUFFICES M'
    BY <1>1 DEF MemoryFollowsDisk
<1>3. call[p] \in PublisherTypes /\ Start(p) \in Nat /\ Stop(p) \in Nat
    BY RangeType
<1> USE NullAssumption
<1>4. CASE Begin(p)
    BY <1>4 DEF Begin, TypeOK
<1>5. CASE OpenSource(p)
    BY <1>5 DEF OpenSource, Goto, TypeOK
<1>61. CASE MakeStaging(p)
    BY <1>61 DEF MakeStaging, Goto, TypeOK
<1>6. CASE PrepareStaging(p)
    BY <1>6 DEF PrepareStaging, Goto, TypeOK
<1>7. CASE InitialiseRoot(p)
    BY <1>7, <1>3 DEF InitialiseRoot, Goto, TypeOK, PublisherTypes, Published, disk
<1>8. CASE OpenCatalog(p)
    BY <1>8, <1>3 DEF OpenCatalog, Goto, TypeOK, PublisherTypes, disk
<1>9. CASE PublishLeftover(p)
    <2>1. catalog # Null /\ call[p].pub = catalog /\ catalog' = catalog
        BY <1>0, <1>9 DEF PublishLeftover, disk
    <2>2. CASE Due(p, TRUE)
        BY <1>3, <1>9, <2>1, <2>2, PublishToMemory DEF PublishLeftover, Due, Start, Stop
    <2>3. CASE ~Due(p, TRUE)
        BY <1>3, <1>9, <2>1, <2>3 DEF PublishLeftover, Goto, TypeOK, PublisherTypes
    <2> QED BY <2>2, <2>3
<1>10. CASE CommitSegment(p)
    <2>1. catalog # Null /\ call[p].pub = catalog /\ catalog' = catalog
          /\ ~catalog.sealed /\ Stop(p) > Start(p)
        BY <1>0, <1>10 DEF CommitSegment
    <2>2. CASE pc'[p] = "raise"
        BY <2>2
    <2>3. CASE pc'[p] # "raise"
        <3>1. pc'[p] = "write"
              /\ call'[p].pub = [call[p].pub EXCEPT !.entries = Append(@, NextEntry(p))]
            <4>1. NextDirectory(p) \in segments \/ Start(p) .. Stop(p) - 1 \subseteq durable
                BY <1>10, <2>3 DEF CommitSegment, Goto, TypeOK
            <4>2. /\ call' = [call EXCEPT ![p] = [call[p] EXCEPT !.pub =
                                 [call[p].pub EXCEPT !.entries = Append(@, NextEntry(p))]]]
                  /\ pc' = [pc EXCEPT ![p] = "write"]
                BY <1>10, <4>1 DEF CommitSegment, Goto
            <4> QED BY <1>3, <4>2 DEF TypeOK, PublisherTypes
        <3>2. call[p].pub.entries \in Seq(Entries) /\ NextEntry(p) \in Entries
            BY <1>3 DEF PublisherTypes, Catalogs, NextEntry, Entries
        <3>3. call'[p].pub.entries = Append(call[p].pub.entries, NextEntry(p))
              /\ call'[p].pub.sealed = call[p].pub.sealed
            BY <1>3, <3>1 DEF PublisherTypes, Catalogs
        <3>4. Grown(call'[p].pub, catalog)
            BY <1>3, <2>1, <3>2, <3>3 DEF Grown, NextEntry, Start
        <3> QED BY <2>1, <3>1, <3>4 DEF Published, Grown, SampleCount
    <2> QED BY <2>2, <2>3
<1>11. CASE WriteCatalog(p)
    BY <1>0, <1>11 DEF WriteCatalog, Goto, TypeOK, disk, Published, Grown, Finished, SampleCount
<1>12. CASE ReplaceCatalog(p)
    BY <1>3, <1>12 DEF ReplaceCatalog, Goto, TypeOK, PublisherTypes
<1>13. CASE WriteFragment(p)
    <2>1. pc' = pc /\ catalog' = catalog /\ call'[p].pub = call[p].pub
          /\ call'[p].recorded = call[p].recorded
        BY <1>3, <1>13 DEF WriteFragment, TypeOK, PublisherTypes
    <2> QED
        BY <1>0, <2>1 DEF Published, Grown, Finished, SampleCount, Start, Stop
<1>14. CASE Record(p)
    <2>1. catalog # Null /\ call[p].pub = catalog /\ catalog' = catalog /\ pc[p] = "compute"
        BY <1>0, <1>14 DEF Record, disk
    <2> DEFINE done(i) == [call[p] EXCEPT !.written = @ \ {i}, !.recorded = @ \cup {i}]
    <2>2. PICK i \in call[p].written :
             IF /\ DenseStop(done(i).recorded) > Start(p)
                /\ DenseStop(done(i).recorded) - Start(p) >= call[p].max
             THEN PublishTo(p, done(i), "compute")
             ELSE call' = [call EXCEPT ![p] = done(i)] /\ UNCHANGED pc
        BY <1>14 DEF Record
    <2>3. done(i) \in PublisherTypes /\ done(i).pub = catalog
        BY <1>3, <2>1 DEF PublisherTypes
    <2> HIDE DEF done
    <2>4. CASE DenseStop(done(i).recorded) > Start(p)
               /\ DenseStop(done(i).recorded) - Start(p) >= call[p].max
        <3>1. PublishTo(p, done(i), "compute")
            BY <2>2, <2>4
        <3> QED BY <2>1, <2>3, <2>4, <3>1, PublishToMemory DEF Start
    <2>5. CASE ~(DenseStop(done(i).recorded) > Start(p)
                 /\ DenseStop(done(i).recorded) - Start(p) >= call[p].max)
        <3>1. call' = [call EXCEPT ![p] = done(i)] /\ pc' = pc
            BY <2>2, <2>5
        <3> QED BY <2>1, <2>3, <3>1 DEF TypeOK
    <2> QED BY <2>4, <2>5
<1>15. CASE Computed(p)
    <2>1. catalog # Null /\ call[p].pub = catalog /\ catalog' = catalog
        BY <1>0, <1>15 DEF Computed, disk
    <2> DEFINE done == [call[p] EXCEPT !.completed = durable]
    <2>2. done \in PublisherTypes /\ done.pub = catalog
          /\ done.recorded = call[p].recorded
        BY <1>3, <2>1 DEF PublisherTypes, TypeOK
    <2>3. IF Due(p, TRUE) THEN PublishTo(p, done, "wrapup")
          ELSE call' = [call EXCEPT ![p] = done] /\ Goto(p, "wrapup")
        BY <1>15 DEF Computed
    <2> HIDE DEF done
    <2>4. CASE Due(p, TRUE)
        BY <2>1, <2>2, <2>3, <2>4, PublishToMemory DEF Due, Start, Stop
    <2>5. CASE ~Due(p, TRUE)
        BY <2>1, <2>2, <2>3, <2>5 DEF Goto, TypeOK
    <2> QED BY <2>4, <2>5
<1>16. CASE WrapUp(p)
    <2>1. catalog # Null /\ call[p].pub = catalog /\ catalog' = catalog
        BY <1>0, <1>16 DEF WrapUp, disk
    <2>2. CASE ~Complete(p) \/ ~call[p].sealed \/ call[p].pub.sealed
        BY <1>16, <2>1, <2>2 DEF WrapUp, Goto, TypeOK
    <2>3. CASE ~(~Complete(p) \/ ~call[p].sealed \/ call[p].pub.sealed) /\ Due(p, TRUE)
        BY <1>3, <1>16, <2>1, <2>3, PublishToMemory DEF WrapUp, Due, Start, Stop
    <2>4. CASE ~(~Complete(p) \/ ~call[p].sealed \/ call[p].pub.sealed) /\ ~Due(p, TRUE)
        <3>1. /\ call'[p].pub = [call[p].pub EXCEPT !.sealed = TRUE]
              /\ pc'[p] \in {"write", "raise"}
            BY <1>3, <1>16, <2>4 DEF WrapUp, Goto, TypeOK, PublisherTypes
        <3>2. Finished(call'[p].pub, catalog')
            BY <1>3, <2>1, <3>1 DEF Finished, PublisherTypes, Catalogs
        <3> QED BY <2>1, <3>1, <3>2 DEF Published, Finished
    <2> QED BY <2>2, <2>3, <2>4
<1>17. CASE End(p)
    BY <1>17 DEF End, TypeOK
<1>18. CASE Fail(p)
    BY <1>18 DEF Fail, Goto, TypeOK
<1>19. CASE Crash(p)
    BY <1>19 DEF Crash, Goto, TypeOK
<1> QED
    BY <1>4, <1>5, <1>6, <1>7, <1>8, <1>9, <1>10, <1>11, <1>12, <1>13, <1>14, <1>15,
       <1>61, <1>16, <1>17, <1>18, <1>19 DEF Produce

-----------------------------------------------------------------------------
(* Fragments and segments behind the catalog.                              *)

\* Fragments and segments are never removed.
LEMMA DiskGrows ==
    ASSUME TypeOK, NEW p \in Producers, Produce(p)
    PROVE  durable \subseteq durable' /\ segments \subseteq segments'
BY DEF Produce, Begin, OpenSource, MakeStaging, PrepareStaging, InitialiseRoot, OpenCatalog,
   PublishLeftover, CommitSegment, WriteCatalog, ReplaceCatalog, WriteFragment,
   Record, Computed, WrapUp, End, Fail, Crash, disk

\* A catalog stays sound as fragments and segments are added.
LEMMA SoundStays ==
    ASSUME NEW c, Sound(c), durable \subseteq durable', segments \subseteq segments'
    PROVE  /\ \A k \in DOMAIN c.entries : Directory(k, c.entries[k]) \in segments'
           /\ Indexes(SampleCount(c)) \subseteq durable'
           /\ \A k \in DOMAIN c.entries :
                /\ c.entries[k].start = IF k = 1 THEN 0 ELSE c.entries[k - 1].stop
                /\ c.entries[k].start < c.entries[k].stop
BY DEF Sound, Stored

\* CommitSegment extends a sound catalog to a sound one.
LEMMA SoundAppend ==
    ASSUME TypeOK, NEW p \in Producers, CommitSegment(p), Sound(call[p].pub),
           \A d \in segments : d[2] .. d[3] - 1 \subseteq durable,
           Stop(p) > Start(p), pc'[p] = "write"
    PROVE  Sound(call[p].pub)'
<1> DEFINE old == call[p].pub.entries
           new == Append(old, NextEntry(p))
<1>1. call[p] \in PublisherTypes /\ Start(p) \in Nat /\ Stop(p) \in Nat
    BY RangeType
<1>2. /\ NextDirectory(p) \in segments \/ Start(p) .. Stop(p) - 1 \subseteq durable
      /\ call' = [call EXCEPT ![p] = [call[p] EXCEPT !.pub =
                     [call[p].pub EXCEPT !.entries = Append(@, NextEntry(p))]]]
      /\ segments' = segments \cup {NextDirectory(p)}
      /\ durable' = durable
    BY DEF CommitSegment, Goto, TypeOK
<1>3. call'[p].pub.entries = new
    BY <1>1, <1>2 DEF TypeOK, PublisherTypes, Catalogs
<1>4. old \in Seq(Entries) /\ NextEntry(p) \in Entries
    BY <1>1 DEF PublisherTypes, Catalogs, NextEntry, Entries
<1>5. /\ new \in Seq(Entries)
      /\ Len(new) = Len(old) + 1 /\ new[Len(new)] = NextEntry(p)
      /\ \A k \in DOMAIN old : new[k] = old[k]
      /\ DOMAIN new = 1 .. Len(old) + 1 /\ DOMAIN old = 1 .. Len(old)
      /\ Len(old) \in Nat /\ (old = <<>> <=> Len(old) = 0)
    <2>1. Len(old) \in Nat /\ DOMAIN old = 1 .. Len(old) /\ (old = <<>> <=> Len(old) = 0)
        BY <1>4
    <2>2. new \in Seq(Entries) /\ Len(new) = Len(old) + 1
        BY <1>4
    <2>3. DOMAIN new = 1 .. Len(old) + 1
        BY <2>2
    <2>4. new[Len(new)] = NextEntry(p) /\ \A k \in DOMAIN old : new[k] = old[k]
        BY <1>4, <2>1, <2>2
    <2> QED BY <2>1, <2>2, <2>3, <2>4
<1> HIDE DEF new
<1>6. Start(p) .. Stop(p) - 1 \subseteq durable
    BY <1>1, <1>2 DEF NextDirectory, Directory, NextEntry
<1>7. SampleCount(call'[p].pub) = Stop(p)
    BY <1>3, <1>4, <1>5 DEF SampleCount, NextEntry
<1>8. \A k \in DOMAIN new : Directory(k, new[k]) \in segments'
    BY <1>2, <1>4, <1>5 DEF Sound, Stored, NextDirectory
<1>9. Indexes(Stop(p)) \subseteq durable
    BY <1>1, <1>6 DEF Indexes, Sound, Start
<1>10. \A k \in DOMAIN new :
          /\ new[k].start = IF k = 1 THEN 0 ELSE new[k - 1].stop
          /\ new[k].start < new[k].stop
    <2>1. ASSUME NEW k \in DOMAIN old
          PROVE  /\ new[k].start = IF k = 1 THEN 0 ELSE new[k - 1].stop
                 /\ new[k].start < new[k].stop
        <3>1. /\ old[k].start = IF k = 1 THEN 0 ELSE old[k - 1].stop
              /\ old[k].start < old[k].stop
            BY DEF Sound
        <3>2. k # 1 => k - 1 \in DOMAIN old
            BY <1>5
        <3> QED BY <1>5, <3>1, <3>2
    <2>2. new[Len(old) + 1].start = Start(p) /\ new[Len(old) + 1].stop = Stop(p)
        BY <1>5 DEF NextEntry
    <2>3. Start(p) = IF old = <<>> THEN 0 ELSE old[Len(old)].stop
        BY DEF Start, SampleCount
    <2>4. Len(old) # 0 => new[Len(old)].stop = Start(p)
        <3> SUFFICES ASSUME Len(old) # 0 PROVE new[Len(old)].stop = Start(p)
            OBVIOUS
        <3>1. Len(old) \in DOMAIN old
            BY <1>5
        <3>2. new[Len(old)] = old[Len(old)]
            BY <1>5, <3>1
        <3>3. old # <<>>
            BY <1>5
        <3> QED BY <2>3, <3>2, <3>3
    <2>5. Len(old) = 0 => Start(p) = 0
        BY <1>5, <2>3
    <2>6. ASSUME NEW k \in DOMAIN new, k \notin DOMAIN old
          PROVE  /\ new[k].start = IF k = 1 THEN 0 ELSE new[k - 1].stop
                 /\ new[k].start < new[k].stop
        <3>1. k = Len(old) + 1 /\ k - 1 = Len(old)
            BY <1>5, <2>6
        <3>2. new[k].start = Start(p) /\ new[k].stop = Stop(p)
            BY <2>2, <3>1
        <3>3. new[k].start < new[k].stop
            BY <1>1, <3>2
        <3>4. CASE k = 1
            BY <2>5, <3>1, <3>2, <3>4
        <3>5. CASE k # 1
            BY <1>5, <2>4, <3>1, <3>2, <3>5
        <3> QED BY <3>3, <3>4, <3>5
    <2> QED BY <2>1, <2>6
<1>11. Stored(call[p].pub.entries)'
    BY <1>3, <1>8 DEF Stored
<1>12. (Indexes(SampleCount(call[p].pub)) \subseteq durable)'
    BY <1>2, <1>7, <1>9
<1>13. \A k \in DOMAIN call'[p].pub.entries :
          /\ call'[p].pub.entries[k].start = IF k = 1 THEN 0 ELSE call'[p].pub.entries[k - 1].stop
          /\ call'[p].pub.entries[k].start < call'[p].pub.entries[k].stop
    BY <1>3, <1>10
<1> QED BY <1>11, <1>12, <1>13 DEF Sound

\* Every step of a producer keeps the catalog and what is being written backed.
LEMMA BackedStep ==
    ASSUME TypeOK, TypeOK', OneProducer, MemoryFollowsDisk, Backed,
           NEW p \in Producers, Produce(p)
    PROVE  Backed'
<1> USE NullAssumption
<1>1. \A q \in Producers \ {p} : pc'[q] = "idle"
    BY LockStep
<1>2. durable \subseteq durable' /\ segments \subseteq segments'
    BY DiskGrows
<1>3. call[p] \in PublisherTypes /\ Start(p) \in Nat /\ Stop(p) \in Nat
    BY RangeType
<1>4. CASE catalog' = catalog /\ (pc'[p] \in {"write", "replace"} => Sound(call[p].pub)')
           /\ \A d \in segments' : d[2] .. d[3] - 1 \subseteq durable'
    <2>1. Sound(Published)'
        BY <1>2, <1>4, SoundStays DEF Backed, Published, Sound, Stored
    <2> QED BY <1>1, <1>4, <2>1 DEF Backed
<1>5. CASE segments' = segments /\ catalog' = catalog
           /\ (pc'[p] \in {"write", "replace"} =>
                   /\ pc[p] \in {"write", "replace"}
                   /\ call'[p].pub = call[p].pub)
    <2>1. \A d \in segments' : d[2] .. d[3] - 1 \subseteq durable'
        BY <1>2, <1>5 DEF Backed
    <2>2. pc'[p] \in {"write", "replace"} => Sound(call[p].pub)'
        BY <1>2, <1>5, SoundStays DEF Backed, Sound, Stored
    <2> QED BY <1>4, <1>5, <2>1, <2>2
<1>6. CASE InitialiseRoot(p)
    <2>1. segments' = segments /\ catalog' = catalog
          /\ \A d \in segments' : d[2] .. d[3] - 1 \subseteq durable'
        BY <1>2, <1>6 DEF InitialiseRoot, disk, Backed
    <2>2. pc'[p] = "write" => call'[p].pub = EmptyCatalog
        BY <1>3, <1>6 DEF InitialiseRoot, Goto, TypeOK, PublisherTypes
    <2>3. pc'[p] \in {"write", "replace"} => pc'[p] = "write"
        BY <1>6 DEF InitialiseRoot, Goto, TypeOK
    <2>4. call'[p].pub = EmptyCatalog => Sound(call[p].pub)'
        BY DEF Sound, Stored, EmptyCatalog, SampleCount, Indexes
    <2> QED BY <1>4, <2>1, <2>2, <2>3, <2>4
<1>7. CASE CommitSegment(p)
    <2>1. catalog # Null /\ call[p].pub = catalog /\ catalog' = catalog
          /\ Stop(p) > Start(p) /\ Sound(call[p].pub)
        BY <1>7 DEF CommitSegment, MemoryFollowsDisk, Backed, Published
    <2>2. pc'[p] \in {"write", "raise"}
        BY <1>7 DEF CommitSegment, Goto, TypeOK
    <2>3. pc'[p] = "write" => Sound(call[p].pub)'
        BY <1>7, <2>1, SoundAppend DEF Backed
    <2>4. \A d \in segments' : d[2] .. d[3] - 1 \subseteq durable'
        <3>1. \A d \in segments : d[2] .. d[3] - 1 \subseteq durable'
            BY <1>2 DEF Backed
        <3>2. NextDirectory(p) \in segments' =>
                 NextDirectory(p) \in segments
                 \/ NextDirectory(p)[2] .. NextDirectory(p)[3] - 1 \subseteq durable'
            BY <1>7, <1>2 DEF CommitSegment, NextDirectory, Directory, NextEntry
        <3> QED BY <1>7, <3>1, <3>2 DEF CommitSegment
    <2> QED BY <1>4, <2>1, <2>2, <2>3, <2>4
<1>8. CASE ReplaceCatalog(p)
    <2>1. segments' = segments /\ durable' = durable /\ catalog' = call[p].pub
          /\ pc'[p] \notin {"write", "replace"} /\ Sound(call[p].pub)
        BY <1>3, <1>8 DEF ReplaceCatalog, Goto, TypeOK, PublisherTypes, Backed
    <2>2. catalog' # Null
        BY <1>3, <2>1 DEF PublisherTypes
    <2>3. Sound(Published)'
        BY <2>1, <2>2 DEF Published, Sound, Stored
    <2> QED BY <1>1, <2>1, <2>3 DEF Backed
<1>9. CASE WrapUp(p)
    <2>1. catalog # Null /\ call[p].pub = catalog /\ catalog' = catalog
          /\ segments' = segments /\ durable' = durable /\ Sound(call[p].pub)
          /\ \A d \in segments' : d[2] .. d[3] - 1 \subseteq durable'
        BY <1>9 DEF WrapUp, disk, MemoryFollowsDisk, Backed, Published
    <2>2. CASE pc'[p] \in {"write", "replace"}
        <3>1. call'[p].pub = [call[p].pub EXCEPT !.sealed = TRUE]
            <4>1. ~PublishTo(p, call[p], "wrapup")
                BY <2>2 DEF PublishTo, Goto, TypeOK
            <4>2. ~(Goto(p, "return") /\ UNCHANGED call)
                BY <2>2 DEF Goto, TypeOK
            <4>3. call' = [call EXCEPT ![p] = [call[p] EXCEPT !.pub =
                              [call[p].pub EXCEPT !.sealed = TRUE], !.back = "return"]]
                BY <1>9, <4>1, <4>2 DEF WrapUp
            <4> QED BY <1>3, <4>3 DEF TypeOK, PublisherTypes
        <3>2. call'[p].pub.entries = call[p].pub.entries
            BY <1>3, <3>1 DEF PublisherTypes, Catalogs
        <3>3. Sound(call[p].pub)'
            BY <2>1, <3>2 DEF Sound, Stored, SampleCount
        <3> QED BY <1>4, <2>1, <3>3
    <2>3. CASE pc'[p] \notin {"write", "replace"}
        BY <1>4, <2>1, <2>3
    <2> QED BY <2>2, <2>3
<1>10. CASE Begin(p)
    BY <1>3, <1>5, <1>10 DEF Begin, Goto, TypeOK, PublisherTypes, disk
<1>11. CASE OpenSource(p)
    BY <1>3, <1>5, <1>11 DEF OpenSource, Goto, TypeOK, PublisherTypes, disk
<1>121. CASE MakeStaging(p)
    BY <1>3, <1>5, <1>121 DEF MakeStaging, Goto, TypeOK, PublisherTypes
<1>12. CASE PrepareStaging(p)
    BY <1>3, <1>5, <1>12 DEF PrepareStaging, Goto, TypeOK, PublisherTypes, disk
<1>13. CASE OpenCatalog(p)
    BY <1>3, <1>5, <1>13 DEF OpenCatalog, Goto, TypeOK, PublisherTypes, disk
<1>14. CASE PublishLeftover(p)
    BY <1>3, <1>5, <1>14 DEF PublishLeftover, Goto, PublishTo, TypeOK, PublisherTypes, disk
<1>15. CASE WriteCatalog(p)
    BY <1>3, <1>5, <1>15 DEF WriteCatalog, Goto, TypeOK, PublisherTypes, disk
<1>16. CASE WriteFragment(p)
    BY <1>3, <1>5, <1>16 DEF WriteFragment, Goto, TypeOK, PublisherTypes, disk
<1>17. CASE Record(p)
    BY <1>3, <1>5, <1>17 DEF Record, Goto, PublishTo, TypeOK, PublisherTypes, disk
<1>18. CASE Computed(p)
    BY <1>3, <1>5, <1>18 DEF Computed, Goto, PublishTo, TypeOK, PublisherTypes, disk
<1>19. CASE End(p)
    BY <1>3, <1>5, <1>19 DEF End, Goto, TypeOK, PublisherTypes, disk
<1>20. CASE Fail(p)
    BY <1>3, <1>5, <1>20 DEF Fail, Goto, TypeOK, PublisherTypes, disk
<1>21. CASE Crash(p)
    BY <1>3, <1>5, <1>21 DEF Crash, Goto, TypeOK, PublisherTypes, disk
<1> QED
    BY <1>6, <1>7, <1>8, <1>9, <1>10, <1>11, <1>12, <1>13,
       <1>121, <1>14, <1>15, <1>16, <1>17, <1>18, <1>19, <1>20, <1>21 DEF Produce

-----------------------------------------------------------------------------
(* What is still to compute.                                               *)

\* No step of a producer plans or repeats work on a durable sample.
LEMMA ComputeStep ==
    ASSUME TypeOK, OneProducer, BeforeCompute, NoRecompute,
           NEW p \in Producers, Produce(p)
    PROVE  BeforeCompute' /\ NoRecompute'
<1> DEFINE starting == pc[p] \in {"write", "replace"} /\ call[p].back = "leftover"
           B == /\ pc[p] \in {"idle", "source", "staging", "resume", "root", "leftover"} \/ starting =>
                       call[p].todo = {}
                /\ pc[p] \in {"root", "leftover"} \/ starting => call[p].completed = durable
                /\ pc[p] = "segment" => call[p].back # "leftover"
                /\ call[p].todo \cap durable = {}
<1>0. B
    BY DEF BeforeCompute, NoRecompute
<1>1. \A q \in Producers \ {p} : pc'[q] = "idle" /\ call'[q].todo = {}
    BY LockStep DEF BeforeCompute
<1>2. SUFFICES B'
    BY <1>1 DEF BeforeCompute, NoRecompute
<1>3. call[p] \in PublisherTypes
    BY DEF TypeOK
<1>4. CASE Begin(p)
    BY <1>4 DEF Begin, TypeOK, NoCall
<1>5. CASE PublishLeftover(p)
    <2>1. call[p].todo = {} /\ call[p].completed = durable /\ durable' = durable
        BY <1>0, <1>5 DEF PublishLeftover, disk
    <2>2. CASE Due(p, TRUE)
        BY <1>3, <1>5, <2>1, <2>2 DEF PublishLeftover, PublishTo, Goto, TypeOK, PublisherTypes
    <2>3. CASE ~Due(p, TRUE)
        <3>1. pc'[p] = "compute" /\ call'[p].todo =
                 Missing(call[p].completed, call[p].count, call[p].max)
            BY <1>3, <1>5, <2>3 DEF PublishLeftover, Goto, TypeOK, PublisherTypes
        <3>2. call'[p].todo \cap durable = {}
            BY <1>3, <2>1, <3>1, MissingType DEF PublisherTypes
        <3> QED BY <2>1, <3>1, <3>2
    <2> QED BY <2>2, <2>3
<1>6. CASE WriteFragment(p)
    <2>1. PICK i \in call[p].todo :
             /\ durable' = durable \cup {i}
             /\ call'[p].todo = call[p].todo \ {i}
             /\ call'[p].back = call[p].back
        BY <1>3, <1>6 DEF WriteFragment, TypeOK, PublisherTypes
    <2>2. pc' = pc /\ pc[p] \in {"compute", "segment", "write", "replace"}
        BY <1>6 DEF WriteFragment
    <2> QED BY <1>0, <2>1, <2>2
<1>7. CASE Record(p)
    <2> DEFINE done(i) == [call[p] EXCEPT !.written = @ \ {i}, !.recorded = @ \cup {i}]
    <2>1. PICK i \in call[p].written :
             \/ PublishTo(p, done(i), "compute")
             \/ call' = [call EXCEPT ![p] = done(i)] /\ UNCHANGED pc
        BY <1>7 DEF Record
    <2>2. done(i).todo = call[p].todo /\ done(i) \in PublisherTypes
        BY <1>3 DEF PublisherTypes
    <2>3. pc[p] = "compute" /\ durable' = durable
        BY <1>7 DEF Record, disk
    <2> HIDE DEF done
    <2> QED BY <1>0, <2>1, <2>2, <2>3 DEF PublishTo, Goto, TypeOK, PublisherTypes
<1>8. CASE Computed(p)
    <2> DEFINE done == [call[p] EXCEPT !.completed = durable]
    <2>1. /\ \/ PublishTo(p, done, "wrapup")
             \/ call' = [call EXCEPT ![p] = done] /\ Goto(p, "wrapup")
          /\ durable' = durable
        BY <1>8 DEF Computed, disk
    <2>2. done.todo = call[p].todo /\ done \in PublisherTypes
        BY <1>3 DEF PublisherTypes, TypeOK
    <2> HIDE DEF done
    <2> QED BY <1>0, <2>1, <2>2 DEF PublishTo, Goto, TypeOK, PublisherTypes
<1>9. CASE WrapUp(p)
    <2>1. durable' = durable /\ pc[p] = "wrapup"
        BY <1>9 DEF WrapUp, disk
    <2>2. CASE PublishTo(p, call[p], "wrapup")
        BY <1>0, <1>3, <2>1, <2>2 DEF PublishTo, Goto, TypeOK, PublisherTypes
    <2>3. CASE ~PublishTo(p, call[p], "wrapup")
        <3>1. /\ call'[p].todo = call[p].todo
              /\ \/ pc'[p] \in {"return", "raise"}
                 \/ call'[p].back = "return"
              /\ pc'[p] \in {"return", "write", "raise"}
            <4>1. CASE Goto(p, "return") /\ UNCHANGED call
                BY <4>1 DEF Goto, TypeOK
            <4>2. CASE ~(Goto(p, "return") /\ UNCHANGED call)
                <5>1. /\ call' = [call EXCEPT ![p] = [call[p] EXCEPT !.pub =
                                     [call[p].pub EXCEPT !.sealed = TRUE], !.back = "return"]]
                      /\ pc' = [pc EXCEPT ![p] = IF Start(p) = Stop(p) THEN "write" ELSE "raise"]
                    BY <1>9, <2>3, <4>2 DEF WrapUp, Goto
                <5> QED BY <1>3, <5>1 DEF TypeOK, PublisherTypes
            <4> QED BY <4>1, <4>2
        <3> QED BY <1>0, <2>1, <3>1
    <2> QED BY <2>2, <2>3
<1>10. CASE CommitSegment(p)
    <2>1. /\ durable' = durable /\ pc[p] = "segment"
          /\ call'[p].todo = call[p].todo /\ call'[p].back = call[p].back
          /\ pc'[p] \in {"write", "raise"}
        BY <1>3, <1>10 DEF CommitSegment, Goto, TypeOK, PublisherTypes
    <2> QED BY <1>0, <2>1
<1>11. CASE ReplaceCatalog(p)
    BY <1>0, <1>3, <1>11 DEF ReplaceCatalog, Goto, TypeOK, PublisherTypes
<1>12. CASE OpenSource(p)
    BY <1>0, <1>3, <1>12 DEF OpenSource, Goto, TypeOK, PublisherTypes, disk, NoCall
<1>131. CASE MakeStaging(p)
    BY <1>0, <1>3, <1>131 DEF MakeStaging, Goto, TypeOK, PublisherTypes, NoCall
<1>13. CASE PrepareStaging(p)
    BY <1>0, <1>3, <1>13 DEF PrepareStaging, Goto, TypeOK, PublisherTypes, disk, NoCall
<1>14. CASE InitialiseRoot(p)
    BY <1>0, <1>3, <1>14 DEF InitialiseRoot, Goto, TypeOK, PublisherTypes, disk, NoCall
<1>15. CASE OpenCatalog(p)
    BY <1>0, <1>3, <1>15 DEF OpenCatalog, Goto, TypeOK, PublisherTypes, disk, NoCall
<1>16. CASE WriteCatalog(p)
    BY <1>0, <1>3, <1>16 DEF WriteCatalog, Goto, TypeOK, PublisherTypes, disk, NoCall
<1>17. CASE End(p)
    BY <1>0, <1>3, <1>17 DEF End, Goto, TypeOK, PublisherTypes, disk, NoCall
<1>18. CASE Fail(p)
    BY <1>0, <1>3, <1>18 DEF Fail, Goto, TypeOK, PublisherTypes, disk, NoCall
<1>19. CASE Crash(p)
    BY <1>0, <1>3, <1>19 DEF Crash, Goto, TypeOK, PublisherTypes, disk, NoCall
<1> QED
    BY <1>4, <1>5, <1>6, <1>7, <1>8, <1>9, <1>10, <1>11, <1>12,
       <1>131, <1>13, <1>14, <1>15, <1>16, <1>17, <1>18, <1>19 DEF Produce

-----------------------------------------------------------------------------
(* Consumers.                                                              *)

\* What a producer does to the catalog: nothing, a first empty file, one more
\* segment, or the final mark.
LEMMA CatalogStep ==
    ASSUME TypeOK, MemoryFollowsDisk, NEW p \in Producers, Produce(p)
    PROVE  \/ Published' = Published
           \/ Grown(Published', Published)
           \/ Finished(Published', Published)
<1> USE NullAssumption
<1>1. CASE ReplaceCatalog(p)
    <2>1. call[p].pub \in Catalogs /\ catalog' = call[p].pub
        BY <1>1 DEF ReplaceCatalog, TypeOK, PublisherTypes
    <2>2. Published' = call[p].pub
        BY <2>1 DEF Published
    <2> QED BY <1>1, <2>2 DEF ReplaceCatalog, MemoryFollowsDisk
<1>2. CASE ~ReplaceCatalog(p)
    <2>1. catalog' = catalog
        BY <1>2 DEF Produce, Begin, OpenSource, MakeStaging, PrepareStaging, InitialiseRoot,
           OpenCatalog, PublishLeftover, CommitSegment, WriteCatalog, WriteFragment,
           Record, Computed, WrapUp, End, Fail, Crash, disk
    <2> QED BY <2>1 DEF Published
<1> QED BY <1>1, <1>2

\* What extends a prefix still extends it after one such step.
LEMMA ExtendsStays ==
    ASSUME NEW a \in Catalogs, NEW b \in Catalogs, NEW c \in Catalogs, Extends(b, a),
           c = b \/ Grown(c, b) \/ Finished(c, b)
    PROVE  Extends(c, a)
<1>1. /\ a.entries \in Seq(Entries) /\ b.entries \in Seq(Entries) /\ c.entries \in Seq(Entries)
      /\ a.sealed \in BOOLEAN /\ b.sealed \in BOOLEAN /\ c.sealed \in BOOLEAN
    BY DEF Catalogs
<1>2. CASE c = b
    BY <1>2
<1>3. CASE Grown(c, b)
    <2>1. ~a.sealed
        BY <1>3 DEF Grown, Extends
    <2>2. \A k \in DOMAIN a.entries : k \in DOMAIN b.entries
        BY <1>1 DEF Extends
    <2> QED BY <1>1, <1>3, <2>1, <2>2 DEF Grown, Extends
<1>4. CASE Finished(c, b)
    <2>1. a.sealed => c = b
        BY <1>1, <1>4 DEF Finished, Extends, Catalogs
    <2> QED BY <1>1, <1>4, <2>1 DEF Finished, Extends
<1> QED BY <1>2, <1>3, <1>4

\* A producer's step leaves every open dataset a prefix of what is published.
LEMMA HeldStep ==
    ASSUME TypeOK, TypeOK', OneProducer, MemoryFollowsDisk, HeldIsPrefix,
           NEW p \in Producers, Produce(p)
    PROVE  HeldIsPrefix'
<1>1. held' = held /\ cpc' = cpc /\ segments \subseteq segments'
    BY LockStep, DiskGrows
<1>2. Published \in Catalogs /\ Published' \in Catalogs
    BY EmptyCatalogType DEF TypeOK, Published
<1>3. ASSUME NEW c \in Consumers, held[c] # Null
      PROVE  Extends(Published', held[c]) /\ (cpc[c] = "open" => Stored(held[c].entries)')
    <2>1. held[c] \in Catalogs /\ Extends(Published, held[c])
        BY <1>3 DEF TypeOK, HeldIsPrefix
    <2>2. Extends(Published', held[c])
        BY <1>2, <2>1, CatalogStep, ExtendsStays
    <2>3. cpc[c] = "open" => Stored(held[c].entries)'
        BY <1>1, <1>3 DEF HeldIsPrefix, Stored
    <2> QED BY <2>2, <2>3
<1> QED BY <1>1, <1>3 DEF HeldIsPrefix, Extends

\* A consumer's step keeps the whole invariant: it writes nothing a producer reads.
LEMMA ConsumeStep ==
    ASSUME IInv, TypeOK', NEW c \in Consumers, Consume(c)
    PROVE  IInv'
<1> USE NullAssumption
<1>1. UNCHANGED <<durable, staging, segments, catalog, stray, lock, pc, call, calls, crashes>>
    BY DEF Consume, LoadCatalog, ListRoot, OpenSegments, CloseDataset, disk, producing
<1>2. OneProducer' /\ MemoryFollowsDisk' /\ Backed' /\ BeforeCompute' /\ NoRecompute'
    BY <1>1 DEF IInv, OneProducer, MemoryFollowsDisk, Backed, BeforeCompute, NoRecompute,
       Published, Grown, Finished, Sound, Stored, SampleCount, Start, Stop
<1>3. HeldIsPrefix'
    <2>1. \A d \in Consumers \ {c} : held'[d] = held[d] /\ cpc'[d] = cpc[d]
        BY DEF Consume, LoadCatalog, ListRoot, OpenSegments, CloseDataset, IInv, TypeOK
    <2>2. held'[c] # Null =>
             Extends(Published, held'[c]) /\ (cpc'[c] = "open" => Stored(held'[c].entries))
        <3>1. CASE LoadCatalog(c)
            BY <3>1 DEF LoadCatalog, IInv, TypeOK, Published, Extends
        <3>2. CASE ListRoot(c)
            BY <3>2 DEF ListRoot, IInv, TypeOK, Unexpected, Published, Extends, Stored, EmptyCatalog
        <3>3. CASE OpenSegments(c)
            BY <3>3 DEF OpenSegments, IInv, TypeOK, HeldIsPrefix
        <3>4. CASE CloseDataset(c)
            BY <3>4 DEF CloseDataset, IInv, TypeOK
        <3> QED BY <3>1, <3>2, <3>3, <3>4 DEF Consume
    <2> QED
        BY <1>1, <2>1, <2>2 DEF IInv, HeldIsPrefix, Extends, Published, Stored
<1> QED BY <1>2, <1>3 DEF IInv

-----------------------------------------------------------------------------
(* The invariant.                                                          *)

\* The initial states satisfy the invariant.
LEMMA InitIInv == Init => IInv
<1> SUFFICES ASSUME Init PROVE IInv
    OBVIOUS
<1> USE NullAssumption, LimitsAssumption DEF Init
<1>1. TypeOK
    <2>1. durable \in SUBSET Indexes(MaxCount) /\ segments \in SUBSET (Nat \X Nat \X Nat)
        OBVIOUS
    <2>2. call \in [Producers -> PublisherTypes]
        BY NoCallType
    <2>3. calls \in 0 .. CallLimit /\ crashes \in 0 .. CrashLimit
        OBVIOUS
    <2> QED BY <2>1, <2>2, <2>3 DEF TypeOK
<1>2. OneProducer /\ MemoryFollowsDisk /\ BeforeCompute /\ NoRecompute /\ HeldIsPrefix
    BY DEF OneProducer, MemoryFollowsDisk, BeforeCompute, NoRecompute, HeldIsPrefix, NoCall
<1>3. Backed
    BY DEF Backed, Published, Sound, Stored, EmptyCatalog, SampleCount, Indexes
<1> QED BY <1>1, <1>2, <1>3 DEF IInv

\* Every step keeps it.
LEMMA NextIInv == IInv /\ [Next]_vars => IInv'
<1> SUFFICES ASSUME IInv, [Next]_vars PROVE IInv'
    OBVIOUS
<1>0. TypeOK /\ TypeOK'
    BY TypeStep DEF IInv
<1>1. ASSUME NEW p \in Producers, Produce(p) PROVE IInv'
    <2>1. OneProducer'
        BY <1>1, LockStep DEF IInv
    <2>2. MemoryFollowsDisk'
        BY <1>0, <1>1, MemoryStep DEF IInv
    <2>3. Backed'
        BY <1>0, <1>1, BackedStep DEF IInv
    <2>4. BeforeCompute' /\ NoRecompute'
        BY <1>1, ComputeStep DEF IInv
    <2>5. HeldIsPrefix'
        BY <1>0, <1>1, HeldStep DEF IInv
    <2> QED BY <1>0, <2>1, <2>2, <2>3, <2>4, <2>5 DEF IInv
<1>2. ASSUME NEW c \in Consumers, Consume(c) PROVE IInv'
    BY <1>0, <1>2, ConsumeStep
<1>3. CASE UNCHANGED vars
    BY <1>0, <1>3 DEF vars, IInv, OneProducer, MemoryFollowsDisk, Backed, BeforeCompute,
       NoRecompute, HeldIsPrefix, Published, Grown, Finished, Extends, Sound, Stored,
       SampleCount, Start, Stop
<1> QED BY <1>1, <1>2, <1>3 DEF Next

\* The invariant holds in every reachable state.
THEOREM CatalogInvariant == Spec => []IInv
BY InitIInv, NextIInv, PTL DEF Spec

\* Every variable keeps its type.
THEOREM TypeCorrect == Spec => []TypeOK
<1>1. IInv => TypeOK
    BY DEF IInv
<1> QED BY <1>1, CatalogInvariant, PTL

\* However calls crash or fail, catalog.json names stored, adjoining segments
\* whose samples all have fragments.
THEOREM CatalogBacked == Spec => []CatalogIsBacked
<1>1. IInv => CatalogIsBacked
    BY DEF IInv, Backed, CatalogIsBacked
<1> QED BY <1>1, CatalogInvariant, PTL

\* An open dataset stays a stored prefix of the catalog, whatever producers do.
THEOREM HeldStaysPrefix == Spec => []HeldIsPrefix
<1>1. IInv => HeldIsPrefix
    BY DEF IInv
<1> QED BY <1>1, CatalogInvariant, PTL

\* No producer computes a sample that already has a fragment.
THEOREM NothingRecomputed == Spec => []NoRecompute
<1>1. IInv => NoRecompute
    BY DEF IInv
<1> QED BY <1>1, CatalogInvariant, PTL

-----------------------------------------------------------------------------
(* What is sealed: CountsItsSource, under IInv.                            *)

\* The dense prefix of all indexes is all of them.
LEMMA DenseStopOfAll ==
    ASSUME NEW n \in Nat
    PROVE  DenseStop(Indexes(n)) = n
<1>1. {i \in Indexes(n) : 0 .. i \subseteq Indexes(n)} = 0 .. n - 1
    BY DEF Indexes
<1>2. Cardinality(0 .. n - 1) = n
    BY FS_Interval
<1> QED BY <1>1, <1>2 DEF DenseStop

\* As many fragments as the source has samples are one of each.
LEMMA CompleteIsAll ==
    ASSUME NEW n \in Nat, NEW done \in SUBSET Indexes(n), Cardinality(done) = n
    PROVE  done = Indexes(n)
<1>1. PICK all : all = 0 .. n - 1 /\ all = Indexes(n) /\ IsFiniteSet(all) /\ Cardinality(all) = n
    <2>1. IsFiniteSet(0 .. n - 1) /\ Cardinality(0 .. n - 1) = n
        BY FS_Interval
    <2> QED BY <2>1 DEF Indexes
<1>2. done \in SUBSET all
    BY <1>1
<1> QED BY <1>1, <1>2, FS_Subset

\* What publish does with a call: it goes on to a segment, or raises.
LEMMA PublishToGoes ==
    ASSUME TypeOK, NEW p \in Producers, NEW done \in PublisherTypes,
           NEW back \in {"leftover", "compute", "wrapup", "return"}, PublishTo(p, done, back)
    PROVE  \/ pc'[p] = "raise"
           \/ /\ pc'[p] = "segment" /\ call'[p].back = back
              /\ call'[p].count = done.count /\ call'[p].recorded = done.recorded
              /\ call'[p].written = done.written /\ call'[p].todo = done.todo
              /\ call'[p].completed = done.completed
BY DEF PublishTo, Goto, TypeOK, PublisherTypes

\* What CountsItsSource says of one producer.
Counts(p) ==
    /\ pc[p] \in Staged =>
        /\ durable \subseteq Indexes(call[p].count)
        /\ durable = call[p].recorded \cup call[p].written
        /\ call[p].todo \subseteq Indexes(call[p].count)
        /\ call[p].completed \subseteq durable
    /\ Settled(p) => call[p].todo = {} /\ call[p].written = {}
    /\ pc[p] \in {"write", "replace"} /\ call[p].pub.sealed /\ ~Published.sealed =>
        call[p].sealed /\ SampleCount(call[p].pub) = call[p].count

\* The producer that has the lock counts the samples of its own source.
LEMMA CountsStep ==
    ASSUME IInv, TypeOK', CountsItsSource, NEW p \in Producers, Produce(p)
    PROVE  Counts(p)'
<1>0. TypeOK /\ OneProducer /\ MemoryFollowsDisk /\ BeforeCompute /\ Counts(p)
    BY DEF IInv, CountsItsSource, Counts
<1>1. call[p] \in PublisherTypes /\ Start(p) \in Nat /\ Stop(p) \in Nat
    BY <1>0, RangeType
<1> USE NullAssumption DEF Staged
<1>4. CASE Begin(p)
    <2>1. pc'[p] = "source" /\ call'[p].todo = {} /\ call'[p].written = {}
        BY <1>0, <1>4, NoCallType DEF Begin, TypeOK, NoCall
    <2> QED BY <2>1 DEF Counts
<1>5. CASE OpenSource(p)
    <2>1. PICK n \in 0 .. MaxCount, s \in BOOLEAN :
            call' = [call EXCEPT ![p] = [call[p] EXCEPT !.count = n, !.sealed = s]]
        BY <1>0, <1>5 DEF OpenSource, TypeOK
    <2>2. pc'[p] = "staging" /\ call'[p].todo = {} /\ call'[p].written = {}
        BY <1>0, <1>1, <1>5, <2>1 DEF OpenSource, Goto, TypeOK, PublisherTypes, Counts, Settled
    <2> QED BY <2>2 DEF Counts
<1>61. CASE MakeStaging(p)
    <2>1. pc'[p] = "resume" /\ call'[p].todo = {} /\ call'[p].written = {}
        BY <1>0, <1>61 DEF MakeStaging, Goto, TypeOK, Counts, Settled
    <2> QED BY <2>1 DEF Counts
<1>6. CASE PrepareStaging(p)
    <2>0. call[p].todo = {} /\ call[p].written = {} /\ durable' = durable
        BY <1>0, <1>6 DEF PrepareStaging, Counts, Settled
    <2>1. CASE pc'[p] # "root"
        <3>1. pc'[p] = "raise"
            BY <1>0, <1>6, <2>1 DEF PrepareStaging, Goto, TypeOK
        <3> QED BY <3>1 DEF Counts, Settled
    <2>2. CASE pc'[p] = "root"
        <3>1. /\ durable \subseteq Indexes(call[p].count)
              /\ call' = [call EXCEPT ![p] = [call[p] EXCEPT !.completed = durable, !.recorded = durable]]
            BY <1>0, <1>6, <2>2 DEF PrepareStaging, Goto, TypeOK
        <3>2. /\ call'[p].completed = durable /\ call'[p].recorded = durable
              /\ call'[p].todo = {} /\ call'[p].written = {} /\ call'[p].count = call[p].count
            BY <1>0, <1>1, <2>0, <3>1 DEF TypeOK, PublisherTypes
        <3> QED BY <2>0, <2>2, <3>1, <3>2 DEF Counts
    <2> QED BY <2>1, <2>2
<1>7. CASE InitialiseRoot(p)
    <2>0. call[p].todo = {} /\ call[p].written = {} /\ durable' = durable /\ pc[p] = "root"
        BY <1>0, <1>7 DEF InitialiseRoot, Counts, Settled, disk
    <2>1. CASE pc'[p] # "write"
        <3>1. pc'[p] = "raise"
            BY <1>0, <1>7, <2>1 DEF InitialiseRoot, Goto, TypeOK
        <3> QED BY <3>1 DEF Counts, Settled
    <2>2. CASE pc'[p] = "write"
        <3>1. call' = [call EXCEPT ![p] = [call[p] EXCEPT !.pub = EmptyCatalog, !.back = "leftover"]]
            BY <1>0, <1>7, <2>2 DEF InitialiseRoot, Goto, TypeOK
        <3>2. /\ call'[p].completed = call[p].completed /\ call'[p].recorded = call[p].recorded
              /\ call'[p].todo = {} /\ call'[p].written = {} /\ call'[p].count = call[p].count
              /\ ~call'[p].pub.sealed
            BY <1>0, <1>1, <2>0, <3>1 DEF TypeOK, PublisherTypes, EmptyCatalog
        <3> QED BY <1>0, <2>0, <2>2, <3>2 DEF Counts
    <2> QED BY <2>1, <2>2
<1>8. CASE OpenCatalog(p)
    <2>0. call[p].todo = {} /\ call[p].written = {} /\ durable' = durable /\ pc[p] = "root"
        BY <1>0, <1>8 DEF OpenCatalog, Counts, Settled, disk
    <2>1. CASE pc'[p] # "leftover"
        <3>1. pc'[p] = "raise"
            BY <1>0, <1>8, <2>1 DEF OpenCatalog, Goto, TypeOK
        <3> QED BY <3>1 DEF Counts, Settled
    <2>2. CASE pc'[p] = "leftover"
        <3>1. call' = [call EXCEPT ![p] = [call[p] EXCEPT !.pub = catalog, !.before = SampleCount(catalog)]]
            BY <1>0, <1>8, <2>2 DEF OpenCatalog, Goto, TypeOK
        <3>2. /\ call'[p].completed = call[p].completed /\ call'[p].recorded = call[p].recorded
              /\ call'[p].todo = {} /\ call'[p].written = {} /\ call'[p].count = call[p].count
            BY <1>0, <1>1, <2>0, <3>1 DEF TypeOK, PublisherTypes
        <3> QED BY <1>0, <2>0, <2>2, <3>2 DEF Counts
    <2> QED BY <2>1, <2>2
<1>9. CASE PublishLeftover(p)
    <2>0. call[p].todo = {} /\ call[p].written = {} /\ durable' = durable /\ pc[p] = "leftover"
        BY <1>0, <1>9 DEF PublishLeftover, Counts, Settled, disk
    <2>1. CASE Due(p, TRUE)
        BY <1>0, <1>1, <1>9, <2>0, <2>1, PublishToGoes DEF PublishLeftover, Counts, Settled
    <2>2. CASE ~Due(p, TRUE)
        <3> DEFINE missing == Missing(call[p].completed, call[p].count, call[p].max)
        <3>1. missing \subseteq Indexes(call[p].count)
            BY DEF Missing
        <3>2. /\ pc'[p] = "compute" /\ call'[p].todo = missing
              /\ call'[p].completed = call[p].completed /\ call'[p].recorded = call[p].recorded
              /\ call'[p].written = {} /\ call'[p].count = call[p].count
            BY <1>0, <1>1, <1>9, <2>0, <2>2 DEF PublishLeftover, Goto, TypeOK, PublisherTypes
        <3> HIDE DEF missing
        <3> QED BY <1>0, <2>0, <3>1, <3>2 DEF Counts, Settled
    <2> QED BY <2>1, <2>2
<1>10. CASE CommitSegment(p)
    <2>0. durable' = durable /\ pc[p] = "segment" /\ ~call[p].pub.sealed
        BY <1>0, <1>10 DEF CommitSegment, MemoryFollowsDisk
    <2>1. CASE pc'[p] # "write"
        <3>1. pc'[p] = "raise"
            BY <1>0, <1>10, <2>1 DEF CommitSegment, Goto, TypeOK
        <3> QED BY <3>1 DEF Counts, Settled
    <2>2. CASE pc'[p] = "write"
        <3>1. call' = [call EXCEPT ![p] = [call[p] EXCEPT !.pub =
                          [call[p].pub EXCEPT !.entries = Append(@, NextEntry(p))]]]
            BY <1>0, <1>10, <2>2 DEF CommitSegment, Goto, TypeOK
        <3>2. /\ call'[p].completed = call[p].completed /\ call'[p].recorded = call[p].recorded
              /\ call'[p].todo = call[p].todo /\ call'[p].written = call[p].written
              /\ call'[p].count = call[p].count /\ call'[p].back = call[p].back
              /\ ~call'[p].pub.sealed
            BY <1>0, <1>1, <2>0, <3>1 DEF TypeOK, PublisherTypes, Catalogs
        <3> QED BY <1>0, <2>0, <2>2, <3>2 DEF Counts, Settled
    <2> QED BY <2>1, <2>2
<1>11. CASE WriteCatalog(p)
    <2>1. /\ pc[p] = "write" /\ pc'[p] = "replace" /\ call' = call /\ durable' = durable
          /\ Published' = Published
        BY <1>0, <1>11 DEF WriteCatalog, Goto, TypeOK, disk, Published
    <2> QED BY <1>0, <2>1 DEF Counts, Settled, SampleCount
<1>12. CASE ReplaceCatalog(p)
    <2>1. /\ pc[p] = "replace" /\ pc'[p] = call[p].back /\ call' = call /\ durable' = durable
          /\ call[p].back \in {"leftover", "compute", "wrapup", "return"}
        BY <1>0, <1>1, <1>12 DEF ReplaceCatalog, Goto, TypeOK, PublisherTypes
    <2> QED BY <1>0, <2>1 DEF Counts, Settled
<1>13. CASE WriteFragment(p)
    <2>1. PICK i \in call[p].todo :
            /\ durable' = durable \cup {i}
            /\ call' = [call EXCEPT ![p] = [call[p] EXCEPT !.todo = @ \ {i}, !.written = @ \cup {i}]]
        BY <1>0, <1>13 DEF WriteFragment, TypeOK
    <2>2. /\ pc' = pc /\ Published' = Published
          /\ pc[p] \in {"compute", "segment", "write", "replace"}
        BY <1>13 DEF WriteFragment, Published
    <2>3. /\ call'[p].completed = call[p].completed /\ call'[p].recorded = call[p].recorded
          /\ call'[p].todo = call[p].todo \ {i} /\ call'[p].written = call[p].written \cup {i}
          /\ call'[p].count = call[p].count /\ call'[p].back = call[p].back
          /\ call'[p].pub = call[p].pub /\ call'[p].sealed = call[p].sealed
        BY <1>0, <1>1, <2>1 DEF TypeOK, PublisherTypes
    <2>4. ~Settled(p)
        BY <1>0, <2>1 DEF Counts
    <2> QED BY <1>0, <2>1, <2>2, <2>3, <2>4 DEF Counts, Settled, SampleCount
<1>14. CASE Record(p)
    <2> DEFINE done(i) == [call[p] EXCEPT !.written = @ \ {i}, !.recorded = @ \cup {i}]
    <2>1. PICK i \in call[p].written :
             IF /\ DenseStop(done(i).recorded) > Start(p)
                /\ DenseStop(done(i).recorded) - Start(p) >= call[p].max
             THEN PublishTo(p, done(i), "compute")
             ELSE call' = [call EXCEPT ![p] = done(i)] /\ UNCHANGED pc
        BY <1>14 DEF Record
    <2>2. /\ done(i) \in PublisherTypes
          /\ done(i).completed = call[p].completed /\ done(i).recorded = call[p].recorded \cup {i}
          /\ done(i).todo = call[p].todo /\ done(i).written = call[p].written \ {i}
          /\ done(i).count = call[p].count
        BY <1>1 DEF PublisherTypes
    <2>3. pc[p] = "compute" /\ durable' = durable
        BY <1>14 DEF Record, disk
    <2> HIDE DEF done
    <2>4. CASE PublishTo(p, done(i), "compute")
        <3>1. \/ pc'[p] = "raise"
              \/ /\ pc'[p] = "segment" /\ call'[p].back = "compute"
                 /\ call'[p].count = done(i).count /\ call'[p].recorded = done(i).recorded
                 /\ call'[p].written = done(i).written /\ call'[p].todo = done(i).todo
                 /\ call'[p].completed = done(i).completed
            BY <1>0, <2>2, <2>4, PublishToGoes
        <3> QED BY <1>0, <2>2, <2>3, <3>1 DEF Counts, Settled
    <2>5. CASE call' = [call EXCEPT ![p] = done(i)] /\ UNCHANGED pc
        <3>1. call'[p] = done(i) /\ pc'[p] = "compute"
            BY <1>0, <2>3, <2>5 DEF TypeOK
        <3> QED BY <1>0, <2>2, <2>3, <3>1 DEF Counts, Settled
    <2> QED BY <2>1, <2>4, <2>5
<1>15. CASE Computed(p)
    <2> DEFINE done == [call[p] EXCEPT !.completed = durable]
    <2>1. IF Due(p, TRUE) THEN PublishTo(p, done, "wrapup")
          ELSE call' = [call EXCEPT ![p] = done] /\ Goto(p, "wrapup")
        BY <1>15 DEF Computed
    <2>2. /\ done \in PublisherTypes
          /\ done.completed = durable /\ done.recorded = call[p].recorded
          /\ done.todo = {} /\ done.written = {} /\ done.count = call[p].count
        BY <1>0, <1>1, <1>15 DEF PublisherTypes, TypeOK, Computed
    <2>3. pc[p] = "compute" /\ durable' = durable /\ call[p].written = {}
        BY <1>15 DEF Computed, disk
    <2> HIDE DEF done
    <2>4. CASE PublishTo(p, done, "wrapup")
        <3>1. \/ pc'[p] = "raise"
              \/ /\ pc'[p] = "segment" /\ call'[p].back = "wrapup"
                 /\ call'[p].count = done.count /\ call'[p].recorded = done.recorded
                 /\ call'[p].written = done.written /\ call'[p].todo = done.todo
                 /\ call'[p].completed = done.completed
            BY <1>0, <2>2, <2>4, PublishToGoes
        <3> QED BY <1>0, <2>2, <2>3, <3>1 DEF Counts, Settled
    <2>5. CASE call' = [call EXCEPT ![p] = done] /\ Goto(p, "wrapup")
        <3>1. call'[p] = done /\ pc'[p] = "wrapup"
            BY <1>0, <2>5 DEF TypeOK, Goto
        <3> QED BY <1>0, <2>2, <2>3, <3>1 DEF Counts, Settled
    <2> QED BY <2>1, <2>4, <2>5
<1>16. CASE WrapUp(p)
    <2>0. /\ call[p].todo = {} /\ call[p].written = {} /\ durable' = durable /\ pc[p] = "wrapup"
          /\ call[p].recorded = durable /\ call[p].completed \subseteq durable
          /\ durable \subseteq Indexes(call[p].count)
        BY <1>0, <1>16 DEF WrapUp, Counts, Settled, disk
    <2>2. CASE ~Complete(p) \/ ~call[p].sealed \/ call[p].pub.sealed
        <3>1. pc'[p] = "return"
            BY <1>0, <1>16, <2>2 DEF WrapUp, Goto, TypeOK
        <3> QED BY <3>1 DEF Counts, Settled
    <2>3. CASE ~(~Complete(p) \/ ~call[p].sealed \/ call[p].pub.sealed) /\ Due(p, TRUE)
        <3>1. PublishTo(p, call[p], "wrapup")
            BY <1>16, <2>3 DEF WrapUp
        <3> QED BY <1>0, <1>1, <2>0, <3>1, PublishToGoes DEF Counts, Settled
    <2>4. CASE ~(~Complete(p) \/ ~call[p].sealed \/ call[p].pub.sealed) /\ ~Due(p, TRUE)
        <3>1. /\ Complete(p) /\ call[p].sealed
              /\ pc' = [pc EXCEPT ![p] = IF Start(p) = Stop(p) THEN "write" ELSE "raise"]
              /\ call' = [call EXCEPT ![p] = [call[p] EXCEPT
                             !.pub = [call[p].pub EXCEPT !.sealed = TRUE], !.back = "return"]]
            BY <1>16, <2>4 DEF WrapUp, Goto
        <3>2. /\ call'[p].completed = call[p].completed /\ call'[p].recorded = call[p].recorded
              /\ call'[p].todo = call[p].todo /\ call'[p].written = call[p].written
              /\ call'[p].count = call[p].count /\ call'[p].sealed = call[p].sealed
              /\ call'[p].pub.entries = call[p].pub.entries
            BY <1>0, <1>1, <3>1 DEF TypeOK, PublisherTypes, Catalogs
        <3>3. CASE Start(p) # Stop(p)
            <4>1. pc'[p] = "raise"
                BY <1>0, <3>1, <3>3 DEF TypeOK
            <4> QED BY <4>1 DEF Counts, Settled
        <3>4. CASE Start(p) = Stop(p)
            <4>1. call[p].count \in Nat
                BY <1>1, LimitsAssumption DEF PublisherTypes
            <4>2. call[p].completed = Indexes(call[p].count)
                BY <2>0, <3>1, <4>1, CompleteIsAll DEF Complete
            <4>3. call[p].recorded = Indexes(call[p].count)
                BY <2>0, <4>2
            <4>4. Stop(p) = call[p].count
                BY <4>1, <4>3, DenseStopOfAll DEF Stop
            <4>5. SampleCount(call'[p].pub) = call'[p].count
                BY <3>2, <3>4, <4>4 DEF Start, SampleCount
            <4> QED BY <2>0, <3>1, <3>2, <4>5 DEF Counts, Settled, SampleCount
        <3> QED BY <3>3, <3>4
    <2> QED BY <2>2, <2>3, <2>4
<1>17. CASE End(p)
    <2>1. pc'[p] = "idle" /\ call'[p].todo = {} /\ call'[p].written = {}
        BY <1>0, <1>17 DEF End, TypeOK, NoCall
    <2> QED BY <2>1 DEF Counts
<1>18. CASE Fail(p)
    <2>1. pc'[p] = "raise"
        BY <1>0, <1>18 DEF Fail, Goto, TypeOK
    <2> QED BY <2>1 DEF Counts, Settled
<1>19. CASE Crash(p)
    <2>1. pc'[p] = "idle" /\ call'[p].todo = {} /\ call'[p].written = {}
        BY <1>0, <1>19 DEF Crash, Goto, TypeOK, NoCall
    <2> QED BY <2>1 DEF Counts
<1> QED
    BY <1>4, <1>5, <1>6, <1>7, <1>8, <1>9, <1>10, <1>11, <1>12, <1>13, <1>14, <1>15,
       <1>61, <1>16, <1>17, <1>18, <1>19 DEF Produce

\* Every step keeps it: whoever is without the lock has nothing under way.
LEMMA CountsItsSourceStep == IInv /\ CountsItsSource /\ [Next]_vars => CountsItsSource'
<1> SUFFICES ASSUME IInv, CountsItsSource, [Next]_vars PROVE CountsItsSource'
    OBVIOUS
<1>0. TypeOK /\ TypeOK' /\ OneProducer
    BY TypeStep DEF IInv
<1>1. ASSUME NEW p \in Producers, Produce(p) PROVE CountsItsSource'
    <2>1. Counts(p)'
        BY <1>0, <1>1, CountsStep
    <2>2. ASSUME NEW q \in Producers \ {p} PROVE Counts(q)'
        <3>1. pc'[q] = "idle" /\ pc[q] = "idle" /\ call'[q] = call[q]
            BY <1>0, <1>1, LockStep
        <3>2. call[q].todo = {} /\ call[q].written = {}
            BY <3>1 DEF CountsItsSource, Settled
        <3> QED BY <3>1, <3>2 DEF Counts, Staged
    <2> QED BY <2>1, <2>2 DEF CountsItsSource, Counts
<1>2. ASSUME NEW c \in Consumers, Consume(c) PROVE CountsItsSource'
    <2>1. UNCHANGED <<durable, catalog, pc, call>>
        BY <1>2 DEF Consume, LoadCatalog, ListRoot, OpenSegments, CloseDataset, disk, producing
    <2> QED BY <2>1 DEF CountsItsSource, Settled, Published, SampleCount
<1>3. CASE UNCHANGED vars
    BY <1>3 DEF vars, CountsItsSource, Settled, Published, SampleCount
<1> QED BY <1>1, <1>2, <1>3 DEF Next

\* What a step that declares the catalog final has seen.
SealIsDue ==
    Published'.sealed /\ ~Published.sealed =>
        \E p \in Producers : call[p].sealed /\ SampleCount(Published') = call[p].count

\* The catalog is sealed only by a producer whose source was sealed, with all the
\* samples of that source.
THEOREM SealedIsComplete == Spec => SealsCompleteInput
<1>1. Init => CountsItsSource
    BY DEF Init, CountsItsSource, Staged, NoCall
<1>2. Spec => [](IInv /\ CountsItsSource)
    BY <1>1, InitIInv, NextIInv, CountsItsSourceStep, PTL DEF Spec
<1>3. IInv /\ CountsItsSource /\ [Next]_vars => [SealIsDue]_vars
    <2> SUFFICES ASSUME IInv, CountsItsSource, [Next]_vars, ~UNCHANGED vars PROVE SealIsDue
        OBVIOUS
    <2>1. CASE catalog' = catalog
        BY <2>1 DEF SealIsDue, Published
    <2>2. CASE catalog' # catalog
        <3>1. PICK p \in Producers : ReplaceCatalog(p)
            BY <2>2 DEF Next, Produce, Begin, OpenSource, MakeStaging, PrepareStaging, InitialiseRoot, OpenCatalog,
               PublishLeftover, CommitSegment, WriteCatalog, WriteFragment, Record, Computed, WrapUp,
               End, Fail, Crash, Consume, LoadCatalog, ListRoot, OpenSegments, CloseDataset, disk
        <3>2. call[p].pub \in Catalogs /\ catalog' = call[p].pub /\ pc[p] = "replace"
            BY <3>1 DEF ReplaceCatalog, IInv, TypeOK, PublisherTypes
        <3>3. Published' = call[p].pub
            BY <3>2, NullAssumption DEF Published
        <3> QED BY <3>2, <3>3 DEF SealIsDue, CountsItsSource, SampleCount
    <2> QED BY <2>1, <2>2
<1>4. Spec => [][SealIsDue]_vars
    BY <1>2, <1>3, PTL DEF Spec
<1>5. [SealIsDue]_vars => 
        [Published'.sealed /\ ~Published.sealed =>
            \E p \in Producers : call[p].sealed /\ SampleCount(Published') = call[p].count]_vars
    BY DEF SealIsDue
<1> QED BY <1>4, <1>5, PTL DEF SealsCompleteInput

-----------------------------------------------------------------------------
(* Refinement.                                                             *)

\* Every step is a step of the published prefix or leaves it as it is.
LEMMA PrefixStep == IInv /\ [Next]_vars => [Prefix!Next]_(Prefix!vars)
<1> SUFFICES ASSUME IInv, [Next]_vars PROVE [Prefix!Next]_(Prefix!vars)
    OBVIOUS
<1> USE NullAssumption
<1>0. TypeOK /\ TypeOK'
    BY TypeStep DEF IInv
<1>01. Published \in Catalogs /\ Published' \in Catalogs
    BY <1>0, EmptyCatalogType DEF TypeOK, Published
<1>1. ASSUME NEW p \in Producers, Produce(p) PROVE [Prefix!Next]_(Prefix!vars)
    <2>0. held' = held
        BY <1>1, LockStep DEF IInv
    <2>1. CASE Published' = Published
        BY <2>0, <2>1 DEF Prefix!vars
    <2>2. CASE Grown(Published', Published)
        BY <1>01, <2>0, <2>2 DEF Grown, Prefix!Next, Prefix!Publish, Prefix!End, SampleCount, Catalogs
    <2>3. CASE Finished(Published', Published)
        BY <1>01, <2>0, <2>3 DEF Finished, Prefix!Next, Prefix!Finalize, Catalogs
    <2> QED BY <1>0, <1>1, <2>1, <2>2, <2>3, CatalogStep DEF IInv
<1>2. ASSUME NEW c \in Consumers, Consume(c) PROVE [Prefix!Next]_(Prefix!vars)
    <2>0. Published' = Published
        BY <1>2 DEF Consume, LoadCatalog, ListRoot, OpenSegments, CloseDataset, disk, Published
    <2>1. Published = [entries |-> Published.entries, sealed |-> Published.sealed]
        BY <1>01 DEF Catalogs
    <2>2. \/ held' = held
          \/ held' = [held EXCEPT ![c] = Null]
          \/ held' = [held EXCEPT ![c] = Published]
        BY <1>0, <1>2 DEF Consume, LoadCatalog, ListRoot, OpenSegments, CloseDataset,
           Unexpected, Published, TypeOK
    <2> QED
        BY <2>0, <2>1, <2>2 DEF Prefix!Next, Prefix!Open, Prefix!Close, Prefix!vars
<1>3. CASE UNCHANGED vars
    BY <1>3 DEF vars, Prefix!vars, Published
<1> QED BY <1>1, <1>2, <1>3 DEF Next

\* Producers and consumers, with crashes and failures, implement the published
\* prefix: a log that only grows, until it is final, and readers that each
\* hold the log of one moment.
THEOREM PrefixImplemented == Spec => ImplementsPrefix
<1>1. Init => Prefix!Init
    BY DEF Init, Prefix!Init, Published, EmptyCatalog
<1>2. Init /\ [][Next]_vars /\ []IInv => Prefix!Init /\ [][Prefix!Next]_(Prefix!vars)
    BY <1>1, PrefixStep, PTL
<1> QED BY <1>2, CatalogInvariant, PTL DEF Spec, ImplementsPrefix, Prefix!Spec
=============================================================================
