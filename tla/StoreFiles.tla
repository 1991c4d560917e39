----------------------------- MODULE StoreFiles -----------------------------
(***************************************************************************)
(* The files that path mode extracts from the shards of a store, and the   *)
(* leases that keep them (store/payload/files.py, store/reader.py).  A     *)
(* lease is a shared flock on a lock file, and a count in the process that *)
(* holds it; cleanup takes the lock exclusively and removes the files.  A  *)
(* lock belongs to an open file description, which a fork shares: it is    *)
(* held until every process that has a descriptor of it closed it.         *)
(***************************************************************************)
EXTENDS Naturals

CONSTANTS
    None,
    Procs,        \* processes
    First,        \* the process that is there from the start
    MaxFds,       \* bound: lock files open at a time
    MaxLeases,    \* bound: leases that are taken
    MaxCleanups,  \* bound: cleanups that are called
    MaxShard      \* bound: versions of the shard

ASSUME StoreFilesAssumption ==
    /\ First \in Procs
    /\ MaxFds \in Nat /\ MaxLeases \in Nat /\ MaxCleanups \in Nat /\ MaxShard \in Nat \ {0}

Handles == {"dataset", "lease"}   \* the lease of the reader, and lease_store_files
Fds == 1 .. MaxFds
Shards == 1 .. MaxShard           \* a version of the shard is its stat fingerprint

VARIABLES
    alive,       \* processes that run
    locks,       \* open file descriptions: the mode of the lock and who has them open
    leases,      \* process -> handle -> None or the StoreFilesLease
    registered,  \* process -> its count in _LEASES
    cleaner,     \* process -> the call of cleanup_store_files
    reader,      \* process -> the payload that the dataset extracts
    kept,        \* process -> paths it was given under a lease it still has
    shard,       \* the shard as it is on disk
    files,       \* extracted file -> the version of the bytes in it, 0 when absent
    taken        \* leases and cleanups so far

svars == <<alive, locks, leases, registered, cleaner, reader, kept, shard, files, taken>>

Idle == [pc |-> "idle", fd |-> None]
NoRead == [pc |-> "idle", target |-> None, data |-> None, sure |-> TRUE]
NoLease == [h \in Handles |-> None]
ClosedFd == [mode |-> "none", holders |-> {}]

SInit ==
    /\ alive = {First}
    /\ locks = [d \in Fds |-> ClosedFd]
    /\ leases = [x \in Procs |-> NoLease]
    /\ registered = [x \in Procs |-> 0]
    /\ cleaner = [x \in Procs |-> Idle]
    /\ reader = [x \in Procs |-> NoRead]
    /\ kept = [x \in Procs |-> {}]
    /\ shard = 1
    /\ files = [v \in Shards |-> 0]
    /\ taken = [leases |-> 0, cleanups |-> 0]

-----------------------------------------------------------------------------
\* Lock files: os.open, fcntl.flock and os.close.
FreeFds == {d \in Fds : locks[d].holders = {}}
NewFd == CHOOSE d \in Fds : locks[d].holders = {}
Locked(modes) == \E d \in Fds : locks[d].mode \in modes

Opened(table, d, x, mode) == [table EXCEPT ![d] = [mode |-> mode, holders |-> {x}]]

\* The last descriptor that is closed gives the lock back.
Closed(table, d, x) ==
    [table EXCEPT ![d] =
        IF table[d].holders = {x} THEN ClosedFd
        ELSE [mode |-> table[d].mode, holders |-> table[d].holders \ {x}]]

Held(x) == {h \in Handles : leases[x][h] # None}

-----------------------------------------------------------------------------
\* StoreFilesLease._acquire: the shared lock waits for a cleanup to end.
Acquire(x, h) ==
    /\ x \in alive /\ leases[x][h] = None
    /\ h = "dataset" => reader[x] = NoRead
    /\ taken.leases < MaxLeases
    /\ ~Locked({"exclusive"}) /\ FreeFds # {}
    /\ locks' = Opened(locks, NewFd, x, "shared")
    /\ registered' = [registered EXCEPT ![x] = @ + 1]
    /\ leases' = [leases EXCEPT ![x][h] = [fd |-> NewFd, pid |-> x]]
    /\ taken' = [taken EXCEPT !.leases = @ + 1]
    /\ UNCHANGED <<alive, cleaner, reader, kept, shard, files>>

\* What a process keeps once a lease is let go: nothing, after the last one.
LetGo(x, h) ==
    IF Held(x) = {h}
    THEN /\ kept' = [kept EXCEPT ![x] = {}]
         /\ reader' = IF reader[x] = NoRead THEN reader ELSE [reader EXCEPT ![x].sure = FALSE]
    ELSE UNCHANGED <<kept, reader>>

\* close() of a lease of the process itself.
Release(x, h) ==
    /\ leases[x][h] # None /\ leases[x][h].pid = x
    /\ registered' = [registered EXCEPT ![x] = @ - 1]
    /\ locks' = Closed(locks, leases[x][h].fd, x)
    /\ leases' = [leases EXCEPT ![x][h] = None]
    /\ LetGo(x, h)
    /\ UNCHANGED <<alive, cleaner, shard, files, taken>>

\* close() of a lease that was inherited takes one of its own, which waits for a
\* cleanup, lets the inherited one go, and then its own.
ReleaseInherited(x, h) ==
    /\ leases[x][h] # None /\ leases[x][h].pid # x
    /\ ~Locked({"exclusive"}) /\ FreeFds # {}
    /\ locks' = Closed(locks, leases[x][h].fd, x)
    /\ leases' = [leases EXCEPT ![x][h] = None]
    /\ LetGo(x, h)
    /\ UNCHANGED <<alive, registered, cleaner, shard, files, taken>>

-----------------------------------------------------------------------------
\* A forked process has the descriptors of its parent, those of a cleanup too,
\* and its leases, which the registry counts for the parent; of the threads only
\* the one that forked goes on.
Fork(x, y) ==
    /\ x \in alive /\ y \notin alive
    /\ alive' = alive \cup {y}
    /\ locks' = [d \in Fds |-> IF x \in locks[d].holders
                               THEN [locks[d] EXCEPT !.holders = @ \cup {y}]
                               ELSE locks[d]]
    /\ leases' = [leases EXCEPT ![y] = leases[x]]
    /\ kept' = [kept EXCEPT ![y] = kept[x]]
    /\ UNCHANGED <<registered, cleaner, reader, shard, files, taken>>

\* A process that ends or is killed; bound: one stays.
Exit(x) ==
    /\ x \in alive /\ alive # {x}
    /\ alive' = alive \ {x}
    /\ locks' = [d \in Fds |-> IF x \in locks[d].holders THEN Closed(locks, d, x)[d] ELSE locks[d]]
    /\ leases' = [leases EXCEPT ![x] = NoLease]
    /\ registered' = [registered EXCEPT ![x] = 0]
    /\ cleaner' = [cleaner EXCEPT ![x] = Idle]
    /\ reader' = [reader EXCEPT ![x] = NoRead]
    /\ kept' = [kept EXCEPT ![x] = {}]
    /\ UNCHANGED <<shard, files, taken>>

-----------------------------------------------------------------------------
\* cleanup_store_files: a lease of the same process is refused before the lock
\* is tried.
AskRegistry(x) ==
    /\ x \in alive /\ cleaner[x].pc = "idle"
    /\ taken.cleanups < MaxCleanups /\ FreeFds # {}
    /\ taken' = [taken EXCEPT !.cleanups = @ + 1]
    /\ IF registered[x] > 0
       THEN UNCHANGED <<locks, cleaner>>
       ELSE /\ locks' = Opened(locks, NewFd, x, "none")
            /\ cleaner' = [cleaner EXCEPT ![x] = [pc |-> "asked", fd |-> NewFd]]
    /\ UNCHANGED <<alive, leases, registered, reader, kept, shard, files>>

CloseLock(x) ==
    /\ locks' = Closed(locks, cleaner[x].fd, x)
    /\ cleaner' = [cleaner EXCEPT ![x] = Idle]

\* Mutant: the cleanup waits for no other process.
LockAlone(x) ==
    /\ cleaner[x].pc = "asked"
    /\ cleaner' = [cleaner EXCEPT ![x].pc = "locked"]
    /\ UNCHANGED <<alive, locks, leases, registered, reader, kept, shard, files, taken>>

LockExclusive(x) ==
    /\ cleaner[x].pc = "asked"
    /\ IF Locked({"shared", "exclusive"})
       THEN CloseLock(x)
       ELSE /\ locks' = [locks EXCEPT ![cleaner[x].fd].mode = "exclusive"]
            /\ cleaner' = [cleaner EXCEPT ![x].pc = "locked"]
    /\ UNCHANGED <<alive, leases, registered, reader, kept, shard, files, taken>>

\* shutil.rmtree, one file at a time.
RemoveFile(x) ==
    /\ cleaner[x].pc = "locked"
    /\ \E v \in Shards : files[v] # 0 /\ files' = [files EXCEPT ![v] = 0]
    /\ UNCHANGED <<alive, locks, leases, registered, cleaner, reader, kept, shard, taken>>

EndCleanup(x) ==
    /\ cleaner[x].pc = "locked"
    /\ \A v \in Shards : files[v] = 0
    /\ CloseLock(x)
    /\ UNCHANGED <<alive, leases, registered, reader, kept, shard, files, taken>>

-----------------------------------------------------------------------------
\* A path is handed out, and promised for as long as a lease stays.
Serve(x, v) ==
    /\ kept' = [kept EXCEPT ![x] = IF reader[x].sure THEN @ \cup {v} ELSE @]
    /\ reader' = [reader EXCEPT ![x] = NoRead]

\* _cached_file_payload: the path is named after the shard as it is.
NamePath(x) ==
    /\ x \in alive /\ reader[x] = NoRead
    /\ leases[x]["dataset"] # None
    /\ IF files[shard] # 0
       THEN Serve(x, shard)
       ELSE /\ reader' = [reader EXCEPT ![x].pc = "named", ![x].target = shard]
            /\ UNCHANGED kept
    /\ UNCHANGED <<alive, locks, leases, registered, cleaner, shard, files, taken>>

ReadShard(x) ==
    /\ reader[x].pc = "named"
    /\ reader' = [reader EXCEPT ![x].pc = "read", ![x].data = shard]
    /\ UNCHANGED <<alive, locks, leases, registered, cleaner, kept, shard, files, taken>>

\* The bytes are stored when the shard still has the name, else the read fails.
StoreFile(x) ==
    /\ reader[x].pc = "read"
    /\ IF shard = reader[x].target
       THEN files' = [files EXCEPT ![shard] = reader[x].data] /\ Serve(x, shard)
       ELSE reader' = [reader EXCEPT ![x] = NoRead] /\ UNCHANGED <<files, kept>>
    /\ UNCHANGED <<alive, locks, leases, registered, cleaner, shard, taken>>

\* The store is rebuilt at its path.
ReplaceShard ==
    /\ shard < MaxShard
    /\ shard' = shard + 1
    /\ UNCHANGED <<alive, locks, leases, registered, cleaner, reader, kept, files, taken>>

SNext ==
    \/ \E x \in Procs : \E h \in Handles :
          Acquire(x, h) \/ Release(x, h) \/ ReleaseInherited(x, h)
    \/ \E x, y \in Procs : Fork(x, y)
    \/ \E x \in Procs :
          \/ Exit(x)
          \/ AskRegistry(x) \/ LockExclusive(x) \/ RemoveFile(x) \/ EndCleanup(x)
          \/ NamePath(x) \/ ReadShard(x) \/ StoreFile(x)
    \/ ReplaceShard

-----------------------------------------------------------------------------
\* A path stays what it was handed out as.  As long as a process has a lease that
\* it took before it let the previous one go, the dataset's own or one of
\* lease_store_files, every path it was given names a file with the bytes of the
\* shard version it was extracted from: no cleanup of any process comes between,
\* also when the lease was inherited over a fork whose parent is gone or let its
\* own go, and a shard that is replaced in the middle of an extraction leaves no
\* file of mixed name and bytes (README.md:793-812).
PathsHold ==
    \A x \in alive : \A v \in kept[x] : files[v] = v
=============================================================================
