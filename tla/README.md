# Verification of the transactional compound layer

The server is an NFS-Ganesha derivative that executes NFSv4 compounds
transactionally: either every operation of a compound takes effect or none does.
This directory holds TLA+ models of the parts that implement that promise, the
TLC configurations that check them, and TLAPS proofs.

## 1. The system

| part | source (under `src/src/`) | state it owns | operations |
|---|---|---|---|
| compound executor | `Protocols/NFS/nfs4_Compound.c` | `op_ctx` (transaction id, lock handle, op index) | op loop, `start_compound`, `backup_nfs4_op`, `end_compound` |
| transaction export | `FSAL/Stackable_FSALs/FSAL_TXN/export.c` | export, LevelDB handle, lock manager, cleanup queue | `txnfs_start_compound`, `txnfs_end_compound`, `txnfs_backup_nfs4_op` |
| lock set computation | `FSAL_TXN/locking.c` | none | `find_relevant_handles` |
| path lock manager | `txn/lock_manager.cpp` | table path -> (write flag, count) | `lock`, `try_lock`, `unlock` |
| backup | `FSAL_TXN/backup.c` | `.txn/<txnid>/<opidx>.bkp` | `txnfs_create_or_lookup_backup_dir`, `txnfs_backup_file` |
| rollback | `FSAL_TXN/undo.c`, `opvec.c` | operation vector | `do_txn_rollback` and one undo per operation |
| handle map | `FSAL_TXN/helper.c`, `handle.c` | per-compound cache, LevelDB `uuid-`/`fhdl-` entries | insert, delete, look up, `txnfs_cache_commit` |
| cleanup | `FSAL_TXN/cleanup.c` | ring queue, worker thread | `submit_cleanup_task`, `backup_worker` |
| transaction log | `txn/txn_logger.cpp`, `txn_backend.cpp` | LevelDB records | `create_txn_log`, `write_txn`, `enumerate_txn` |
| recovery | `txn/undo_executor.cpp` | none | `undo_txn_execute` |
| id manager | `txn/id_manager.cpp` | next id, reserved bound | `initialize_id_manager`, `generate_file_id`, `uuid_allocate` |
| path utilities | `txn/util/path_utils.cpp` | none | normalise, join, rebase, split |
| metadata cache | `FSAL/Stackable_FSALs/FSAL_MDCACHE/mdcache_lru.c`, `mdcache_hash.h`, `mdcache_helpers.c` | entries, LRU queues, hash table | find, create, kill, put, reap, `lru_run` |
| duplicate request cache | `RPCAL/nfs_dupreq.c`, `MainNFSD/nfs_worker_thread.c` | one cache (DRC) per client address, recycle queue | `nfs_dupreq_start`, `_finish`, `_delete`, `_rele` |

### How they interact

A worker thread takes a request, asks the duplicate request cache whether it has
seen it (`nfs_dupreq_start`), and executes a compound (`nfs4_Compound.c`). The
objects it works on are entries of the metadata cache, which sits above the
transaction layer. Once an operation has
established the export, `txnfs_start_compound` gives the compound an id if it contains an operation that
changes something (`create_txn_log`), initialises its handle cache, computes the
paths it touches and locks them. Before each operation `txnfs_backup_nfs4_op`
backs up the bytes that a WRITE or a truncating OPEN destroys; REMOVE renames its
target into the compound's backup folder. Objects get a UUID when TXNFS first
sees them; new UUIDs are collected in the cache. At the end
`txnfs_end_compound` unlocks the paths, then commits the cache to LevelDB (success) or
replays the compound's file handles and undoes its operations (failure), and
hands the backup folder to the cleanup worker.

What is hard about it:

* threads race for sets of paths, and for the queue of the cleanup worker;
* the rollback works on the tree as the failed compound has left it, changes it
  while it replays, and may be abandoned half-way;
* backups are aligned to pages, files end anywhere;
* ids must stay unique over crashes;
* entries of the two caches are counted, queued and freed by threads that hold
  different locks in turn;
* what is in memory (cache, queue, locks, next ids) and what is on disk
  (LevelDB, `.txn`) part company in a crash or a failed write.

What correctness means for each part: holders of a path exclude each other and the
lock table is exact; a compound locks what it changes; ids are unique; every
backup folder is released once; the rollback restores bytes, sizes and names;
concurrent compounds are isolated, and all or nothing; a handle stays good as
long as its object has a name; cached entries are counted exactly and freed once;
a retransmitted request is answered from its own client's cache.

## 2. Modules

| module | models | abstract specification | runs with | proofs |
|---|---|---|---|---|
| `PathUtils` | path utilities | walking the path (`MCLockSet`) | `MCLockSet`, `MCLockManager` | |
| `LockManager` | path lock manager | `ReadersWriters` | `MCLockManager` | `LockManagerProofs` |
| `LockSet` | lock set computation | | `MCLockSet` | |
| `IdManager` | id manager | | `MCIdManager` | `IdManagerProofs` |
| `CleanupQueue` | cleanup queue and worker | `CleanupFifo` | itself | `CleanupQueueProofs` |
| `WriteUndo` | backup and restoration of bytes | | itself | `WriteUndoProofs` |
| `TxnRollback` | compounds, handle cache, rollback | | `MCTxnRollback` | |
| `TxnCompound` | concurrent compounds, locks, backups, rollback, restarts | | `MCTxnCompound` | `TxnCompoundProofs` |
| `MdcacheLru` | metadata cache | | `MCMdcacheLru` | `MdcacheLruProofs` |
| `DupReq` | duplicate request cache and its callers | | `MCDupReq` | |

The modules are layers: `TxnCompound` takes the lock manager as the
`ReadersWriters` that `LockManager` is shown to implement; `LockSet` and the
instance of `LockManager` both use the paths of `PathUtils`, so that a lock is
asked for under the key that the lock manager uses.

Definitions have the names of the functions they model. An operator whose comment
begins with "Fault:" is a plausible mistake in the definition that follows it; the
specifications do not use it. Putting it in the place of that definition violates
the property that it is listed with in `PROJECT.json`.

### PathUtils

A path is the sequence of what its slashes separate: `/a//b` is
`<<"", "a", "", "b">>`. Names are abstract and have a length, so that the limits
of buffers can be met. `Normalized` and `tc_path_join` keep what
the code does when there is no room: `tc_path_append_impl` is not checked, and
`asstr` fails for want of a terminator; `tc_path_rebase` of a path onto itself fails.
The server itself calls only normalise and
join; the others are for clients and tests.

### LockManager

`paths` is the C++ map from normalised paths to `LockRefCount`. `pc` and `request`
are the threads: outside, spinning in `lock`, holding a handle, or refused by
`try_lock`. `clean_paths` normalises a request and merges its duplicates, the
stronger mode winning; a request with a bad path is rejected as a whole. Each
section under `paths_mutex` is a step (`try_lock_clean_paths`, `unlock`).
`Normalize` is a constant; `MCLockManager` computes it with `PathUtils`.

### LockSet

A step is an iteration of the loop of `find_relevant_handles`, for an operation
that the client chooses; `current_path`, `saved_path` and `lr_vec` are its
variables. Beside them, `cfh` and `sfh` are where the file handles will be when
the compound is executed, and `effects` is what the last operation will change or
read, whether the code asks for a lock on it or not; `runs` says that the compound has got
that far. `lost` says which of the two paths the analysis cannot be expected to
know: the code does not follow a CREATE, and leaves out a name that does not fit.

### IdManager

`durable` is the value in LevelDB, `next` and `max` are the variables in memory.
Each call runs under `uuid_mutex`; the reservation of a batch and the return of ids
are steps of their own, so that `Crash` can come between them. `put_keys` may
fail in the calls in `MayFail`. `times` counts how often each id has been
returned.

### CleanupQueue

`vec`, `head`, `tail` and `size` are the ring. Compounds push, fall back to a
synchronous cleanup when the ring is full or there is no worker, or have nothing
to clean; the worker pops a batch, cleans it task by task, and sleeps.
`txnfs_cleanup_backup` is one step: what it does to the folder is local to it, and
`released` counts the releases of the folder's handle. `cleanup_pop_txnid`,
which nothing calls, is left out (it advances the tail with `+=`).

### WriteUndo

One compound executes WRITEs on one file and fails. A file is a size and bytes. The
arithmetic of `txnfs_backup_file` (rounding to pages, in `int`), `vfs_clone2`
with its transfer of the size, the splice loop and `restore_data` are
modelled exactly; the page is 2 bytes and the `int` limit 8 or 16, so that each
boundary is met. `cloneWorks` says whether the file system has reflinks. `before` keeps the file that each WRITE found.

### TxnRollback

The file system is a function from (directory, name) to objects. Operations of one
compound after the other are executed; each compound succeeds, or fails after any
number of operations. `ReplayX`, `UndoOpenX` and `opvec_push` are the loop of
`do_txn_rollback`; `undo_X` are the steps of `dispatch_undoer`. It ends in
"rolledback" (returns 0), "gaveup" (returns an error; the compound then ends like
any other) or "aborted" (an assertion fails).

Abstractions: contents of files are replaced as a whole, by contents that are not
empty and of equal length (WriteUndo has the bytes); the export is at the root of
the pseudo file system; the metadata cache above TXNFS is left out, every lookup
reaches TXNFS; OPEN is by name; RENAME is of files; CREATE makes directories; LOOKUPP
is not sent after CREATE; the backup folder disappears when the next compound
begins. A file that the rollback unlinks while it is open may or may not be
reachable by handle: both outcomes are allowed. `Clients` says which operations
the compounds of a run send, how many, and whether `.txn` is there at first.

### TxnCompound

Each thread runs one compound of WRITEs after the other: `Start` (an id) or
`StartUnlogged` (`create_txn_log` fails and returns 0: nothing is backed up or rolled
back), `Lock`, then per operation the look-up or creation of `.txn` and of the folder,
the backup and the WRITE, then `UnlockEnded` or `UnlockFailed`, `Undo` in reverse order if
it failed, and `Submit` of the folder to the cleanup queue. Files are functions on page
numbers; a WRITE covers the first pages of a file, and may make it longer. The backup is
one page longer than the WRITE, as `round_up` makes it, and is made and restored by clone
(`vfs_clone2`, which transfers the size) or by copy. The locks are an instance of
`ReadersWriters`. `Restart` loses all that is in memory and keeps what is on disk: files
as they are, `.txn` and its folders; ids start at 1 again (`txn_logger.cpp`), so that
a compound may get the id of a folder that is still there (`leftover`) and open the
backup files in it. A thread that finds `.txn` missing and then, creating it, finds it
there fails an assertion, which is a restart too.

`snap`, `committed`, `leftover` and `harmed` are history. No step is left out because it
does harm; `harmed` collects the files to which one of four things has happened, from which
the code does not protect them:

1. a compound took its lock while another was still to restore it (the locks are released
   before the rollback);
2. the server stopped while a compound had written it (nothing is recovered);
3. a compound without an id wrote it and failed;
4. it was restored from a folder of an earlier run, or from a clone that ends in a
   hole.

A file stays in `harmed`: what is proved is about all the others.

### MdcacheLru

A section under a lane lock, an atomic operation on a counter and a section under
a latch of the hash table are steps. Request threads find an entry by key, create one
(reaping another when there are more than `Hiwat`), lose the race for a key,
kill, and put; the LRU thread moves entries from L1 to L2 with an iterator that
the others adjust. `Guard` and `Unguard` are a thread that drops a reference under
`no_cleanup` (`state_del_locked`, `open4_create_fh`) while it has another: `_mdcache_lru_unref`
reads the flag (`UnrefCheck`) before it takes the lane lock and wipes (`UnrefWipe`).
Exports are not modelled: the LRU thread may skip any entry (`LaneSkip`). Attributes,
directory chunks and unexport are left out, as is `mdcache_lru_cleanup_try_push`. Memory that has been freed may be handed out again.

### DupReq

Connections come up, die and are closed, in slots that are used again; workers get
the DRC of the transport, look up their request, execute it, and finish it,
delete it, or fail to send the reply. DRCs are recycled and expire. A step is the
outermost critical section. `leaked` counts the references that a cache hit or a busy
request leaves behind on a DRC (`nfs_dupreq_start` returns without
`nfs_dupreq_put_drc`). `twice` says that an entry has been removed twice, by
`nfs_dupreq_delete` and by a thread that retired it, in either order: the references are dropped
twice (`DeleteRetired`, `RetireDeleted`), what becomes of the tree and the list is undefined, and
the behaviour ends there.

## 3. Runs

| run | question | bounds | distinct states |
|---|---|---|---|
| `lock_manager` | exclusion, exact table, refinement of the abstract lock, progress of spinning threads | 3 threads, 3 paths, 9 requests among which three spellings of a path and a path that is too long | 3481 |
| `lock_set` | the analysis follows the file handles; what the operations that it counts change or read is locked | compounds of up to 5 operations, 2 names, 3 spellings of the export's path, paths of up to 12 characters: they do reach that limit | 1167165 |
| `id_manager` | uniqueness over crashes | batches of 3, 13 ids, requests of up to 7 ids: more than two batches at once | 6083 |
| `cleanup_queue` | no folder lost or released twice, each one released; refinement of a queue | 5 compounds, 3 slots, batches of 2: the ring fills, wraps and is drained in part | 36296 |
| `write_undo` | exact restoration, with reflinks and without; end of the splice loop | files of up to 9 bytes in pages of 2, two WRITEs of up to 3 bytes: every alignment, overlap and position relative to the end | 141890 |
| `txn_rollback` | tree and contents are restored, handles stay good, the cache fits | all namespace operations, compounds of up to 5 of them, 2 new objects; and OPEN in all its modes, WRITE, CREATE, REMOVE, two compounds of 4 operations, 3 new objects, `.txn` not there at first; and OPEN, WRITE and LINK in compounds of 5 | 920198 |
| `txn_compound` | concurrent compounds are isolated and all or nothing outside `harmed`, backups cover what is overwritten, folders owned and not forgotten | 2 threads, 2 files of 1 and 3 pages, compounds of up to 2 WRITEs of 1 or 2 pages, of which any may fail, 2 ids per run of the server, one restart or log failure, clones and copies: WRITEs extend one file and overwrite the start of the other, two compounds meet on one file, and ids are used again after the restart | 3191979 |
| `mdcache_lru` | exact references, no dangling pointers, queues and iterator agree, entries are freed once and not resurrected | 2 threads and the LRU thread, 3 entries, 2 keys, 1 lane, high-water mark 2, 2 entries per scan: threads race for a key, reap, guard entries that are killed, and work in the list being scanned | 1587336 |
| `dup_req` | exact references, tree and FIFO agree, recycle queue sound, own client's reply, no request executed twice at a time | 2 workers, 2 transports, 2 addresses, 2 DRCs, 2 entries, 2 requests, maximum size 1, 1 retry, 1 leaked reference: entries are retired while in use, also while they are deleted, and DRCs taken up again | 1255487 |

`MCLockSet` also checks the functions of `PathUtils` on all texts of up to three
components, as assumptions that TLC evaluates: `NormalizeCanonical`, `JoinLeads`,
`RebaseLeads`, `DistanceIsMetric` and `DirBaseSplits` compare them with walking a path
name by name.

Runs that end in a violation show where the code does not do what one of its
comments, or the description of the project, says. `PROJECT.json` quotes it.

| run | what happens |
|---|---|
| `write_undo_tail` | with reflinks the backup has the size of the whole file, and undoing a WRITE clones the hole in it over what follows the backed-up pages |
| `txn_compound_lost` | the locks are released before the rollback, which overwrites what another compound has committed meanwhile |
| `dup_req_owned` | a request whose reply could not be sent stays "being processed": its retransmissions are dropped |

The conditions in the properties that hold are needed; without them TLC finds:

* `Restorable` in `RollbackExact`: a WRITE that begins beyond the end of the file
  has an empty backup, and undoing it leaves a hole after the old end; a clone must
  reach the end of the file (`write_undo_tail`) and not be refused for a partial last
  block. Without reflinks, the backup before an unaligned WRITE near the end of the file
  does not return (`AlignedBackupReturns` is about aligned ones). Offsets that an `int` does not hold are excluded too: `round_down` takes them
  to other pages.
* `Homogeneous` and `SetsHandles` in `RollbackRestores` are what the comment of
  `do_txn_rollback` assumes: one kind of substantial operation (OPEN is not one), and a
  file handle that is set again after CREATE.
* `OpensKept` in `RollbackRestores`: OPENs are undone while the handles are replayed,
  before the WRITEs. A file that the compound truncates and then writes gets its contents
  back and is then cut to nothing, since it was empty at the WRITE; one that the compound makes
  and then writes is unlinked first, and the undo of the WRITE may fail.
* `PathsStay` in `RollbackRestores`: lookups of names that the compound removed
  fail: REMOVE of a file and then of its directory is not undone. A LOOKUPP from a removed directory leads into
  the backup folder, where the rollback puts the objects and returns 0.
* no RENAME: `dispatch_undoer` does nothing for it, and returns 0.
* `bkpRoot`: `restore_data` asserts that `.txn` exists, also for an OPEN that backed
  up nothing.
* `AllKnown`: a file that an abandoned rollback left has no UUID, and the rollback of
  a later compound that opens it unlinks it; REMOVE of an object without a UUID
  takes two entries of the cache.
* no LINK in `HandlesResolve`: REMOVE of one name of a file deletes the `uuid-` key
  that its other name needs.
* `harmed` in `AllOrNothing` and `Isolated`: each of its four parts is needed. For the
  first, committed data is lost (`txn_compound_lost`).
* `leftover` in `BackupCovers`: with a folder left by a restart, a new compound with the
  old id opens the old backup file, which may be longer than what it saves.
* `lost` in `PathsFollow`, and in `effects`: after a CREATE the analysis is in the
  parent of the new directory, and near `PATH_MAX` it drops a name (or the assertion
  in LOOKUP or LOOKUPP fails).
* `Counted` in `CountedLocked`: LOOKUP, READ, SETATTR, RENAME, COPY and CLONE lock nothing,
  and OPEN locks the directory and not the file, which it may truncate. Of a LINK, the
  directory of the source is not counted: the buffer for that path has no room for the
  terminator, so that the source itself is locked, although the comment says "We should lock
  the parent of src, not src file" (`locking.c:258`).
* Whole paths are compared: a write lock on a directory does not cover what is
  in it, although the comment on `LockManager::lock` (`lock_manager.hpp:67`) speaks of the
  sub-tree.
* `MdcacheLru` kills only entries that are on a queue: a new entry is in the hash
  table before it is on one, and `mdcache_lru_cleanup_push` would use a null queue.
* `leaked` in `DrcRefsExact`: the comment on `drc_t` (`nfs_dupreq.c:84`) has the count go to
  zero when the connection is freed; after a cache hit it does not, and the DRC is
  never recycled.
* `twice` in the properties of `DupReq` (see section 2).
* retired entries in `ExecutedOnce`: `nfs_dupreq_finish` retires the oldest entry also
  when its request is still being executed, and a retransmission is then executed too.
* `MayFail` in `IdManager` leaves out `generate_file_id`: `uuid_batch_reserve` moves
  `max_reserved_id` before `put_keys`, and not back when that fails, so that ids are
  handed out that are not reserved on disk.

Deadlock is not checked where the system may stop: compounds need not come, and the
models end when their bounds are reached.

### Fairness

* `LockManager`: a spinning thread keeps trying (the `do ... while` in `lock`) and a
  holder ends its compound (`txnfs_end_compound` is called on every path). No
  thread has to ask for a lock. Weak fairness only: a given thread may be
  overtaken for ever, and nothing is claimed about it.
* `CleanupQueue`: the worker's endless loop and a synchronous cleanup keep running.
* `WriteUndo`: the splice loop keeps running; compounds need not fail.

## 4. Proofs

All theorems hold for every value of the constants that satisfies the named
assumptions in the modules.

* `LockManagerProofs`: `LockInvariant` (types, `TableMatchesHandles`, `Exclusion`)
  is inductive as it stands: exclusion follows from the exactness of the table,
  since `could_lock` looks only at the table. `LockExclusion` and
  `LockTableExact` are its parts; `LockRefinement` maps a thread to what it holds.
  Assumes finitely many threads.
* `IdManagerProofs`: `NoReissue` is not inductive. `IdInv` adds that the
  reservation in memory is the one on disk whenever a call may return ids, and that
  the ids handed out are below the next one. Assumes that `generate_file_id`'s
  `put_keys` does not fail (see section 3).
* `CleanupQueueProofs`: `CleanupInv` adds that the head is `size` slots after the
  tail modulo the capacity, that each task that waits does so in one place, and that its
  folder is not released. The work is in the arithmetic of the ring: a push
  appends to the contents, a pop takes a prefix. From it follow
  `FoldersReleasedOnce`, `FoldersNotLost` and the refinement of `CleanupFifo`.
* `WriteUndoProofs`: `UndoInv` adds that files have no bytes beyond their size, that
  each WRITE found what the one before it left (`History`), and what a backup
  holds (`Backups`), by clone, by copy and for an append. `UndoRestores` shows that
  undoing a restorable WRITE turns the file it left into the one it found;
  induction along the undone WRITEs is in the invariant.

* `TxnCompoundProofs`: `AllOrNothing` is not inductive, since it says nothing of the files
  of a compound under way, which the rollback restores. `CompoundInv` adds, outside
  `harmed`, that compounds with locks or still to be rolled back have files of their own
  (`Disjoint`), from the compatibility of locks; for each of them, what each operation did
  to its files (`History`), what its backups hold (`BackedUp`), and that the
  files it has not written are committed (`Untouched`); and that all other files are
  as the successful compounds left them (`Clean`). `Folders` says which backups
  are empty, so that a compound whose folder is not left over begins with none. Restoring a
  backup without a hole takes a WRITE back, by clone and by copy. There are no assumptions
  besides those of the module: locks taken during a rollback, restarts, old folders and
  compounds without an id are steps of the theorems, and each of them puts into
  `harmed` the files that it endangers and no other.

* `MdcacheLruProofs`: every property of the run `mdcache_lru` is
  proved, for any number of threads, entries, keys and lanes, any distribution of
  entries over lanes and any high-water mark. None of the interesting ones is inductive.
  A thread trusts a counter that it has read: the reaper reclaims an entry whose
  counter is 2, and the thread whose decrement reached 0 frees. So `LruInv` joins
  - `CountsExact`, which is `RefcntExact`, and `Shape`, which says at each place of
    a thread which entries it has: from them "the counter is my share" gives
    "nobody else has the entry";
  - `Private`, which remembers that after the counter has been read: an entry being
    made, or given back after a lost race, is known to its maker only (`SecludedOf`), one
    being reclaimed to its reaper only (`EvictingOf`), one without references is
    freed by one thread (`DyingOf`);
  - `QueuedOwned`: what is on L1 or L2 is hashed, or about to be pushed to
    the cleanup queue by its killer. The reaper and the LRU thread take a reference to
    what they find on a queue, and without this could revive an entry;
  - `ToWipe` and `Freeing`: a killed entry that is not wiped has an owner that has
    still to look at it without `no_cleanup` (the thread that has set the flag holds a reference
    of its own: `Flagged`), and an entry without references a thread that frees it. They are
    `WipedBeforeFreed` and `NoLeak` some steps earlier;
  - `Hashed`, `Allocated`, `OnItsQueue` and `IteratorSafe`.

  A step is about one thread and one entry. The lemma `LocalStep` says that then it is
  enough to look at that thread and that entry (`LocalShape`, `LocalEntry`,
  `LocalCount`); each step lemma establishes these. That the counts stay exact comes
  from `RefsStep`: the references to an entry are one thread's share and the rest, and
  the rest does not change. `NoResurrection` is about steps, and so each step lemma shows,
  beside `LruInv'`, that a counter that is zero stays so (`Kept`). The step lemmas have the
  hypothesis `Counting`, three facts about `Cardinality` of sets of threads, which
  `LruCounting` proves: threads are finitely many. Assumed are that
  and that the null values and the LRU thread are not entries, keys, lanes and request
  threads.

Type correctness of `LockManager`, `IdManager` and `WriteUndo` is proved
(`LockTypeCorrect`, `IdTypeCorrect`, `WriteUndoTypeCorrect`) and not checked by a run.

Model-checked only:

* liveness (`SpinnersMakeProgress`, `EveryFolderReleased`, `AlignedBackupReturns`), which
  is out of the prover's reach;
* `PathUtils` and `LockSet`: what the functions on paths compute for every
  path is an induction over data, and the analysis of a compound rests on them;
* `TxnRollback`: the replay and the undo of a compound walk a sequence of operations of
  any length over a tree that they change; exactness is an induction
  over both;
* `DupReq`: not attempted yet. Its invariants count references as those of `MdcacheLru` do.

## 5. Not modelled

* Recovery (`undo_executor.cpp`) and the contents of transaction records: nothing but
  tests calls `undo_txn_execute`; after a restart the server does not recover.
* COPY and CLONE, OPEN of a handle in a rollback, attributes, access checks.
* The paths stored with handles: `LockSet` takes them to be right. They are those
  at first sight (`handle.c`), and stale after a RENAME.
* The release of an export, which frees what the cleanup worker uses.
* Concurrent compounds other than WRITEs. Creating, removing and linking are in
  `TxnRollback`, for one compound at a time.
* The rest of NFS-Ganesha (state layer, sessions, upcalls, protocols other than NFSv4,
  back ends, configuration, containers) is not specific to transactions;
  `PROJECT.json` lists these parts.
