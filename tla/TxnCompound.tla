---------------------------- MODULE TxnCompound -----------------------------
(***************************************************************************)
(* Compounds that run at the same time over the transaction layer          *)
(* (FSAL_TXN/export.c, backup.c, locking.c, the loop of nfs4_Compound):    *)
(* each is given an id, locks the paths it will change, backs up what a    *)
(* WRITE will overwrite, writes, and then lets go of its locks and commits *)
(* or rolls back.  The server may crash at any step and start again, and   *)
(* the log record of a compound may fail to be written.                    *)
(*                                                                         *)
(* The lock manager is what LockManager shows it to be, ReadersWriters; a  *)
(* file is a function on page numbers, None past its end, and a WRITE      *)
(* covers its first pages (WriteUndo has offsets and lengths in bytes).    *)
(* The cleanup queue is the set of folders in it (CleanupQueue has the     *)
(* queue).                                                                 *)
(*                                                                         *)
(* The code does not protect a file from everything.  `harmed' collects    *)
(* the files to which one of the following has happened:                   *)
(*   - a compound took its lock while another was still to restore it      *)
(*     (txnfs_end_compound unlocks before it rolls back);                  *)
(*   - the server stopped while a compound had written it (nothing is      *)
(*     recovered from the log);                                            *)
(*   - a compound without a log record wrote it and failed (nothing is     *)
(*     backed up or rolled back for it);                                   *)
(*   - it was restored from a folder that an earlier run of the server had *)
(*     left, or from a clone whose end is a hole.                          *)
(***************************************************************************)
EXTENDS Integers, Sequences, FiniteSets

CONSTANTS
    Threads,       \* worker threads, one compound each at a time
    Files,         \* the files that compounds write
    None,          \* no page
    Old,           \* what the files hold at first
    Zero,          \* a page of a hole
    MaxPages,      \* bound on the size of a file
    InitSize,      \* InitSize[f]: the size that f has at first
    MaxOps,        \* bound on the WRITEs of a compound
    Compounds,     \* the compounds that clients send
    MaxId,         \* bound on the ids of one run of the server
    MaxFaults      \* bound on the restarts and the log records that are not written

PageNo == 1..MaxPages

Write == [file : Files, len : PageNo]
Compound == UNION {[1..n -> Write] : n \in 1..MaxOps}

ASSUME TxnCompoundAssumption ==
    /\ None \notin Threads \cup {Old, Zero}
    /\ InitSize \in [Files -> 0..MaxPages]
    /\ Compounds \subseteq Compound
    /\ {MaxPages, MaxOps, MaxId} \subseteq Nat \ {0} /\ MaxFaults \in Nat

VARIABLES
    file,          \* file[f]: the pages of f, on disk
    root,          \* whether `.txn' is on disk
    folders,       \* the ids that have a folder in `.txn', on disk
    bkp,           \* bkp[n][k]: the backup file of operation k, in the folder of n
    bkproot,       \* exp->bkproot is set
    nextid,        \* next_txn_id
    trash,         \* the folders in the cleanup queue
    held,          \* held[t]: the locks of t's compound (see ReadersWriters)
    pc,            \* where the compound of t is
    id,            \* id[t]: op_ctx->txnid
    ops,           \* ops[t]: the WRITEs of the compound
    i,             \* i[t]: the operation t is at, or the one to undo next
    snap,          \* history: snap[t][k] is t's files when it did its operation k
    committed,     \* history: committed[f] is what the successful compounds left
    leftover,      \* history: the folders that were there when the server stopped
    harmed,        \* history: see above
    cloneWorks,    \* the file system of the backups supports FICLONERANGE
    faults

disk == <<file, root, folders, bkp>>
server == <<bkproot, nextid, trash>>
locals == <<id, ops, i, snap>>
past == <<leftover, harmed, cloneWorks, faults>>
vars == <<disk, server, held, pc, locals, committed, past>>

RW == INSTANCE ReadersWriters WITH Client <- Threads, Path <- Files

Ids == 1..MaxId
Page == Threads \cup {Old, Zero}

\* A file has pages up to its end and none after it.
Content == {c \in [PageNo -> Page \cup {None}] :
                \A k, j \in PageNo : k < j /\ c[k] = None => c[j] = None}
EmptyFile == [k \in PageNo |-> None]

\* n pages that hold p.
Pages(p, n) == [k \in PageNo |-> IF k <= n THEN p ELSE None]

\* b laid over c, and the first n pages of c.
Over(b, c) == [k \in PageNo |-> IF b[k] # None THEN b[k] ELSE c[k]]
First(n, c) == [k \in PageNo |-> IF k <= n THEN c[k] ELSE None]

FilesOf(o) == {o[k].file : k \in DOMAIN o}

\* What the files of the compound o hold now.
Own(o) == [f \in Files |-> IF f \in FilesOf(o) THEN file[f] ELSE EmptyFile]

NoSnap == [k \in 1..MaxOps |-> [f \in Files |-> EmptyFile]]
NoBackups == [k \in 1..MaxOps |-> EmptyFile]

Init ==
    /\ file = [f \in Files |-> Pages(Old, InitSize[f])]
    /\ root = FALSE
    /\ folders = {}
    /\ bkp = [n \in Ids |-> NoBackups]
    /\ bkproot = FALSE
    /\ nextid = 1
    /\ trash = {}
    /\ RW!Init
    /\ pc = [t \in Threads |-> "idle"]
    /\ id = [t \in Threads |-> 0]
    /\ ops = [t \in Threads |-> <<>>]
    /\ i = [t \in Threads |-> 0]
    /\ snap = [t \in Threads |-> NoSnap]
    /\ committed = file
    /\ leftover = {}
    /\ harmed = {}
    /\ cloneWorks \in BOOLEAN
    /\ faults = 0

Goto(t, place) == pc' = [pc EXCEPT ![t] = place]

\* The files that t's compound has written and not yet restored.
Written(t) ==
    LET last == IF pc[t] \in {"ended", "failed", "undo"} THEN i[t] ELSE i[t] - 1
    IN  IF pc[t] \in {"idle", "lock", "submit"} THEN {}
        ELSE {ops[t][k].file : k \in 1..last}

\* txnfs_start_compound up to the locks, for a compound that gets the id n.
Begin(t, o, n) ==
    /\ pc[t] = "idle" /\ nextid <= MaxId
    /\ id' = [id EXCEPT ![t] = n]
    /\ ops' = [ops EXCEPT ![t] = o]
    /\ i' = [i EXCEPT ![t] = 1]
    /\ Goto(t, "lock")
    /\ UNCHANGED <<disk, bkproot, trash, held, snap, committed, leftover, harmed, cloneWorks>>

\* Fault: the id is read and advanced by the compound that ends.
Start_reused(t, o) ==
    /\ Begin(t, o, nextid)
    /\ nextid' = IF \E u \in Threads : pc[u] = "submit" THEN nextid + 1 ELSE nextid
    /\ UNCHANGED faults

\* create_txn_log: the compound gets the next id and its log record is written.
Start(t, o) ==
    /\ Begin(t, o, nextid)
    /\ nextid' = nextid + 1
    /\ UNCHANGED faults

\* The log record cannot be written: the compound runs with the id 0.
StartUnlogged(t, o) ==
    /\ faults < MaxFaults
    /\ Begin(t, o, 0)
    /\ nextid' = nextid + 1
    /\ faults' = faults + 1

\* Fault: a WRITE asks for its file for reading.
LockRequest_shared(o) == [f \in FilesOf(o) |-> FALSE]

\* find_relevant_handles: a WRITE asks for its file, for writing.
LockRequest(o) == [f \in FilesOf(o) |-> TRUE]

\* The files that compounds without locks are still to restore.
BeingUndone == UNION {Written(t) : t \in {u \in Threads : pc[u] = "undo"}}

\* txnfs_backup_nfs4_op does nothing for a compound with the id 0.
NextOp(t) == IF id[t] = 0 THEN "op" ELSE "root"

\* lm_lock.
Lock(t) ==
    /\ pc[t] = "lock"
    /\ RW!Acquire(t, LockRequest(ops[t]))
    /\ harmed' = harmed \cup (FilesOf(ops[t]) \cap BeingUndone)
    /\ Goto(t, NextOp(t))
    /\ UNCHANGED <<disk, server, locals, committed, leftover, cloneWorks, faults>>

(***************************************************************************)
(* txnfs_backup_nfs4_op for a WRITE: the backup root, the folder of the    *)
(* compound, the backup file.                                              *)
(***************************************************************************)

\* query_backup_root: the cached handle, or a lookup.
QueryRoot(t) ==
    /\ pc[t] = "root"
    /\ bkproot' = (bkproot \/ root)
    /\ Goto(t, IF bkproot \/ root THEN "folder" ELSE "mkroot")
    /\ UNCHANGED <<disk, nextid, trash, held, locals, committed, past>>

\* The server stops and starts again: what it had in memory is gone, nothing
\* on disk is recovered or removed, and ids start from 1.
Restart ==
    /\ faults < MaxFaults
    /\ faults' = faults + 1
    /\ bkproot' = FALSE
    /\ nextid' = 1
    /\ trash' = {}
    /\ held' = [t \in Threads |-> RW!Nothing]
    /\ pc' = [t \in Threads |-> "idle"]
    /\ id' = [t \in Threads |-> 0]
    /\ ops' = [t \in Threads |-> <<>>]
    /\ i' = [t \in Threads |-> 0]
    /\ snap' = [t \in Threads |-> NoSnap]
    /\ leftover' = folders
    /\ harmed' = harmed \cup UNION {Written(t) : t \in Threads}
    /\ UNCHANGED <<disk, committed, cloneWorks>>

\* `.txn' is made after the lookup that did not find it.
MakeRoot(t) ==
    /\ pc[t] = "mkroot" /\ ~root
    /\ root' = TRUE
    /\ bkproot' = TRUE
    /\ Goto(t, "folder")
    /\ UNCHANGED <<file, folders, bkp, nextid, trash, held, locals, committed, past>>

\* Another compound has made it in between: fsal_create fails and the assert
\* stops the server.
MakeRootAgain(t) ==
    /\ pc[t] = "mkroot" /\ root
    /\ Restart

\* query_txn_backup: the compound's folder is found, or made.
FindFolder(t) ==
    /\ pc[t] = "folder"
    /\ folders' = folders \cup {id[t]}
    /\ Goto(t, "save")
    /\ UNCHANGED <<file, root, bkp, server, held, locals, committed, past>>

\* vfs_clone2: the first n pages of src become those of dst, and dst gets the
\* size of src, with a hole where it had no page.
Clone(src, n, dst) ==
    [k \in PageNo |-> IF src[k] = None THEN None
                      ELSE IF k <= n THEN src[k]
                      ELSE IF dst[k] # None THEN dst[k] ELSE Zero]

\* Fault: the backup is made at the offset of its second page.
Saved_shifted(c, w, b) ==
    [k \in PageNo |-> IF k = 1 THEN None ELSE First(w.len + 1, c)[k - 1]]

\* Fault: the length is not rounded up, and the last page of the WRITE is not saved.
Saved_short(c, w, b) ==
    IF c[1] = None THEN b
    ELSE IF cloneWorks THEN Clone(c, w.len - 1, b) ELSE Over(First(w.len - 1, c), b)

\* What txnfs_backup_file makes of the backup file b for a WRITE w to a file with
\* content c: nothing if the WRITE is past the end; else the length is rounded up,
\* by a page at least, and as much of c is cloned, or copied, over the start of b.
Saved(c, w, b) ==
    IF c[1] = None THEN b
    ELSE IF cloneWorks THEN Clone(c, w.len + 1, b) ELSE Over(First(w.len + 1, c), b)

\* txnfs_backup_file: `<opidx>.bkp' is opened, as it is if it exists.
SaveFile(t) ==
    LET w == ops[t][i[t]] IN
    /\ pc[t] = "save"
    /\ bkp' = [bkp EXCEPT ![id[t]][i[t]] = Saved(file[w.file], w, @)]
    /\ Goto(t, "op")
    /\ UNCHANGED <<file, root, folders, server, held, locals, committed, past>>

(***************************************************************************)
(* The operations of the compound, and txnfs_end_compound.                 *)
(***************************************************************************)

\* The WRITE itself succeeds.
Op(t) ==
    LET w == ops[t][i[t]] IN
    /\ pc[t] = "op"
    /\ file' = [file EXCEPT ![w.file] = Over(Pages(t, w.len), @)]
    /\ snap' = [snap EXCEPT ![t][i[t]] = Own(ops[t])]
    /\ IF i[t] < Len(ops[t])
       THEN i' = [i EXCEPT ![t] = @ + 1] /\ Goto(t, NextOp(t))
       ELSE UNCHANGED i /\ Goto(t, "ended")
    /\ UNCHANGED <<root, folders, bkp, server, held, id, ops, committed, past>>

\* It fails: the loop ends, with the operations before it done.
OpFails(t) ==
    /\ pc[t] = "op"
    /\ i' = [i EXCEPT ![t] = @ - 1]
    /\ Goto(t, "failed")
    /\ UNCHANGED <<disk, server, held, id, ops, snap, committed, past>>

\* unlock_handle, before anything else; the compound has succeeded.
UnlockEnded(t) ==
    /\ pc[t] = "ended"
    /\ RW!Release(t)
    /\ committed' = [f \in Files |-> IF f \in FilesOf(ops[t]) THEN file[f] ELSE committed[f]]
    /\ Goto(t, "submit")
    /\ UNCHANGED <<disk, server, locals, past>>

\* It has failed: it is rolled back if it has an id.
UnlockFailed(t) ==
    /\ pc[t] = "failed"
    /\ RW!Release(t)
    /\ harmed' = IF id[t] = 0 THEN harmed \cup Written(t) ELSE harmed
    /\ Goto(t, IF id[t] = 0 THEN "submit" ELSE "undo")
    /\ UNCHANGED <<disk, server, locals, committed, leftover, cloneWorks, faults>>

\* truncate_file of a file with content c to the size of b.
Cut(c, b) ==
    [k \in PageNo |-> IF b[k] = None THEN None ELSE IF c[k] = None THEN Zero ELSE c[k]]

\* Fault: a file that the WRITE made longer is left as long.
Restored_uncut(c, w, b) ==
    IF b = EmptyFile THEN c ELSE IF cloneWorks THEN Clone(b, MaxPages, c) ELSE Over(b, c)

\* restore_data: a file that the WRITE w made longer (its backup b is shorter
\* than w) is cut to the size of b; then all of b is cloned, or copied, back.
Restored(c, w, b) ==
    LET rest == IF b[w.len] = None THEN Cut(c, b) ELSE c
    IN  IF b = EmptyFile THEN rest
        ELSE IF cloneWorks THEN Clone(b, MaxPages, rest) ELSE Over(b, rest)

\* A backup that is longer than what was saved for the WRITE w ends in a hole.
HasHole(w, b) == \E k \in PageNo : k > w.len + 1 /\ b[k] # None

\* do_txn_rollback: the operations that were done, from the last to the first.
Undo(t) ==
    /\ pc[t] = "undo" /\ i[t] # 0
    /\ LET w == ops[t][i[t]]
           b == bkp[id[t]][i[t]]
       IN  /\ file' = [file EXCEPT ![w.file] = Restored(@, w, b)]
           /\ harmed' = IF id[t] \in leftover \/ HasHole(w, b)
                        THEN harmed \cup {w.file} ELSE harmed
    /\ i' = [i EXCEPT ![t] = @ - 1]
    /\ UNCHANGED <<root, folders, bkp, server, held, pc, id, ops, snap, committed,
                   leftover, cloneWorks, faults>>

Undone(t) ==
    /\ pc[t] = "undo" /\ i[t] = 0
    /\ Goto(t, "submit")
    /\ UNCHANGED <<disk, server, held, locals, committed, past>>

\* Fault: the folder of a compound that did no operation is not handed over.
Submit_forgotten(t) ==
    /\ pc[t] = "submit"
    /\ trash' = IF i[t] = 0 THEN trash ELSE trash \cup ({id[t]} \ {0})
    /\ Goto(t, "idle")
    /\ id' = [id EXCEPT ![t] = 0]
    /\ ops' = [ops EXCEPT ![t] = <<>>]
    /\ i' = [i EXCEPT ![t] = 0]
    /\ snap' = [snap EXCEPT ![t] = NoSnap]
    /\ UNCHANGED <<disk, bkproot, nextid, held, committed, past>>

\* After txnfs_cache_commit or the rollback: the folder, if there is one, is
\* handed to the cleanup queue and the reply is sent.
Submit(t) ==
    /\ pc[t] = "submit"
    /\ trash' = trash \cup ({id[t]} \ {0})
    /\ Goto(t, "idle")
    /\ id' = [id EXCEPT ![t] = 0]
    /\ ops' = [ops EXCEPT ![t] = <<>>]
    /\ i' = [i EXCEPT ![t] = 0]
    /\ snap' = [snap EXCEPT ![t] = NoSnap]
    /\ UNCHANGED <<disk, bkproot, nextid, held, committed, past>>

\* The cleanup worker removes a folder.
CleanUp(n) ==
    /\ n \in trash
    /\ trash' = trash \ {n}
    /\ folders' = folders \ {n}
    /\ bkp' = [bkp EXCEPT ![n] = NoBackups]
    /\ leftover' = leftover \ {n}
    /\ UNCHANGED <<file, root, bkproot, nextid, held, pc, locals, committed,
                   harmed, cloneWorks, faults>>

Crash == Restart

Next ==
    \/ \E t \in Threads :
          \/ \E o \in Compounds : Start(t, o) \/ StartUnlogged(t, o)
          \/ Lock(t) \/ QueryRoot(t) \/ MakeRoot(t) \/ MakeRootAgain(t)
          \/ FindFolder(t) \/ SaveFile(t) \/ Op(t) \/ OpFails(t)
          \/ UnlockEnded(t) \/ UnlockFailed(t) \/ Undo(t) \/ Undone(t) \/ Submit(t)
    \/ \E n \in Ids : CleanUp(n)
    \/ Crash

Spec == Init /\ [][Next]_vars

(***************************************************************************)
(* Properties.                                                             *)
(***************************************************************************)

\* Every variable keeps its type: in particular ids stay in range, a backup is
\* read only where there is one, and restore_data leaves files that have pages up
\* to their end.
TypeOK ==
    /\ file \in [Files -> Content] /\ committed \in [Files -> Content]
    /\ root \in BOOLEAN /\ bkproot \in BOOLEAN /\ cloneWorks \in BOOLEAN
    /\ folders \subseteq Ids /\ leftover \subseteq Ids
    /\ bkp \in [Ids -> [1..MaxOps -> Content]]
    /\ snap \in [Threads -> [1..MaxOps -> [Files -> Content]]]
    /\ nextid \in 1..(MaxId + 1) /\ trash \subseteq Ids
    /\ held \in [Threads -> RW!PathModes]
    /\ pc \in [Threads -> {"idle", "lock", "root", "mkroot", "folder", "save", "op",
                           "ended", "failed", "undo", "submit"}]
    /\ id \in [Threads -> 0..MaxId]
    /\ ops \in [Threads -> Compound \cup {<<>>}]
    /\ i \in [Threads -> 0..MaxOps]
    /\ harmed \subseteq Files
    /\ faults \in 0..MaxFaults

\* A compound is all or nothing, as far as the code goes: a file that no compound
\* under way has changed holds exactly what the successful compounds wrote,
\* whatever failed, at whatever operation, and was rolled back by do_txn_rollback
\* meanwhile, unless it is one of the files in `harmed'.
AllOrNothing ==
    \A f \in Files \ harmed :
        (\A t \in Threads : f \notin Written(t)) => file[f] = committed[f]


\* A compound works on files that no other changes: while it holds the locks of
\* find_relevant_handles, a file it has not written yet is as the successful
\* compounds left it, unless it took the lock before a rollback of that file was
\* over, or the file was harmed earlier.
Isolated ==
    \A t \in Threads : \A f \in DOMAIN held[t] \ (Written(t) \cup harmed) :
        file[f] = committed[f]

\* When a WRITE is about to happen, the backup that txnfs_backup_file has made
\* for it holds the pages that it will overwrite as they are in the file now, and
\* none where the file has none ("the actual bytes of data cloned will be
\* max(0, filesize - offset)"), if the folder is of this run of the server.
BackupCovers ==
    \A t \in Threads : pc[t] = "op" /\ id[t] \notin leftover \cup {0} =>
        LET w == ops[t][i[t]]
        IN  w.file \notin harmed =>
                First(w.len, bkp[id[t]][i[t]]) = First(w.len, file[w.file])

\* A folder is in the cleanup queue only when its compound has ended, and the
\* folder of a compound under way is its own: ids are not used twice while the
\* server runs (get_txn_id).
FolderOwned ==
    \A t \in Threads : id[t] # 0 =>
        /\ id[t] \notin trash
        /\ \A u \in Threads \ {t} : id[u] # id[t]

\* Every folder on disk is in use or in the cleanup queue, or was there when the
\* server stopped: only that makes the server forget one (the queue of cleanup.c
\* is in memory), and a compound that gets the id again takes it over.
NoFolderLost ==
    \A n \in folders : n \in trash \cup leftover \/ \E t \in Threads : id[t] = n
=============================================================================
