---------------------------- MODULE CleanupQueue ----------------------------
(***************************************************************************)
(* The asynchronous removal of backup folders (FSAL_TXN/cleanup.c).  A     *)
(* compound that ends hands its backup folder to a worker thread through a *)
(* ring buffer; when the ring is full, or there is no worker, it removes   *)
(* the folder itself.                                                      *)
(*                                                                         *)
(* `vec', `head', `tail' and `size' are struct cleanup_queue; slots that   *)
(* have been popped keep their contents.  Every section under q->lock is a *)
(* step.  `task[t]' is where transaction t's compound is: still running,   *)
(* inside the synchronous fallback of submit_cleanup_task, or back from it *)
(* ("handed": the folder is the worker's; "done": it is nobody's).         *)
(* `folder[t]' says whether the compound has a backup folder, and          *)
(* `released[t]' counts the calls of txnfs_cleanup_backup that release it. *)
(* `pc' and `buf' are the worker's place in its loop and what is left of   *)
(* the array it has popped.                                                *)
(***************************************************************************)
EXTENDS Integers, Sequences

CONSTANTS
    Txn,          \* the transactions; their ids are unique and never zero
    NoTxn,        \* the contents of a slot that has never been used
    Capacity,     \* CLEANUP_QUEUE_LEN
    BatchSize     \* the number of tasks that backup_worker pops at once

ASSUME TxnAssumption == NoTxn \notin Txn
ASSUME CapacityAssumption == Capacity \in Nat \ {0}
ASSUME BatchAssumption == BatchSize \in Nat \ {0}

VARIABLES vec, head, tail, size, workerUp, pc, buf, task, folder, released

queue == <<vec, head, tail, size>>
worker == <<workerUp, pc, buf>>
compounds == <<task, folder, released>>
vars == <<vec, head, tail, size, workerUp, pc, buf, task, folder, released>>

Slot == 0 .. Capacity - 1

(* The slot that follows i. *)
after(i) == (i + 1) % Capacity

(* cleanup_queue_init and init_backup_worker, whose thread may fail to     *)
(* start; some compounds make a backup folder and others do not.           *)
Init ==
    /\ vec = [i \in Slot |-> NoTxn]
    /\ head = 0
    /\ tail = 0
    /\ size = 0
    /\ workerUp \in BOOLEAN
    /\ pc = "popping"
    /\ buf = <<>>
    /\ task = [t \in Txn |-> "running"]
    /\ folder \in [Txn -> BOOLEAN]
    /\ released = [t \in Txn |-> 0]

(* submit_cleanup_task for a compound without a backup folder: EINVAL. *)
SubmitNothing(t) ==
    /\ task[t] = "running"
    /\ ~folder[t]
    /\ task' = [task EXCEPT ![t] = "done"]
    /\ UNCHANGED <<queue, worker, folder, released>>

(* Fault: one task too many is accepted. *)
full_off_by_one == size > Capacity

(* The queue cannot take another task: ENOSPC. *)
full == size >= Capacity

(* cleanup_push_txnid. *)
cleanup_push_txnid(t) ==
    /\ vec' = [vec EXCEPT ![head] = t]
    /\ head' = after(head)
    /\ size' = size + 1
    /\ UNCHANGED tail

(* submit_cleanup_task hands the folder to the worker. *)
SubmitAsync(t) ==
    /\ task[t] = "running"
    /\ folder[t]
    /\ workerUp
    /\ ~full
    /\ cleanup_push_txnid(t)
    /\ task' = [task EXCEPT ![t] = "handed"]
    /\ UNCHANGED <<worker, folder, released>>

(* submit_cleanup_task falls back to a synchronous call. *)
SubmitSync(t) ==
    /\ task[t] = "running"
    /\ folder[t]
    /\ ~workerUp \/ full
    /\ task' = [task EXCEPT ![t] = "cleaning"]
    /\ UNCHANGED <<queue, worker, folder, released>>

(* Fault: the folder is removed but its handle is not released. *)
cleanup_without_release(t) == released' = released

(* txnfs_cleanup_backup: the files in the folder and the folder are        *)
(* removed and the folder's handle is released.                            *)
txnfs_cleanup_backup(t) == released' = [released EXCEPT ![t] = @ + 1]

SyncCleanup(t) ==
    /\ task[t] = "cleaning"
    /\ txnfs_cleanup_backup(t)
    /\ task' = [task EXCEPT ![t] = "done"]
    /\ UNCHANGED <<queue, worker, folder>>

(* The tasks in the queue, oldest first. *)
Contents == [i \in 1 .. size |-> vec[(tail + (i - 1)) % Capacity]]

(* Fault: the tail is advanced by one whatever was popped. *)
cleanup_pop_manyStuck(n) ==
    \E k \in {IF n < size THEN n ELSE size} :
        /\ buf' = SubSeq(Contents, 1, k)
        /\ tail' = after(tail)
        /\ size' = size - k
        /\ UNCHANGED <<vec, head>>

(* Fault: the oldest task stays in the queue. *)
cleanup_pop_manyPeeks(n) ==
    \E k \in {IF n < size THEN n ELSE size} :
        /\ buf' = SubSeq(Contents, 1, k)
        /\ tail' = IF k > 0 THEN (tail + (k - 1)) % Capacity ELSE tail
        /\ size' = IF k > 0 THEN size - (k - 1) ELSE size
        /\ UNCHANGED <<vec, head>>

(* Fault: the worker's array is filled from its end. *)
cleanup_pop_manyReversed(n) ==
    \E k \in {IF n < size THEN n ELSE size} :
        /\ buf' = [i \in 1 .. k |-> Contents[k + 1 - i]]
        /\ tail' = (tail + k) % Capacity
        /\ size' = size - k
        /\ UNCHANGED <<vec, head>>

(* cleanup_pop_many: up to n tasks are moved to the worker's array. *)
cleanup_pop_many(n) ==
    \E k \in {IF n < size THEN n ELSE size} :
        /\ buf' = SubSeq(Contents, 1, k)
        /\ tail' = (tail + k) % Capacity
        /\ size' = size - k
        /\ UNCHANGED <<vec, head>>

(* backup_worker pops, cleans what it has popped, and sleeps. *)
WorkerPop ==
    /\ workerUp
    /\ pc = "popping"
    /\ cleanup_pop_many(BatchSize)
    /\ pc' = "cleaning"
    /\ UNCHANGED <<workerUp, compounds>>

WorkerClean ==
    /\ pc = "cleaning"
    /\ buf # <<>>
    /\ txnfs_cleanup_backup(Head(buf))
    /\ buf' = Tail(buf)
    /\ UNCHANGED <<queue, workerUp, pc, task, folder>>

WorkerSleep ==
    /\ pc = "cleaning"
    /\ buf = <<>>
    /\ pc' = "popping"
    /\ UNCHANGED <<queue, workerUp, buf, compounds>>

Next ==
    \/ \E t \in Txn : \/ SubmitNothing(t) \/ SubmitAsync(t)
                      \/ SubmitSync(t) \/ SyncCleanup(t)
    \/ WorkerPop
    \/ WorkerClean
    \/ WorkerSleep

Spec == Init /\ [][Next]_vars

(* The worker's loop and a compound's own cleanup keep running; compounds  *)
(* need not end.                                                           *)
Fairness ==
    /\ WF_vars(WorkerPop)
    /\ WF_vars(WorkerClean)
    /\ WF_vars(WorkerSleep)
    /\ \A t \in Txn : WF_vars(SyncCleanup(t))

FairSpec == Spec /\ Fairness

-----------------------------------------------------------------------------
(* The type invariant: in particular the ring never holds more tasks than  *)
(* it has slots (cleanup_push_txnid).                                      *)
TypeOK ==
    /\ vec \in [Slot -> Txn \cup {NoTxn}]
    /\ head \in Slot
    /\ tail \in Slot
    /\ size \in 0 .. Capacity
    /\ workerUp \in BOOLEAN
    /\ pc \in {"popping", "cleaning"}
    /\ buf \in Seq(Txn)
    /\ task \in [Txn -> {"running", "handed", "cleaning", "done"}]
    /\ folder \in [Txn -> BOOLEAN]
    /\ released \in [Txn -> Nat]

(* The handle of a backup folder is released at most once: no folder is    *)
(* cleaned both by the worker and by its compound, or twice by the worker. *)
(* (A second txnfs_cleanup_backup would use a handle that has been freed.) *)
ReleasedOnce == \A t \in Txn : released[t] <= 1

(* A folder that has been handed over and not yet released is in the queue *)
(* or in the worker's array: a push never overwrites a task that waits.    *)
NoTaskLost ==
    \A t \in Txn : task[t] = "handed" /\ released[t] = 0 =>
        \/ \E i \in 1 .. size : Contents[i] = t
        \/ \E i \in 1 .. Len(buf) : buf[i] = t

(* Every backup folder whose compound has ended is released in the end, by *)
(* backup_worker or by submit_cleanup_task.                                *)
EveryFolderReleased ==
    \A t \in Txn : task[t] # "running" /\ folder[t] ~> released[t] > 0

Fifo == INSTANCE CleanupFifo WITH waiting <- Contents, taken <- buf

(* The ring buffer and the worker's array are a bounded queue: tasks leave *)
(* cleanup_pop_many in the order of cleanup_push_txnid, each one once.     *)
ImplementsFifo == Fifo!Spec
=============================================================================
