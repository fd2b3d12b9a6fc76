----------------------------- MODULE MdcacheLru -----------------------------
(***************************************************************************)
(* The life of the entries of the metadata cache: the LRU queues and the   *)
(* reference counts of FSAL_MDCACHE/mdcache_lru.c, the hash table of       *)
(* mdcache_hash.h and the callers that create, find and kill entries       *)
(* (mdcache_helpers.c).                                                    *)
(*                                                                         *)
(* `alive' is the memory that the pool has handed out.  For each entry,    *)
(* `refcnt', `qid', `key' and `inavl' are the fields of those names, and   *)
(* `cleaned' and `no_cleanup' hold the entries with the flags LRU_CLEANED  *)
(* and no_cleanup.  `queue' has the three lists of each lane, LRU end      *)
(* first.  `table' is the AVL tree with its cache of nodes; each key has a *)
(* partition, and so a latch, of its own.  `scanned', `glistn' and         *)
(* `workdone' are the iterator of lru_run_lane; NoEntry is the head of the *)
(* list, where the iteration ends.                                         *)
(*                                                                         *)
(* `pc' is where a thread is, `want' the key that it looks for, `held' the *)
(* entry that its caller got from the cache, `obj' the entry that it works *)
(* on, `tries' the number of lanes that lru_reap_impl has looked at, and   *)
(* `ret' the place to which _mdcache_lru_unref returns.  A section under a *)
(* lane lock, an atomic operation on a counter and a section under a latch *)
(* are steps; a thread at one of the places in Reading or Writing holds    *)
(* the latch of a key from one step to the next.                           *)
(***************************************************************************)
EXTENDS Integers, Sequences, FiniteSets

CONSTANTS
    Threads,      \* the threads that execute requests
    LruThread,    \* the thread of lru_run
    Entries,      \* the memory that the pool can hand out
    Keys,         \* the keys of file system objects
    NoEntry,      \* NULL
    NoKey,        \* the key of a thread that looks for none
    NoLane,       \* no lane is scanned
    Lanes,        \* the lanes of the LRU (LRU_N_Q_LANES)
    LaneOf,       \* lru_lane_of, from an entry's address
    Hiwat,        \* lru_state.entries_hiwat
    PerLaneWork   \* lru_state.per_lane_work

ASSUME NoEntryAssumption == NoEntry \notin Entries /\ NoKey \notin Keys
ASSUME ThreadsAssumption == LruThread \notin Threads /\ IsFiniteSet(Threads)
ASSUME LanesAssumption ==
    NoLane \notin Lanes /\ IsFiniteSet(Lanes) /\ LaneOf \in [Entries -> Lanes]
ASSUME BoundsAssumption == Hiwat \in Nat /\ PerLaneWork \in Nat

VARIABLES alive, refcnt, qid, key, inavl, cleaned, no_cleanup, queue, table,
          scanned, glistn, workdone, pc, want, held, obj, tries, ret

fields == <<key, inavl, cleaned, no_cleanup>>
iterator == <<scanned, workdone>>
vars == <<alive, refcnt, qid, key, inavl, cleaned, no_cleanup, queue, table,
          scanned, glistn, workdone, pc, want, held, obj, tries, ret>>

Procs == Threads \cup {LruThread}

QueueId == {"L1", "L2", "cleanup"}

Init ==
    /\ alive = {}
    /\ refcnt = [e \in Entries |-> 0]
    /\ qid = [e \in Entries |-> "none"]
    /\ key = [e \in Entries |-> NoKey]
    /\ inavl = [e \in Entries |-> FALSE]
    /\ cleaned = {}
    /\ no_cleanup = {}
    /\ queue = [q \in Lanes \X QueueId |-> <<>>]
    /\ table = [k \in Keys |-> NoEntry]
    /\ scanned = NoLane
    /\ glistn = NoEntry
    /\ workdone = 0
    /\ pc = [p \in Procs |-> "idle"]
    /\ want = [t \in Threads |-> NoKey]
    /\ held = [p \in Procs |-> NoEntry]
    /\ obj = [p \in Procs |-> NoEntry]
    /\ tries = [t \in Threads |-> 0]
    /\ ret = [p \in Procs |-> IF p = LruThread THEN "scan" ELSE "idle"]

-----------------------------------------------------------------------------
(* The latches of the hash table. *)

Reading(k) == {t \in Threads : pc[t] = "adjust" /\ want[t] = k}

Writing(k) ==
    {t \in Threads : \/ pc[t] = "raced" /\ want[t] = k
                     \/ pc[t] = "reclaim" /\ key[obj[t]] = k}

(* CIH_GET_RLOCK and CIH_GET_WLOCK of cih_latch_entry. *)
MayRead(k) == Writing(k) = {}
MayWrite(k) == Writing(k) = {} /\ Reading(k) = {}

-----------------------------------------------------------------------------
(* The queues. *)

Place(s, e) == CHOOSE i \in 1 .. Len(s) : s[i] = e

(* glist_del. *)
Without(s, e) ==
    SubSeq(s, 1, Place(s, e) - 1) \o SubSeq(s, Place(s, e) + 1, Len(s))

(* What follows e in a list; the head of the list follows its last element. *)
Following(s, e) == IF Place(s, e) = Len(s) THEN NoEntry ELSE s[Place(s, e) + 1]

First(s) == IF s = <<>> THEN NoEntry ELSE s[1]

(* Fault: the iterator is left on an entry that leaves its list. *)
IteratorAfter_unadjusted(e) == glistn

(* LRU_DQ_SAFE keeps the iterator of lru_run_lane off the entry e. *)
IteratorAfter(e) ==
    IF qid[e] = "L1" /\ scanned = LaneOf[e] /\ glistn = e
    THEN Following(queue[<<LaneOf[e], "L1">>], e)
    ELSE glistn

(* The queues without e: LRU_DQ_SAFE on lru_queue_of(e), which is NULL when *)
(* e is on none.                                                            *)
Dequeued(e) ==
    IF qid[e] = "none"
    THEN queue
    ELSE [queue EXCEPT ![<<LaneOf[e], qid[e]>>] = Without(@, e)]

(* e moves to the LRU end, or to the MRU end, of the list `id' of its lane. *)
ToLru(e, id) ==
    /\ queue' = [Dequeued(e) EXCEPT ![<<LaneOf[e], id>>] = <<e>> \o @]
    /\ qid' = [qid EXCEPT ![e] = id]
    /\ glistn' = IteratorAfter(e)

ToMru(e, id) ==
    /\ queue' = [Dequeued(e) EXCEPT ![<<LaneOf[e], id>>] = Append(@, e)]
    /\ qid' = [qid EXCEPT ![e] = id]
    /\ glistn' = IteratorAfter(e)

OffQueue(e) ==
    /\ queue' = Dequeued(e)
    /\ qid' = [qid EXCEPT ![e] = "none"]
    /\ glistn' = IteratorAfter(e)

Goto(p, place) == pc' = [pc EXCEPT ![p] = place]

IncRef(e) == refcnt' = [refcnt EXCEPT ![e] = @ + 1]
DecRef(e) == refcnt' = [refcnt EXCEPT ![e] = @ - 1]

-----------------------------------------------------------------------------
(* mdcache_find_keyed_reason: the entry is looked up and referenced under  *)
(* the read latch.  The reference of a scan does not move the entry in its *)
(* queue.  When there is no entry, mdcache_new_entry gets one.             *)
Find(t, k, scan) ==
    /\ pc[t] = "idle"
    /\ MayRead(k)
    /\ want' = [want EXCEPT ![t] = IF table[k] # NoEntry /\ scan THEN NoKey ELSE k]
    /\ IF table[k] = NoEntry
       THEN Goto(t, "get") /\ UNCHANGED <<refcnt, held>>
       ELSE /\ IncRef(table[k])
            /\ held' = [held EXCEPT ![t] = table[k]]
            /\ Goto(t, IF scan THEN "hold" ELSE "adjust")
    /\ UNCHANGED <<alive, qid, fields, queue, table, iterator, glistn,
                   obj, tries, ret>>

(* _mdcache_lru_ref moves an entry at its initial reference: from L2 to the *)
(* LRU end of L1, and in L1 to the MRU end.                                 *)
Bump(e) ==
    CASE qid[e] = "L1" -> ToMru(e, "L1")
      [] qid[e] = "L2" -> ToLru(e, "L1")
      [] OTHER -> UNCHANGED <<queue, qid, glistn>>

(* The second half of a lookup; it releases the latch. *)
Adjust(t) ==
    /\ pc[t] = "adjust"
    /\ Bump(held[t])
    /\ Goto(t, "hold")
    /\ want' = [want EXCEPT ![t] = NoKey]
    /\ UNCHANGED <<alive, refcnt, fields, table, iterator,
                   held, obj, tries, ret>>

(* Fault: the entry that lost the race is put once. *)
AdjustRaced_once(t) ==
    /\ pc[t] = "raced"
    /\ Bump(held[t])
    /\ Goto(t, "unref")
    /\ ret' = [ret EXCEPT ![t] = "hold"]
    /\ want' = [want EXCEPT ![t] = NoKey]
    /\ UNCHANGED <<alive, refcnt, fields, table, iterator, held, obj, tries>>

(* mdcache_new_entry has lost the race to create the entry: it references  *)
(* the winner's under the latch, and gives back its own, which has two     *)
(* references.                                                             *)
AdjustRaced(t) ==
    /\ pc[t] = "raced"
    /\ Bump(held[t])
    /\ Goto(t, "unref")
    /\ ret' = [ret EXCEPT ![t] = "again"]
    /\ want' = [want EXCEPT ![t] = NoKey]
    /\ UNCHANGED <<alive, refcnt, fields, table, iterator,
                   held, obj, tries>>

PutAgain(t) ==
    /\ pc[t] = "again"
    /\ Goto(t, "unref")
    /\ ret' = [ret EXCEPT ![t] = "hold"]
    /\ UNCHANGED <<alive, refcnt, qid, fields, queue, table, iterator, glistn,
                   want, held, obj, tries>>

-----------------------------------------------------------------------------
(* mdcache_lru_get: lru_try_reap_entry reaps only at the high-water mark. *)

(* A new entry has the sentinel's reference and its creator's. *)
Alloc(t, e) ==
    /\ e \notin alive
    /\ alive' = alive \cup {e}
    /\ refcnt' = [refcnt EXCEPT ![e] = 2]
    /\ obj' = [obj EXCEPT ![t] = e]
    /\ Goto(t, "fresh")
    /\ UNCHANGED <<qid, fields, queue, table, iterator, glistn, want, held, ret>>

GetBelowMark(t, e) ==
    /\ pc[t] = "get"
    /\ Cardinality(alive) < Hiwat
    /\ Alloc(t, e)
    /\ UNCHANGED tries

GetAtMark(t) ==
    /\ pc[t] = "get"
    /\ Cardinality(alive) >= Hiwat
    /\ Goto(t, "reap")
    /\ tries' = [tries EXCEPT ![t] = 0]
    /\ UNCHANGED <<alive, refcnt, qid, fields, queue, table, iterator, glistn,
                   want, held, obj, ret>>

(* Fault: the cleanup queue is reaped first. *)
Reaped_cleanup(t) == IF tries[t] < Cardinality(Lanes) THEN "cleanup" ELSE "L1"

(* lru_reap_impl looks once at L2 and once at L1 for each lane; threads    *)
(* that reap share the counter that chooses the lane, so that it may be    *)
(* any.                                                                    *)
Reaped(t) == IF tries[t] < Cardinality(Lanes) THEN "L2" ELSE "L1"

ReapNothing(t) ==
    /\ pc[t] = "reap"
    /\ tries[t] < 2 * Cardinality(Lanes)
    /\ \E l \in Lanes : queue[<<l, Reaped(t)>>] = <<>>
    /\ tries' = [tries EXCEPT ![t] = @ + 1]
    /\ UNCHANGED <<alive, refcnt, qid, fields, queue, table, iterator, glistn,
                   pc, want, held, obj, ret>>

(* The entry at the LRU end of a lane's queue is referenced under the lane *)
(* lock; unless that is the only reference beside the sentinel's, it is    *)
(* put back.                                                               *)
ReapPeek(t, l) ==
    /\ pc[t] = "reap"
    /\ tries[t] < 2 * Cardinality(Lanes)
    /\ queue[<<l, Reaped(t)>>] # <<>>
    /\ LET e == queue[<<l, Reaped(t)>>][1] IN
       /\ IncRef(e)
       /\ obj' = [obj EXCEPT ![t] = e]
       /\ Goto(t, IF refcnt[e] + 1 = 2 THEN "latch" ELSE "unref")
    /\ ret' = [ret EXCEPT ![t] = "reap"]
    /\ tries' = [tries EXCEPT ![t] = @ + 1]
    /\ UNCHANGED <<alive, qid, fields, queue, table, iterator, glistn, want, held>>

(* Nothing to reap in any lane. *)
ReapFails(t, e) ==
    /\ pc[t] = "reap"
    /\ tries[t] = 2 * Cardinality(Lanes)
    /\ Alloc(t, e)
    /\ tries' = [tries EXCEPT ![t] = 0]

(* Fault: the references are not looked at again under the latch. *)
Reclaimable_unchecked(e) == qid[e] \in {"L1", "L2"} /\ inavl[e]

(* LRU_ENTRY_RECLAIMABLE. *)
Reclaimable(e) == qid[e] \in {"L1", "L2"} /\ refcnt[e] = 2 /\ inavl[e]

(* The decision is taken under the write latch and the lane lock. *)
ReapLatched(t) ==
    /\ pc[t] = "latch"
    /\ MayWrite(key[obj[t]])
    /\ Reclaimable(obj[t])
    /\ OffQueue(obj[t])
    /\ Goto(t, "reclaim")
    /\ tries' = [tries EXCEPT ![t] = 0]
    /\ UNCHANGED <<alive, refcnt, fields, table, iterator,
                   want, held, obj, ret>>

ReapRefused(t) ==
    /\ pc[t] = "latch"
    /\ MayWrite(key[obj[t]])
    /\ ~Reclaimable(obj[t])
    /\ Goto(t, "unref")
    /\ UNCHANGED <<alive, refcnt, qid, fields, queue, table, iterator, glistn,
                   want, held, obj, tries, ret>>

(* Fault: the sentinel's reference stays. *)
Unhash_sentinel(e) ==
    /\ table' = [table EXCEPT ![key[e]] = NoEntry]
    /\ inavl' = [inavl EXCEPT ![e] = FALSE]
    /\ UNCHANGED refcnt

(* cih_remove_latched: e leaves the hash table and the sentinel's reference *)
(* is dropped; its unref finds e on no cleanup queue.                       *)
Unhash(e) ==
    /\ table' = [table EXCEPT ![key[e]] = NoEntry]
    /\ inavl' = [inavl EXCEPT ![e] = FALSE]
    /\ DecRef(e)

Reclaim(t) ==
    /\ pc[t] = "reclaim"
    /\ Unhash(obj[t])
    /\ Goto(t, "recycle")
    /\ UNCHANGED <<alive, qid, key, cleaned, no_cleanup, queue, iterator, glistn,
                   want, held, obj, tries, ret>>

(* mdcache_lru_get cleans the reaped entry and uses it as a new one. *)
Recycle(t) ==
    /\ pc[t] = "recycle"
    /\ refcnt' = [refcnt EXCEPT ![obj[t]] = 2]
    /\ Goto(t, "fresh")
    /\ UNCHANGED <<alive, qid, fields, queue, table, iterator, glistn,
                   want, held, obj, tries, ret>>

-----------------------------------------------------------------------------
(* The second half of mdcache_new_entry. *)

NoWinner(t) == table[want[t]] = NoEntry

(* Under the write latch, the entry gets its key and is hashed. *)
Hash(t) ==
    /\ pc[t] = "fresh"
    /\ MayWrite(want[t])
    /\ NoWinner(t)
    /\ key' = [key EXCEPT ![obj[t]] = want[t]]
    /\ inavl' = [inavl EXCEPT ![obj[t]] = TRUE]
    /\ table' = [table EXCEPT ![want[t]] = obj[t]]
    /\ want' = [want EXCEPT ![t] = NoKey]
    /\ Goto(t, "insert")
    /\ UNCHANGED <<alive, refcnt, qid, cleaned, no_cleanup, queue, iterator, glistn,
                   held, obj, tries, ret>>

(* Fault: the winner's entry is used without a reference. *)
LoseRace_unreferenced(t) ==
    /\ pc[t] = "fresh"
    /\ MayWrite(want[t])
    /\ ~NoWinner(t)
    /\ held' = [held EXCEPT ![t] = table[want[t]]]
    /\ Goto(t, "raced")
    /\ UNCHANGED <<alive, refcnt, qid, fields, queue, table, iterator, glistn,
                   want, obj, tries, ret>>

LoseRace(t) ==
    /\ pc[t] = "fresh"
    /\ MayWrite(want[t])
    /\ ~NoWinner(t)
    /\ IncRef(table[want[t]])
    /\ held' = [held EXCEPT ![t] = table[want[t]]]
    /\ Goto(t, "raced")
    /\ UNCHANGED <<alive, qid, fields, queue, table, iterator, glistn,
                   want, obj, tries, ret>>

(* mdcache_lru_insert, after the latch is released; the entry of a scan    *)
(* goes to the MRU end of L2, any other to the LRU end of L1.              *)
LruInsert(t, scan) ==
    /\ pc[t] = "insert"
    /\ IF scan THEN ToMru(obj[t], "L2") ELSE ToLru(obj[t], "L1")
    /\ held' = [held EXCEPT ![t] = obj[t]]
    /\ obj' = [obj EXCEPT ![t] = NoEntry]
    /\ Goto(t, "hold")
    /\ UNCHANGED <<alive, refcnt, fields, table, iterator, want, tries, ret>>

-----------------------------------------------------------------------------
(* _mdcache_kill_entry, by a thread that holds a reference to the entry.   *)
(* The entry's creator has put it on a queue: mdcache_lru_cleanup_push     *)
(* dereferences lru_queue_of(entry).                                       *)

(* cih_remove_checked. *)
Kill(t) ==
    /\ pc[t] = "hold"
    /\ qid[held[t]] # "none"
    /\ MayWrite(key[held[t]])
    /\ IF inavl[held[t]]
       THEN Unhash(held[t])
       ELSE UNCHANGED <<table, inavl, refcnt>>
    /\ Goto(t, "push")
    /\ UNCHANGED <<alive, qid, key, cleaned, no_cleanup, queue, iterator, glistn,
                   want, held, obj, tries, ret>>

(* Fault: an entry that another thread has killed is pushed again. *)
CleanupPush_twice(t) ==
    /\ pc[t] = "push"
    /\ queue' = [queue EXCEPT ![<<LaneOf[held[t]], "cleanup">>] = <<held[t]>> \o @]
    /\ qid' = [qid EXCEPT ![held[t]] = "cleanup"]
    /\ Goto(t, "put")
    /\ UNCHANGED <<alive, refcnt, fields, table, iterator, glistn,
                   want, held, obj, tries, ret>>

(* mdcache_lru_cleanup_push. *)
CleanupPush(t) ==
    /\ pc[t] = "push"
    /\ IF qid[held[t]] = "cleanup"
       THEN UNCHANGED <<queue, qid, glistn>>
       ELSE ToLru(held[t], "cleanup")
    /\ Goto(t, "put")
    /\ UNCHANGED <<alive, refcnt, fields, table, iterator,
                   want, held, obj, tries, ret>>

-----------------------------------------------------------------------------
(* A thread that holds a reference to the entry and its state_lock drops    *)
(* another reference: state_del_locked that of the state and its own,       *)
(* open4_create_fh that of the OPEN.  The entry is not to be wiped then     *)
(* ("this could recurse into here"), and has the flag meanwhile.            *)
Guard(t) ==
    /\ pc[t] = "hold"
    /\ held[t] \notin no_cleanup
    /\ IncRef(held[t])
    /\ no_cleanup' = no_cleanup \cup {held[t]}
    /\ obj' = [obj EXCEPT ![t] = held[t]]
    /\ ret' = [ret EXCEPT ![t] = "unguard"]
    /\ Goto(t, "unref")
    /\ UNCHANGED <<alive, qid, key, inavl, cleaned, queue, table, iterator, glistn,
                   want, held, tries>>

Unguard(t) ==
    /\ pc[t] = "unguard"
    /\ no_cleanup' = no_cleanup \ {held[t]}
    /\ Goto(t, "hold")
    /\ UNCHANGED <<alive, refcnt, qid, key, inavl, cleaned, queue, table, iterator,
                   glistn, want, held, obj, tries, ret>>

-----------------------------------------------------------------------------
(* _mdcache_lru_unref: of obj[p], returning to ret[p]. *)

(* The caller is done with the entry: mdcache_put. *)
Put(t) ==
    /\ pc[t] \in {"hold", "put"}
    /\ obj' = [obj EXCEPT ![t] = held[t]]
    /\ held' = [held EXCEPT ![t] = NoEntry]
    /\ ret' = [ret EXCEPT ![t] = "idle"]
    /\ Goto(t, "unref")
    /\ UNCHANGED <<alive, refcnt, qid, fields, queue, table, iterator, glistn,
                   want, tries>>

(* An entry with the flag no_cleanup is not looked at: whoever has set the   *)
(* flag will put the entry again without it.                                 *)
UnrefCheck(p) ==
    /\ pc[p] = "unref"
    /\ Goto(p, IF obj[p] \in no_cleanup THEN "dec" ELSE "wipe")
    /\ UNCHANGED <<alive, refcnt, qid, fields, queue, table, iterator, glistn,
                   want, held, obj, tries, ret>>

(* Fault: the test of LRU_CLEANED is inverted. *)
WipedBy_inverted(p) == qid[obj[p]] = "cleanup" /\ obj[p] \in cleaned

(* The first thread that drops a reference to a killed entry wipes its state. *)
WipedBy(p) == qid[obj[p]] = "cleanup" /\ obj[p] \notin cleaned

UnrefWipe(p) ==
    /\ pc[p] = "wipe"
    /\ cleaned' = IF WipedBy(p) THEN cleaned \cup {obj[p]} ELSE cleaned
    /\ Goto(p, "dec")
    /\ UNCHANGED <<alive, refcnt, qid, key, inavl, no_cleanup, queue, table, iterator,
                   glistn, want, held, obj, tries, ret>>

(* The second reference of an entry that lost the race is still to be put. *)
Return(p) ==
    /\ Goto(p, ret[p])
    /\ obj' = [obj EXCEPT ![p] = IF ret[p] = "again" THEN @ ELSE NoEntry]

UnrefDec(p) ==
    /\ pc[p] = "dec"
    /\ DecRef(obj[p])
    /\ IF refcnt[obj[p]] = 1
       THEN Goto(p, "zero") /\ UNCHANGED obj
       ELSE Return(p)
    /\ UNCHANGED <<alive, qid, fields, queue, table, iterator, glistn,
                   want, held, tries, ret>>

(* At zero, the counter is read again under the lane lock. *)
UnrefZero(p) ==
    /\ pc[p] = "zero"
    /\ IF refcnt[obj[p]] > 0
       THEN Return(p) /\ UNCHANGED <<queue, qid, glistn>>
       ELSE OffQueue(obj[p]) /\ Goto(p, "free") /\ UNCHANGED obj
    /\ UNCHANGED <<alive, refcnt, fields, table, iterator,
                   want, held, tries, ret>>

(* mdcache_lru_clean and pool_free. *)
Free(p) ==
    /\ pc[p] = "free"
    /\ alive' = alive \ {obj[p]}
    /\ cleaned' = cleaned \ {obj[p]}
    /\ key' = [key EXCEPT ![obj[p]] = NoKey]
    /\ Return(p)
    /\ UNCHANGED <<refcnt, qid, inavl, no_cleanup, queue, table, iterator, glistn,
                   want, held, tries, ret>>

-----------------------------------------------------------------------------
(* lru_run_lane, by the LRU thread. *)

LaneStart(l) ==
    /\ pc[LruThread] = "idle"
    /\ scanned' = l
    /\ glistn' = First(queue[<<l, "L1">>])
    /\ Goto(LruThread, "scan")
    /\ UNCHANGED <<alive, refcnt, qid, fields, queue, table, workdone,
                   want, held, obj, tries, ret>>

LaneEnd ==
    /\ pc[LruThread] = "scan"
    /\ glistn = NoEntry \/ workdone >= PerLaneWork
    /\ scanned' = NoLane
    /\ glistn' = NoEntry
    /\ workdone' = 0
    /\ Goto(LruThread, "idle")
    /\ UNCHANGED <<alive, refcnt, qid, fields, queue, table,
                   want, held, obj, tries, ret>>

(* The next entry of L1 is referenced; one that nobody else uses moves to  *)
(* L2, and its file is closed after the lane lock is released.             *)
LaneStep ==
    /\ pc[LruThread] = "scan"
    /\ glistn # NoEntry /\ workdone < PerLaneWork
    /\ IncRef(glistn)
    /\ obj' = [obj EXCEPT ![LruThread] = glistn]
    /\ glistn' = Following(queue[<<scanned, "L1">>], glistn)
    /\ IF refcnt[glistn] + 1 > 2
       THEN UNCHANGED <<queue, qid>>
       ELSE /\ queue' = [Dequeued(glistn) EXCEPT
                            ![<<scanned, "L2">>] = Append(@, glistn)]
            /\ qid' = [qid EXCEPT ![glistn] = "L2"]
    /\ workdone' = workdone + 1
    /\ Goto(LruThread, "unref")
    /\ UNCHANGED <<alive, fields, table, scanned, want, held, tries, ret>>

(* An entry whose export is going away, or is not inserted yet, is skipped;  *)
(* exports are not modelled, and it may be any entry.                       *)
LaneSkip ==
    /\ pc[LruThread] = "scan"
    /\ glistn # NoEntry /\ workdone < PerLaneWork
    /\ glistn' = Following(queue[<<scanned, "L1">>], glistn)
    /\ UNCHANGED <<alive, refcnt, qid, fields, queue, table, iterator, pc,
                   want, held, obj, tries, ret>>

-----------------------------------------------------------------------------
Unref(p) == UnrefCheck(p) \/ UnrefWipe(p) \/ UnrefDec(p) \/ UnrefZero(p) \/ Free(p)

(* What a thread does once it has begun, up to the use of the entry. *)
Work(t) ==
    \/ Adjust(t) \/ AdjustRaced(t) \/ PutAgain(t)
    \/ \E e \in Entries : GetBelowMark(t, e) \/ ReapFails(t, e)
    \/ GetAtMark(t) \/ ReapNothing(t) \/ \E l \in Lanes : ReapPeek(t, l)
    \/ ReapLatched(t) \/ ReapRefused(t) \/ Reclaim(t) \/ Recycle(t)
    \/ Hash(t) \/ LoseRace(t) \/ \E scan \in BOOLEAN : LruInsert(t, scan)
    \/ CleanupPush(t) \/ Unguard(t) \/ Put(t)

Next ==
    \/ \E t \in Threads :
         \/ \E k \in Keys, scan \in BOOLEAN : Find(t, k, scan)
         \/ Work(t)
         \/ Kill(t)
         \/ Guard(t)
    \/ \E p \in Procs : Unref(p)
    \/ \E l \in Lanes : LaneStart(l)
    \/ LaneEnd
    \/ LaneStep
    \/ LaneSkip

Spec == Init /\ [][Next]_vars

-----------------------------------------------------------------------------
Places == {"idle", "adjust", "raced", "again", "get", "reap", "latch", "reclaim",
           "recycle", "fresh", "insert", "hold", "unguard", "push", "put",
           "unref", "wipe", "dec", "zero", "free", "scan"}

(* The fields of the entries and the places of the threads have their types. *)
TypeOK ==
    /\ alive \subseteq Entries
    /\ refcnt \in [Entries -> Nat]
    /\ qid \in [Entries -> QueueId \cup {"none"}]
    /\ key \in [Entries -> Keys \cup {NoKey}]
    /\ inavl \in [Entries -> BOOLEAN]
    /\ cleaned \subseteq Entries /\ no_cleanup \subseteq Entries
    /\ queue \in [Lanes \X QueueId -> Seq(Entries)]
    /\ table \in [Keys -> Entries \cup {NoEntry}]
    /\ scanned \in Lanes \cup {NoLane}
    /\ glistn \in Entries \cup {NoEntry}
    /\ workdone \in Nat
    /\ pc \in [Procs -> Places]
    /\ want \in [Threads -> Keys \cup {NoKey}]
    /\ held \in [Procs -> Entries \cup {NoEntry}]
    /\ obj \in [Procs -> Entries \cup {NoEntry}]
    /\ tries \in [Threads -> Nat]
    /\ ret \in [Procs -> {"idle", "again", "hold", "unguard", "reap", "scan"}]

(* Who owns a reference to the entry e, beside the hash table, which owns   *)
(* the sentinel's: the threads whose caller got it, the threads that work   *)
(* on it, and again those that work on it while it is not hashed yet.       *)
Holders(e) == {p \in Procs : held[p] = e}

Workers(e) == {p \in Procs : obj[p] = e /\ pc[p] \notin {"zero", "free"}}

Makers(e) ==
    {p \in Procs : /\ obj[p] = e
                   /\ \/ pc[p] \in {"fresh", "raced"}
                      \/ pc[p] \in {"unref", "wipe", "dec"} /\ ret[p] = "again"}

Unowned(e) == ~inavl[e] /\ Holders(e) = {} /\ Workers(e) = {}

(* A reference count is the number of references that the hash table and the *)
(* threads own, whatever the order in which they take and drop them          *)
(* (_mdcache_lru_ref, _mdcache_lru_unref, lru_reap_impl, lru_run_lane).      *)
RefcntExact ==
    \A e \in alive :
        refcnt[e] = (IF inavl[e] THEN 1 ELSE 0) + Cardinality(Holders(e))
                        + Cardinality(Workers(e)) + Cardinality(Makers(e))

(* Nothing leads to memory that has been freed: no queue, no key and no      *)
(* thread; and an entry that is being freed cannot be found again            *)
(* (mdcache_lru_clean expects to be alone with it).                          *)
NoDangling ==
    /\ \A q \in Lanes \X QueueId : \A i \in 1 .. Len(queue[q]) : queue[q][i] \in alive
    /\ \A k \in Keys : table[k] # NoEntry => table[k] \in alive
    /\ \A p \in Procs : {held[p], obj[p]} \subseteq alive \cup {NoEntry}
    /\ \A p \in Procs : pc[p] = "free" => qid[obj[p]] = "none" /\ Unowned(obj[p])

(* An entry is on the one list that its qid names, once: what LRU_DQ_SAFE    *)
(* takes it off.  A killed entry is on none that lru_reap_impl looks at.     *)
OnItsQueue ==
    \A l \in Lanes, id \in QueueId :
        /\ \A i, j \in 1 .. Len(queue[<<l, id>>]) : queue[<<l, id>>][i] = queue[<<l, id>>][j] => i = j
        /\ \A e \in Entries :
             (LaneOf[e] = l /\ qid[e] = id)
                <=> \E i \in 1 .. Len(queue[<<l, id>>]) : queue[<<l, id>>][i] = e

(* While the LRU thread has released the lane lock, the entry at which it    *)
(* will go on stays on the list that it follows (the comment in              *)
(* lru_run_lane: "any competing thread which would invalidate the iteration  *)
(* also adjusts glist and (in particular) glistn").                          *)
IteratorSafe ==
    scanned # NoLane /\ glistn # NoEntry =>
        qid[glistn] = "L1" /\ LaneOf[glistn] = scanned

(* When the last reference to a killed entry is gone, its state has been     *)
(* wiped (state_wipe_file in _mdcache_lru_unref), however kill and put       *)
(* interleave with each other and with the flag no_cleanup, under which a    *)
(* put, of whichever thread, leaves the entry alone ("there will be an       *)
(* additional put_ref without the state_lock being held").                   *)
WipedBeforeFreed ==
    \A p \in Procs : pc[p] = "zero" /\ qid[obj[p]] = "cleanup" => obj[p] \in cleaned

(* An entry that nobody owns is about to be freed, by one thread: no        *)
(* reference is lost, and no two threads find that they dropped the last    *)
(* one ("we MUST recheck that refcount is still 0").                        *)
NoLeak ==
    \A e \in alive :
        Unowned(e) =>
            \E p \in Procs :
                /\ obj[p] = e /\ pc[p] \in {"zero", "free"}
                /\ \A r \in Procs \ {p} : obj[r] # e /\ held[r] # e

(* An entry that nobody owns is never referenced again: initial references  *)
(* are taken under the latch or the lane lock, where the sentinel's         *)
(* reference or the queue still protects the entry.                         *)
NoResurrection ==
    [][\A e \in alive \cap alive' : Unowned(e) => Unowned(e)']_vars
=============================================================================
