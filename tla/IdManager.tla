----------------------------- MODULE IdManager ------------------------------
(***************************************************************************)
(* The file id manager (txn/id_manager.cpp).  Ids are handed out from a    *)
(* batch that is reserved by storing its upper end in LevelDB, so that a   *)
(* restarted server continues above every id it may have handed out.       *)
(*                                                                         *)
(* `durable' is the value stored under __NEXT_FILE_ID__, 0 while there is  *)
(* none; `next' and `max' are next_file_id and max_reserved_id, lost in a  *)
(* crash.  The call in progress holds uuid_mutex: `pc' says which one it   *)
(* is and `want' how many ids it is to return.  An iteration of a loop     *)
(* that reserves is a step of its own, so that a crash can come between    *)
(* the store and the return.  `times[id]' counts how often id has been     *)
(* returned, over all the lives of the server.                             *)
(***************************************************************************)
EXTENDS Naturals

CONSTANTS
    Batch,            \* kUUIDReserveBatchSize
    MaxId,            \* bound on the ids of the model
    MaxAllocate,      \* bound on the argument of uuid_allocate
    MayFail           \* the calls whose put_keys may fail

ASSUME BatchAssumption == Batch \in Nat \ {0}
ASSUME MaxIdAssumption == MaxId \in Nat
ASSUME MaxAllocateAssumption == MaxAllocate \in Nat

VARIABLES durable, next, max, pc, want, times

vars == <<durable, next, max, pc, want, times>>

Id == 1 .. MaxId

(* The ids below `first' are reserved: (1,0) is the root. *)
first == 1

Reserving == {"initializing", "generating", "allocating"}

Init ==
    /\ durable = 0
    /\ next = first
    /\ max = 0
    /\ pc = "down"
    /\ want = 0
    /\ times = [id \in Id |-> 0]

(* Fault: ids start afresh in every life of the server. *)
InitializeForgets ==
    /\ pc = "down"
    /\ durable <= MaxId
    /\ next' = first
    /\ max' = next'
    /\ pc' = "initializing"
    /\ UNCHANGED <<durable, want, times>>

(* initialize_id_manager up to the reservation.  The server has just       *)
(* started, or the previous call failed: next_file_id is its initial value *)
(* unless an earlier call read another one.                                *)
initialize_id_manager ==
    /\ pc = "down"
    /\ durable <= MaxId
    /\ next' = IF durable # 0 THEN durable ELSE next
    /\ max' = next'
    /\ pc' = "initializing"
    /\ UNCHANGED <<durable, want, times>>

(* generate_file_id is called. *)
generate_file_id ==
    /\ pc = "up"
    /\ next <= MaxId
    /\ want' = 1
    /\ pc' = "generating"
    /\ UNCHANGED <<durable, next, max, times>>

(* uuid_allocate is called for n ids. *)
uuid_allocate(n) ==
    /\ pc = "up"
    /\ next + n <= MaxId + 1
    /\ want' = n
    /\ pc' = "allocating"
    /\ UNCHANGED <<durable, next, max, times>>

(* The call in progress has to reserve (another) batch. *)
MustReserve ==
    \/ pc = "initializing"
    \/ pc = "generating" /\ next = max
    \/ pc = "allocating" /\ next + want >= max

(* Fault: the start of the batch is stored instead of its end. *)
uuid_batch_reserveStoresStart ==
    /\ MustReserve
    /\ max' = max + Batch
    /\ durable' = max
    /\ pc' = IF pc = "initializing" THEN "up" ELSE pc
    /\ UNCHANGED <<next, want, times>>

(* uuid_batch_reserve stores the new end of the reserved ids. *)
uuid_batch_reserve ==
    /\ MustReserve
    /\ max' = max + Batch
    /\ durable' = max + Batch
    /\ pc' = IF pc = "initializing" THEN "up" ELSE pc
    /\ UNCHANGED <<next, want, times>>

(* uuid_batch_reserve fails to store it, after it has moved                *)
(* max_reserved_id: initialize_id_manager returns the error,               *)
(* generate_file_id returns nullptr and uuid_allocate aborts the server.   *)
uuid_batch_reserveFails ==
    /\ MustReserve
    /\ pc \in MayFail
    /\ pc' = IF pc = "generating" THEN "up" ELSE "down"
    /\ max' = IF pc = "allocating" THEN 0 ELSE max + Batch
    /\ next' = IF pc = "allocating" THEN first ELSE next
    /\ want' = 0
    /\ UNCHANGED <<durable, times>>

(* The call returns `want' ids, which start at next_file_id. *)
ReturnIds ==
    /\ pc \in {"generating", "allocating"}
    /\ ~MustReserve
    /\ times' = [id \in Id |-> IF next <= id /\ id < next + want
                               THEN times[id] + 1 ELSE times[id]]
    /\ next' = next + want
    /\ want' = 0
    /\ pc' = "up"
    /\ UNCHANGED <<durable, max>>

(* The server dies, in the middle of a call or not; LevelDB writes are     *)
(* synchronous and survive.                                                *)
Crash ==
    /\ pc # "down"
    /\ next' = first
    /\ max' = 0
    /\ want' = 0
    /\ pc' = "down"
    /\ UNCHANGED <<durable, times>>

Next ==
    \/ initialize_id_manager
    \/ generate_file_id
    \/ \E n \in 0 .. MaxAllocate : uuid_allocate(n)
    \/ uuid_batch_reserve
    \/ uuid_batch_reserveFails
    \/ ReturnIds
    \/ Crash

Spec == Init /\ [][Next]_vars

-----------------------------------------------------------------------------
(* The type invariant: in particular id 0, the null id, is never the next  *)
(* one (initialize_id_manager).                                            *)
TypeOK ==
    /\ durable \in Nat
    /\ next \in Nat \ {0}
    /\ max \in Nat
    /\ pc \in {"down", "up"} \cup Reserving
    /\ want \in Nat
    /\ times \in [Id -> Nat]

(* No id is handed out twice, by calls of the same life of the server or   *)
(* of different ones (generate_file_id, uuid_allocate).                    *)
NoReissue == \A id \in Id : times[id] <= 1

(* An id that has been handed out is below the end of the reserved ids     *)
(* that is on disk, so that a restart continues above it.                  *)
IssuedBelowDurable == \A id \in Id : times[id] > 0 => id < durable
=============================================================================
