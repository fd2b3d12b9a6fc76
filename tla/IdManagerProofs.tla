-------------------------- MODULE IdManagerProofs ---------------------------
(***************************************************************************)
(* Proofs about IdManager, for any batch size and any number of ids,       *)
(* crashes and calls, provided generate_file_id's reservations do not      *)
(* fail: a failing one leaves max_reserved_id above what is on disk, and   *)
(* ids can then be handed out twice.                                       *)
(*                                                                         *)
(* NoReissue is not inductive.  What makes it so is where the ids that     *)
(* have been handed out lie: below next_file_id while the server runs, and *)
(* below the value on disk while it does not.                              *)
(***************************************************************************)
EXTENDS IdManager, TLAPS

(* The end of the reserved ids is on disk before ids below it are used. *)
ReservationOnDisk ==
    /\ pc \in {"up", "generating", "allocating"} => durable = max /\ next <= max
    /\ pc = "generating" => want = 1
    /\ pc = "initializing" => max = next /\ (durable # 0 => next = durable)

(* The ids that have been handed out are below the next one to hand out. *)
IssuedBelowNext ==
    /\ pc # "down" => \A id \in Id : times[id] > 0 => id < next
    /\ durable = 0 => \A id \in Id : times[id] = 0

IdInv ==
    /\ TypeOK
    /\ NoReissue
    /\ IssuedBelowDurable
    /\ ReservationOnDisk
    /\ IssuedBelowNext

(* The invariant holds when the server has never run. *)
LEMMA InitEstablishes == Init => IdInv
BY DEF Init, IdInv, TypeOK, NoReissue, IssuedBelowDurable, ReservationOnDisk,
       IssuedBelowNext, first, Reserving

(* Returning ids preserves the invariant: the ids returned lie from        *)
(* next_file_id to the end of the reservation.                             *)
LEMMA ReturnPreserves == IdInv /\ ReturnIds => IdInv'
<1> SUFFICES ASSUME IdInv, ReturnIds
             PROVE  IdInv'
  OBVIOUS
<1> USE DEF IdInv
<1>1. next + want <= max /\ durable = max
  BY DEF ReturnIds, MustReserve, ReservationOnDisk, TypeOK
<1> QED
  BY <1>1 DEF ReturnIds, TypeOK, NoReissue, IssuedBelowDurable, ReservationOnDisk, IssuedBelowNext, Id, Reserving

(* Every step preserves the invariant when generate_file_id's              *)
(* reservations do not fail.                                               *)
LEMMA NextPreserves ==
    ASSUME "generating" \notin MayFail, IdInv, [Next]_vars
    PROVE  IdInv'
<1> USE DEF IdInv, TypeOK, NoReissue, IssuedBelowDurable, ReservationOnDisk,
            IssuedBelowNext, Reserving
<1>1. CASE initialize_id_manager
  BY <1>1 DEF initialize_id_manager, Id
<1>2. CASE generate_file_id
  BY <1>2 DEF generate_file_id
<1>3. ASSUME NEW n \in 0 .. MaxAllocate, uuid_allocate(n)
      PROVE  IdInv'
  BY <1>3, MaxAllocateAssumption DEF uuid_allocate
<1>4. CASE uuid_batch_reserve
  BY <1>4, BatchAssumption DEF uuid_batch_reserve, MustReserve, Id
<1>5. CASE uuid_batch_reserveFails
  BY <1>5, BatchAssumption DEF uuid_batch_reserveFails, MustReserve, first
<1>6. CASE ReturnIds
  BY <1>6, ReturnPreserves
<1>7. CASE Crash
  BY <1>7 DEF Crash, first
<1>8. CASE UNCHANGED vars
  BY <1>8 DEF vars
<1> QED
  BY <1>1, <1>2, <1>3, <1>4, <1>5, <1>6, <1>7, <1>8 DEF Next

(* The invariant holds in every reachable state. *)
THEOREM IdInvariant ==
    ASSUME "generating" \notin MayFail
    PROVE  Spec => []IdInv
<1>1. IdInv /\ [Next]_vars => IdInv'
  BY NextPreserves
<1> QED
  BY <1>1, InitEstablishes, PTL DEF Spec

(* generate_file_id and uuid_allocate never hand out an id twice, over any *)
(* number of crashes and restarts, if generate_file_id's reservations      *)
(* reach the disk.                                                         *)
THEOREM IdsAreUnique ==
    ASSUME "generating" \notin MayFail
    PROVE  Spec => []NoReissue
<1>1. IdInv => NoReissue
  BY DEF IdInv
<1> QED
  BY <1>1, IdInvariant, PTL

(* Every id handed out is below the reservation on disk, from which a      *)
(* restarted server continues.                                             *)
THEOREM IdsAreReserved ==
    ASSUME "generating" \notin MayFail
    PROVE  Spec => []IssuedBelowDurable
<1>1. IdInv => IssuedBelowDurable
  BY DEF IdInv
<1> QED
  BY <1>1, IdInvariant, PTL

(* initialize_id_manager and the reservations keep the state of the id     *)
(* manager well formed: id 0, which is no id, is never next.               *)
THEOREM IdTypeCorrect ==
    ASSUME "generating" \notin MayFail
    PROVE  Spec => []TypeOK
<1>1. IdInv => TypeOK
  BY DEF IdInv
<1> QED
  BY <1>1, IdInvariant, PTL
=============================================================================
