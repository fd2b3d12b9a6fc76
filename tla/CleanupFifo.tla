---------------------------- MODULE CleanupFifo -----------------------------
(***************************************************************************)
(* What the cleanup queue promises: the backup folders that compounds hand *)
(* over are given to the worker in the order in which they were handed     *)
(* over, none lost, none twice, and at most Capacity of them wait.         *)
(***************************************************************************)
EXTENDS Naturals, Sequences

CONSTANTS Txn, Capacity, BatchSize

VARIABLES
    waiting,    \* the transactions that wait for the worker, oldest first
    taken       \* the transactions that the worker has still to clean

Init == waiting = <<>> /\ taken = <<>>

HandOver(t) ==
    /\ Len(waiting) < Capacity
    /\ waiting' = Append(waiting, t)
    /\ UNCHANGED taken

(* The worker takes the oldest k of them. *)
Take(k) ==
    /\ taken = <<>>
    /\ k <= BatchSize
    /\ waiting = taken' \o waiting'
    /\ Len(taken') = k

Clean ==
    /\ taken # <<>>
    /\ taken' = Tail(taken)
    /\ UNCHANGED waiting

Next ==
    \/ \E t \in Txn : HandOver(t)
    \/ \E k \in 0 .. Len(waiting) : Take(k)
    \/ Clean

Spec == Init /\ [][Next]_<<waiting, taken>>
=============================================================================
