------------------------------ MODULE MCDupReq ------------------------------
(***************************************************************************)
(* DupReq for TLC: the two requests are in partitions of their own, and    *)
(* the symmetry is of what is only told apart by name.                     *)
(***************************************************************************)
EXTENDS DupReq, TLC

CONSTANTS r3

MCHk == [r \in Requests |-> IF r = r3 THEN "q" ELSE "p"]

Alike ==
    UNION {Permutations(Threads), Permutations(Xprts), Permutations(Drcs),
           Permutations(Entries), Permutations(Addrs)}
=============================================================================
