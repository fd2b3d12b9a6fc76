---------------------------- MODULE MCMdcacheLru ----------------------------
(***************************************************************************)
(* MdcacheLru for TLC: all entries are in one lane.                        *)
(***************************************************************************)
EXTENDS MdcacheLru, TLC

CONSTANT Lane

MCLaneOf == [e \in Entries |-> Lane]

Alike == Permutations(Threads) \cup Permutations(Entries) \cup Permutations(Keys)
=============================================================================
