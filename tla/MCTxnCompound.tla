--------------------------- MODULE MCTxnCompound ----------------------------
(***************************************************************************)
(* TxnCompound for TLC.  A WRITE to f1, of two pages, makes it longer; one *)
(* to f2, of one page, has a backup of two, short of the end of f2.        *)
(* WRITEs to both are undone, since a second WRITE may fail, and compounds *)
(* may have no file in common.  The threads are alike.                     *)
(***************************************************************************)
EXTENDS TxnCompound, TLC

CONSTANTS f1, f2

Sizes == [f \in Files |-> IF f = f1 THEN 1 ELSE 3]

Wr(f) == [file |-> f, len |-> IF f = f1 THEN 2 ELSE 1]

Sent == {<<Wr(f2)>>, <<Wr(f1), Wr(f1)>>, <<Wr(f2), Wr(f1)>>}

Alike == Permutations(Threads)
=============================================================================
