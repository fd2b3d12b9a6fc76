--------------------------- MODULE MCTxnRollback ----------------------------
(***************************************************************************)
(* A small tree: the root has a directory `da', in which there is a file   *)
(* `fx', and a file `ff'.                                                  *)
(***************************************************************************)
EXTENDS TxnRollback, TLC

CONSTANTS da, fx, ff, a, x, f, old

Tree ==
    [p \in Place |-> CASE p = <<Root, a>> -> da
                       [] p = <<da, x>> -> fx
                       [] p = <<Root, f>> -> ff
                       [] OTHER -> None]

Dirs == {Root, Bkp, da}

FileData == [o \in Obj |-> IF o \in {fx, ff} THEN old ELSE Empty]

(* One client changes names in all the ways there are, one sends compounds *)
(* that also open and write files, and another one after that, and one     *)
(* links what it has opened.                                               *)
NamesAndFiles ==
    {[sent |-> {"PUTFH", "PUTROOTFH", "SAVEFH", "RESTOREFH", "LOOKUP", "LOOKUPP", "CREATE",
                "LINK", "REMOVE", "RENAME"},
      ops |-> 5, compounds |-> 1, made |-> 2, bkpRoot |-> TRUE],
     [sent |-> {"PUTROOTFH", "LOOKUP", "CREATE", "REMOVE", "OPEN", "WRITE"},
      ops |-> 4, compounds |-> 2, made |-> 3, bkpRoot |-> FALSE],
     [sent |-> {"PUTROOTFH", "SAVEFH", "OPEN", "WRITE", "LINK"},
      ops |-> 5, compounds |-> 1, made |-> 1, bkpRoot |-> TRUE]}

(* The objects that do not exist yet are alike. *)
NewObjects == Permutations(Obj \ {Root, Bkp, da, fx, ff})
=============================================================================
