---------------------------- MODULE MCIdManager -----------------------------
(***************************************************************************)
(* Small instances of IdManager.                                           *)
(***************************************************************************)
EXTENDS IdManager

(* The calls that survive a failing put_keys without reissuing ids. *)
FailStop == {"initializing", "allocating"}
=============================================================================
