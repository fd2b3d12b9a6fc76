--------------------------- MODULE ReadersWriters ---------------------------
(***************************************************************************)
(* What the path lock manager promises its callers, without the table of   *)
(* reference counts that implements it: a caller holds either nothing or a *)
(* whole set of paths, each for reading or for writing, and it can obtain  *)
(* a set only when no path of it conflicts with what the others hold.      *)
(***************************************************************************)
CONSTANTS Client, Path

VARIABLE held       \* held[c] maps each path that c holds to its write flag

(* A set of paths, each with a write flag. *)
PathModes == UNION {[S -> BOOLEAN] : S \in SUBSET Path}

Nothing == [p \in {} |-> FALSE]

(* The requests r and s can be held at the same time. *)
Compatible(r, s) ==
    \A p \in DOMAIN r \cap DOMAIN s : ~r[p] /\ ~s[p]

Init == held = [c \in Client |-> Nothing]

Acquire(c, r) ==
    /\ held[c] = Nothing
    /\ \A d \in Client \ {c} : Compatible(r, held[d])
    /\ held' = [held EXCEPT ![c] = r]

Release(c) == held' = [held EXCEPT ![c] = Nothing]

Next == \E c \in Client : Release(c) \/ \E r \in PathModes : Acquire(c, r)

Spec == Init /\ [][Next]_held
=============================================================================
