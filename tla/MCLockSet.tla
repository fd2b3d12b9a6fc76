----------------------------- MODULE MCLockSet ------------------------------
(***************************************************************************)
(* LockSet for TLC, and the functions of PathUtils checked against what    *)
(* paths mean, for all texts of up to three components.                    *)
(***************************************************************************)
EXTENDS LockSet

(* The export is "/a", in three spellings: short, and two and one           *)
(* characters shorter than PATH_MAX.                                        *)
MCRootPaths == {<<"", "a">>, <<"", "b", "..", "a", "">>, <<"", "b", "..", ".", "a">>}

MCGiven == {<<"a">>, <<"a", "b">>}

Texts == UNION {[1 .. n -> {"", ".", "..", "a", "b"}] : n \in 1 .. 3}

(* Directories so deep that no text leads above the root from them, and the *)
(* ones on the way there.                                                   *)
Dirs == UNION {{[k \in 1 .. n |-> c] : n \in 0 .. 5} : c \in {"a", "b"}}

(* Where p leads from the directory d. *)
From(d, p) == Walk(IF IsAbsolute(p) THEN <<>> ELSE d, p)

Alike(p, q) == \A d \in Dirs : From(d, p) = From(d, q)

(* Normalising keeps what a path means and gives all spellings of a path, and *)
(* only them, the same text.                                                  *)
ASSUME NormalizeCanonical ==
    /\ \A p \in Texts : Alike(p, Normalized(p)) /\ Size(Normalized(p)) <= Size(p) + 1
    /\ \A p, q \in Texts : Alike(p, q) => Normalized(p) = Normalized(q)

(* A join that has room leads where the names of its second path, whether   *)
(* that begins with a slash or not, lead from its first.                    *)
ASSUME JoinLeads ==
    \A p, q \in Texts : q = EmptyText \/ p = EmptyText \/
        LET joined == tc_path_join(p, q, EmptyText, PathMax)
        IN  Size(p) + 1 + Size(q) < PathMax =>
                /\ joined.ok
                /\ \A d \in Dirs : From(d, joined.text) = Walk(From(d, p), q)

Absolute == {p \in Texts : IsAbsolute(p)}

(* A path that is rebased leads from the base to where it led; that fails   *)
(* for the paths that lead to the base itself, and for no other.            *)
ASSUME RebaseLeads ==
    \A p, q \in Absolute :
        LET rebased == tc_path_rebase(p, q)
        IN  IF From(<<>>, p) = From(<<>>, q) THEN ~rebased.ok
            ELSE rebased.ok /\ From(From(<<>>, p), rebased.text) = From(<<>>, q)

(* The distance is a metric on the tree, and the depth is the distance from *)
(* the root.                                                                *)
ASSUME DistanceIsMetric ==
    /\ \A p, q \in Absolute :
          /\ tc_path_distance(p, q) = tc_path_distance(q, p)
          /\ tc_path_distance(p, q) = 0 <=> From(<<>>, p) = From(<<>>, q)
    /\ \A p \in Absolute : tc_path_distance(RootText, p) = tc_path_depth(p)

(* The directory and the base of a path lead where the path does. *)
ASSUME DirBaseSplits ==
    \A p \in Texts :
        LET split == tc_path_dir_base(p)
        IN  \A d \in Dirs : From(From(d, split.dir), split.base) = From(d, p)
=============================================================================
