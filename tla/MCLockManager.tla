--------------------------- MODULE MCLockManager ----------------------------
(***************************************************************************)
(* A small instance of LockManager over the paths of PathUtils: two        *)
(* directories' worth of paths, with three spellings of the same path and  *)
(* one text that is too long.                                              *)
(***************************************************************************)
EXTENDS LockManager, PathUtils, TLC

CONSTANTS c1, c2, c3

D == <<"", "d">>
DF == <<"", "d", "f">>
DF2 == <<"", "d", ".", "f">>
DF3 == <<"", "e", "..", "d", "", "f">>
EE == <<"", "e">>
Long == <<"", "e", "..", "e", "..", "e", "..", "e">>

MCRawPath == {D, DF, DF2, DF3, EE, Long}
MCBadPath == EmptyText
MCNormalize ==
    [r \in MCRawPath |-> IF CanNormalize(r, PathMax) THEN Normalized(r) ELSE MCBadPath]
MCPath == {D, DF, EE}

Read(p)  == [path |-> p, write_lock |-> FALSE]
Write(p) == [path |-> p, write_lock |-> TRUE]

(* The empty request of a compound that touches nothing, single paths,     *)
(* pairs, a path asked for in both modes under two spellings, and a        *)
(* request that cannot be cleaned.                                         *)
MCRequests ==
    { <<>>,
      <<Read(D)>>, <<Write(D)>>,
      <<Write(DF2)>>,
      <<Read(DF), Read(D)>>,
      <<Read(D), Write(EE)>>,
      <<Read(EE), Read(DF3)>>,
      <<Write(DF), Read(DF2)>>,
      <<Read(D), Write(Long)>> }
=============================================================================
