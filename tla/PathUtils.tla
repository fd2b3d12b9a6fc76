----------------------------- MODULE PathUtils ------------------------------
(***************************************************************************)
(* Paths (txn/util/path_utils.cpp, the buffers of include/common_types.h). *)
(*                                                                         *)
(* A text is what its slashes separate, in order: "/a//b" is the sequence  *)
(* <<"", a, "", b>>, "/" is <<"", "">>, and the empty string is <<"">>.    *)
(* Two texts joined with a slash are the two sequences, one after the      *)
(* other.  All names have the same number of characters.                   *)
(***************************************************************************)
EXTENDS Integers, Sequences, SequencesExt

CONSTANTS
    NameSize,     \* the characters of a name
    PathMax       \* TC_PATH_MAX and PATH_MAX

EmptyText == <<"">>
RootText == <<"", "">>

CompSize(c) ==
    CASE c = "" -> 0 [] c = "." -> 1 [] c = ".." -> 2 [] OTHER -> NameSize

(* The characters of a text, its slashes included. *)
Size(p) == FoldLeft(LAMBDA n, c : n + CompSize(c), Len(p) - 1, p)

IsAbsolute(p) == Len(p) > 1 /\ p[1] = ""

(* One component c of a path whose components so far are s. *)
Tokenize(absolute, s, c) ==
    CASE c \in {"", "."} -> s
      [] c = ".." -> IF s # <<>> /\ Last(s) # ".." THEN Front(s)
                     ELSE IF absolute THEN s ELSE Append(s, c)
      [] OTHER -> Append(s, c)

(* tc_get_path_components; the slash that the code makes part of the first  *)
(* component of an absolute path is IsAbsolute(p) here.                     *)
tc_get_path_components(p) ==
    FoldLeft(LAMBDA s, c : Tokenize(IsAbsolute(p), s, c), <<>>, p)

(* tc_path_normalize_s. *)
Normalized(p) ==
    LET s == tc_get_path_components(p) IN
    IF IsAbsolute(p)
    THEN IF s = <<>> THEN RootText ELSE <<"">> \o s
    ELSE IF s = <<>> THEN <<".">> ELSE s

(* tc_path_normalize fails for a text that is too long and for a buffer     *)
(* that is too small.                                                       *)
CanNormalize(p, buf_size) == Size(p) < PathMax /\ buf_size > 1

(* tc_path_append_impl: what is in the buffer afterwards.  The slash is not *)
(* counted in its test: where only p fits, buf_append_slice refuses p.      *)
tc_path_append_impl(buf, p, buf_size) ==
    IF Size(p) = 0 \/ Size(p) > buf_size - Size(buf) THEN buf
    ELSE IF Size(buf) = 0 THEN p
    ELSE IF Size(buf) + 1 + Size(p) > buf_size THEN buf \o <<"">>
    ELSE buf \o p

(* tc_path_join into a buffer of buf_size characters that holds buf: whether *)
(* it succeeds, and what is in the buffer afterwards.  Neither call of       *)
(* tc_path_append_impl is checked; asstr needs room for a terminator.        *)
tc_path_join(p1, p2, buf, buf_size) ==
    LET joined == tc_path_append_impl(tc_path_append_impl(EmptyText, p1, buf_size),
                                      p2, buf_size)
    IN  IF Size(p1) >= PathMax \/ Size(p2) >= PathMax
        THEN [ok |-> FALSE, text |-> buf]
        ELSE IF Size(joined) >= buf_size \/ ~CanNormalize(joined, buf_size)
        THEN [ok |-> FALSE, text |-> joined]
        ELSE [ok |-> TRUE, text |-> Normalized(joined)]

(* tc_path_depth_s. *)
tc_path_depth(p) == Len(tc_get_path_components(p))

(* tc_path_distance_s. *)
tc_path_distance(src, dst) ==
    IF IsAbsolute(dst)
    THEN LET s == tc_get_path_components(src)
             d == tc_get_path_components(dst)
         IN  Len(s) + Len(d) - 2 * Len(LongestCommonPrefix({s, d}))
    ELSE tc_path_depth(dst)

(* tc_path_rebase_s with a buffer that is large enough: whether it succeeds, *)
(* and the text.  The first component of an absolute path keeps its slash,   *)
(* which the text then has twice; for the root itself the slash is all there *)
(* is.  From a path to itself there are no components: the count of slashes  *)
(* wraps below zero, no buffer has that room, and the code for "." is not    *)
(* reached.                                                                  *)
tc_path_rebase(base, path) ==
    LET vec(p) == LET s == tc_get_path_components(p) IN
                  CASE ~IsAbsolute(p) -> [k \in DOMAIN s |-> <<s[k]>>]
                    [] s = <<>> -> <<RootText>>
                    [] OTHER -> [k \in DOMAIN s |-> IF k = 1 THEN <<"", s[1]>> ELSE <<s[k]>>]
        b == vec(base)
        q == vec(path)
        l == Len(LongestCommonPrefix({b, q}))
        relative == [k \in 1 .. Len(b) - l |-> <<"..">>] \o SubSeq(q, l + 1, Len(q))
    IN  [ok |-> relative # <<>>, text |-> FlattenSeq(relative)]

(* tc_path_dir_base_s: the text without its trailing slashes is cut at its   *)
(* last slash; the directory of what is in the root keeps the slash.         *)
tc_path_dir_base(p) ==
    LET kept == {k \in DOMAIN p : p[k] # ""}
        n == IF kept = {} THEN 0 ELSE Max(kept)
    IN  CASE p = EmptyText -> [found |-> FALSE, dir |-> EmptyText, base |-> EmptyText]
          [] p # EmptyText /\ n = 0 -> [found |-> TRUE, dir |-> RootText, base |-> EmptyText]
          [] n = 1 -> [found |-> FALSE, dir |-> EmptyText, base |-> <<p[1]>>]
          [] OTHER -> [found |-> TRUE,
                       dir |-> IF n = 2 /\ p[1] = "" THEN RootText ELSE SubSeq(p, 1, n - 1),
                       base |-> <<p[n]>>]
=============================================================================
