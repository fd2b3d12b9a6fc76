------------------------------ MODULE LockSet -------------------------------
(***************************************************************************)
(* Which paths a compound locks: find_relevant_handles (FSAL_TXN/          *)
(* locking.c) goes through the operations of a compound before they are    *)
(* executed, keeps track of the path of the current and of the saved file  *)
(* handle, and collects lock requests.                                     *)
(*                                                                         *)
(* `current_path', `saved_path' and `lr_vec' are its variables.  `cfh' and *)
(* `sfh' are where the handles will be when the compound is executed, as   *)
(* the names on the way from the root of the export; `runs' says that no   *)
(* operation up to here has to fail.  `lost' holds the paths that the      *)
(* analysis cannot be expected to know: a CREATE has moved the current     *)
(* file handle, which it does not follow, or a path with its terminator    *)
(* did not fit into PATH_MAX.  `effects' is what the operation that has    *)
(* just been looked at will change or read when it is executed, at a path  *)
(* that is not lost, whether the analysis asks for a lock or not.  A step  *)
(* is an iteration of the loop, for an operation that the client chooses.  *)
(***************************************************************************)
EXTENDS PathUtils

CONSTANTS
    Names,        \* the names that clients use
    Given,        \* the objects whose handles a client has (PUTFH)
    RootPaths,    \* spellings of the export's path (ctx_export->fullpath)
    None,         \* no file handle
    MaxOps        \* bound on the operations of the compound

VARIABLES root_path, current_path, saved_path, lr_vec, pc,
          cfh, sfh, runs, lost, effects, count

vars == <<root_path, current_path, saved_path, lr_vec, pc,
          cfh, sfh, runs, lost, effects, count>>

Init ==
    /\ root_path \in RootPaths
    /\ current_path = root_path
    /\ saved_path = EmptyText
    /\ lr_vec = <<>>
    /\ pc = "loop"
    /\ cfh = None
    /\ sfh = None
    /\ runs = TRUE
    /\ lost = {}
    /\ effects = {}
    /\ count = 0

(* The operations of the loop come one after the other. *)
NextOp ==
    /\ pc = "loop" /\ count < MaxOps
    /\ count' = count + 1
    /\ UNCHANGED root_path

(* add_lock_request. *)
add_lock_request(path, is_write) ==
    lr_vec' = Append(lr_vec, [path |-> path, write_lock |-> is_write])

(* Where the names of p lead, one after the other, from the directory d. *)
Walk(d, p) ==
    FoldLeft(LAMBDA s, c : IF c \in {"", "."} THEN s
                           ELSE IF c # ".." THEN Append(s, c)
                           ELSE IF s = <<>> THEN s ELSE Front(s), d, p)

(* The path of the object h of the export. *)
PathOf(h) ==
    LET s == Walk(<<>>, root_path) \o h IN IF s = <<>> THEN RootText ELSE <<"">> \o s

(* A path that is joined to current_path takes, with the slash and the      *)
(* terminator, more than PATH_MAX characters.                               *)
TooLong(p) == Size(current_path) + 1 + Size(p) >= PathMax

(* An effect of the operation op on the object h. *)
Writes(op, h) == [op |-> op, on |-> h, write |-> TRUE]
Reads(op, h) == [op |-> op, on |-> h, write |-> FALSE]

(* The effects of an operation that finds the current file handle. *)
Affects(es) == effects' = IF runs' /\ "current" \notin lost THEN es ELSE {}

(* The operation needs a current file handle, and more. *)
Needs(more) == runs' = (runs /\ cfh # None /\ more)

Lose(handle, cond) == lost' = IF cond THEN lost \cup {handle} ELSE lost

-----------------------------------------------------------------------------
(* The operations that set file handles. *)

(* The handle of an object has the path that was stored with it.  `Given'    *)
(* has the handles that resolve: with another the server stops here.         *)
PutFh(h) ==
    /\ NextOp
    /\ current_path' = PathOf(h)
    /\ cfh' = h
    /\ lost' = lost \ {"current"}
    /\ effects' = {}
    /\ UNCHANGED <<saved_path, lr_vec, pc, sfh, runs>>

PutRootFh ==
    /\ NextOp
    /\ current_path' = root_path
    /\ cfh' = <<>>
    /\ lost' = lost \ {"current"}
    /\ effects' = {}
    /\ UNCHANGED <<saved_path, lr_vec, pc, sfh, runs>>

SaveFh ==
    /\ NextOp
    /\ saved_path' = current_path
    /\ sfh' = cfh
    /\ Needs(TRUE)
    /\ lost' = IF "current" \in lost THEN {"current", "saved"} ELSE {}
    /\ effects' = {}
    /\ UNCHANGED <<current_path, lr_vec, pc, cfh>>

(* Fault: the saved path is taken, and the current one put in its place. *)
RestoreFh_swapped ==
    /\ NextOp
    /\ current_path' = saved_path
    /\ saved_path' = current_path
    /\ cfh' = sfh
    /\ runs' = (runs /\ sfh # None)
    /\ lost' = IF "saved" \in lost THEN {"current", "saved"} ELSE {}
    /\ effects' = {}
    /\ UNCHANGED <<lr_vec, pc, sfh>>

RestoreFh ==
    /\ NextOp
    /\ current_path' = saved_path
    /\ cfh' = sfh
    /\ runs' = (runs /\ sfh # None)
    /\ lost' = IF "saved" \in lost THEN {"current", "saved"} ELSE {}
    /\ effects' = {}
    /\ UNCHANGED <<saved_path, lr_vec, pc, sfh>>

(* The join of LOOKUP and LOOKUPP is asserted to succeed. *)
JoinAsserted(p) ==
    LET joined == tc_path_join(current_path, p, current_path, PathMax)
    IN  /\ current_path' = joined.text
        /\ pc' = IF joined.ok THEN pc ELSE "aborted"

Lookup(name) ==
    /\ NextOp
    /\ JoinAsserted(<<name>>)
    /\ cfh' = IF cfh = None THEN None ELSE Append(cfh, name)
    /\ Needs(TRUE)
    /\ Affects({Reads("LOOKUP", cfh)})
    /\ Lose("current", TooLong(<<name>>))
    /\ UNCHANGED <<saved_path, lr_vec, sfh>>

(* There is nothing above the root of the export. *)
Lookupp ==
    /\ NextOp
    /\ JoinAsserted(<<"..">>)
    /\ Needs(cfh # <<>>)
    /\ cfh' = IF cfh \in {None, <<>>} THEN None ELSE Front(cfh)
    /\ Affects({Reads("LOOKUPP", cfh)})
    /\ Lose("current", TooLong(<<"..">>))
    /\ UNCHANGED <<saved_path, lr_vec, sfh>>

-----------------------------------------------------------------------------
(* The operations for which locks are requested. *)

(* Of a name that may be created the entry in the directory changes, and     *)
(* the file, which may be truncated.                                         *)
OpenEffects(name, create) ==
    IF create THEN {Writes("OPEN", cfh), Writes("OPEN of the file", Append(cfh, name))}
    ELSE {Reads("OPEN", cfh)}

(* Fault: the lock is asked for on the file, not on its directory. *)
OpenByName_file(name, create) ==
    LET joined == tc_path_join(current_path, <<name>>, current_path, PathMax) IN
    /\ NextOp
    /\ add_lock_request(joined.text, create)
    /\ current_path' = joined.text
    /\ cfh' = IF cfh = None THEN None ELSE Append(cfh, name)
    /\ Needs(TRUE)
    /\ Affects(OpenEffects(name, create))
    /\ Lose("current", TooLong(<<name>>))
    /\ UNCHANGED <<saved_path, pc, sfh>>

(* OPEN of a name in the current directory, which it may create.  The result *)
(* of the join is not looked at.                                             *)
OpenByName(name, create) ==
    LET joined == tc_path_join(current_path, <<name>>, current_path, PathMax) IN
    /\ NextOp
    /\ add_lock_request(current_path, create)
    /\ current_path' = joined.text
    /\ cfh' = IF cfh = None THEN None ELSE Append(cfh, name)
    /\ Needs(TRUE)
    /\ Affects(OpenEffects(name, create))
    /\ Lose("current", TooLong(<<name>>))
    /\ UNCHANGED <<saved_path, pc, sfh>>

(* OPEN of the current file handle: its directory is locked.  The request is *)
(* for writing with OPEN4_CREATE, which the operation then refuses.          *)
OpenByHandle(create) ==
    /\ NextOp
    /\ add_lock_request(tc_path_join(current_path, <<"..">>, EmptyText, PathMax).text, create)
    /\ Needs(cfh # <<>> /\ ~create)
    /\ Affects(IF TooLong(<<"..">>) THEN {} ELSE {Reads("OPEN", Front(cfh))})
    /\ UNCHANGED <<current_path, saved_path, pc, cfh, sfh, lost>>

(* CREATE makes a directory, which is then the current file handle: the      *)
(* analysis stays where it is.                                               *)
Create(name) ==
    /\ NextOp
    /\ add_lock_request(current_path, TRUE)
    /\ cfh' = IF cfh = None THEN None ELSE Append(cfh, name)
    /\ Needs(TRUE)
    /\ Affects({Writes("CREATE", cfh)})
    /\ Lose("current", TRUE)
    /\ UNCHANGED <<current_path, saved_path, pc, sfh>>

(* REMOVE changes the current directory, WRITE the current file. *)
RemoveOrWrite(op) ==
    /\ NextOp
    /\ add_lock_request(current_path, TRUE)
    /\ Needs(TRUE)
    /\ Affects({Writes(op, cfh)})
    /\ UNCHANGED <<current_path, saved_path, pc, cfh, sfh, lost>>

(* READDIR and GETATTR. *)
ReadDirOrGetAttr(op) ==
    /\ NextOp
    /\ add_lock_request(current_path, FALSE)
    /\ Needs(TRUE)
    /\ Affects({Reads(op, cfh)})
    /\ UNCHANGED <<current_path, saved_path, pc, cfh, sfh, lost>>

(* LINK of the saved object into the current directory.  The buffer for the  *)
(* parent of the saved path is as long as that path, without a terminator:   *)
(* the join fails and leaves the saved path itself.                          *)
Link ==
    LET src == tc_path_join(saved_path, <<"..">>, saved_path, Size(saved_path)).text IN
    /\ NextOp
    /\ lr_vec' = lr_vec \o <<[path |-> src, write_lock |-> FALSE],
                             [path |-> current_path, write_lock |-> TRUE]>>
    /\ Needs(sfh \notin {None, <<>>})
    /\ Affects({Writes("LINK", cfh), Reads("LINK of the source", Front(sfh))})
    /\ UNCHANGED <<current_path, saved_path, pc, cfh, sfh, lost>>

(* RENAME, COPY, CLONE and all other operations ask for no lock, whatever    *)
(* they do to the current and to the saved object.                           *)
Other(op) ==
    /\ NextOp
    /\ Needs(op \in {"RENAME", "COPY"} => sfh # None)
    /\ Affects(CASE op = "RENAME" -> {Writes(op, cfh), Writes(op, sfh)}
                  [] op = "COPY" -> {Writes(op, cfh), Reads(op, sfh)}
                  [] op = "SETATTR" -> {Writes(op, cfh)}
                  [] OTHER -> {Reads(op, cfh)})
    /\ UNCHANGED <<current_path, saved_path, lr_vec, pc, cfh, sfh, lost>>

Next ==
    \/ \E h \in Given : PutFh(h)
    \/ PutRootFh \/ SaveFh \/ RestoreFh \/ Lookupp
    \/ \E name \in Names :
          \/ Lookup(name) \/ Create(name)
          \/ \E create \in BOOLEAN : OpenByName(name, create)
    \/ \E create \in BOOLEAN : OpenByHandle(create)
    \/ \E op \in {"REMOVE", "WRITE"} : RemoveOrWrite(op)
    \/ \E op \in {"READDIR", "GETATTR"} : ReadDirOrGetAttr(op)
    \/ Link
    \/ \E op \in {"READ", "SETATTR", "RENAME", "COPY"} : Other(op)

Spec == Init /\ [][Next]_vars

-----------------------------------------------------------------------------
(* The analysis follows the file handles: a path it keeps is, once the lock  *)
(* manager has cleaned it, the path of the object that the operation will    *)
(* find there, however the export's path is spelled and wherever LOOKUPP,    *)
(* SAVEFH and RESTOREFH have led (find_relevant_handles, tc_path_join).      *)
PathsFollow ==
    runs =>
        /\ cfh # None /\ "current" \notin lost => Normalized(current_path) = PathOf(cfh)
        /\ sfh # None /\ "saved" \notin lost => Normalized(saved_path) = PathOf(sfh)

(* The operations that the analysis counts: they are to be locked ("CREATE:  *)
(* lock parent dir (current)", "REMOVE: just lock the parent dir", "WRITE:   *)
(* lock current path", "READDIR: lock the target dir (current)" ...).  LINK  *)
(* counts with the directory it links into.                                  *)
Counted == {"OPEN", "CREATE", "REMOVE", "WRITE", "LINK", "READDIR", "GETATTR"}

(* What a counted operation changes is locked for writing and what it reads  *)
(* is locked, under the key that every other compound has for that object,   *)
(* wherever the file handles have led before.  Nothing is said of LOOKUP,    *)
(* READ, SETATTR, RENAME, COPY and CLONE, of the file of an OPEN, and of the *)
(* directory of LINK's source, for which the code holds no lock.             *)
CountedLocked ==
    \A e \in effects :
        e.op \in Counted =>
            \E k \in DOMAIN lr_vec : /\ Normalized(lr_vec[k].path) = PathOf(e.on)
                                     /\ e.write => lr_vec[k].write_lock
=============================================================================
