---------------------------- MODULE TxnRollback -----------------------------
(***************************************************************************)
(* The execution of NFSv4 compounds on a TXNFS export, one after another,  *)
(* and the rollback of those that fail: the operations as they pass        *)
(* through FSAL_TXN (export.c, handle.c, file.c), the handle cache and its *)
(* commit (helper.c), and do_txn_rollback (undo.c, opvec.c).               *)
(*                                                                         *)
(* The file system is a set of directory entries.  `Bkp' is the backup     *)
(* folder of the running compound; an object that REMOVE puts there is     *)
(* named by the index of the operation.  `copy' holds the backups that     *)
(* txnfs_backup_file makes of the contents of files, whole ones here: what *)
(* happens to the bytes is in WriteUndo, and a WRITE here replaces all of  *)
(* the file by contents that are not empty.                                *)
(*                                                                         *)
(* `hdlKeys' and `uuidKeys' are the objects with an fhdl- and a uuid- key  *)
(* in LevelDB.  `done' are the operations that have succeeded, each with   *)
(* the current file handle when it began (`in') and the object it found or *)
(* made (`obj').  The rest of the rollback's state are local variables of  *)
(* do_txn_rollback.                                                        *)
(***************************************************************************)
EXTENDS Naturals, Sequences, FiniteSets

CONSTANTS
    Obj,           \* the files and directories
    Root, Bkp,     \* the root of the export, the backup folder
    Name,          \* file names
    None,          \* no object
    Contents,      \* what may be in a file
    Empty,         \* nothing
    NoCopy,        \* no backup of contents
    InitialTree,   \* the entries there are: a function from <<directory, name>>
    InitialDirs,   \* the directories there are
    InitialData,   \* the contents of the files there are
    MaxOps,        \* bound on the operations of a compound
    Clients        \* what clients may be like: the operations that one sends,
                   \* bounds on those of a compound, on the compounds and on
                   \* the objects made, and whether .txn exists from the beginning

Place == Obj \X (Name \cup 1 .. MaxOps)

ASSUME ObjAssumption == {Root, Bkp} \subseteq Obj /\ Root # Bkp /\ None \notin Obj
ASSUME NameAssumption == Name \cap Nat = {}
ASSUME ContentsAssumption == Empty \in Contents /\ NoCopy \notin Contents
ASSUME TreeAssumption ==
    /\ InitialTree \in [Place -> Obj \cup {None}]
    /\ InitialDirs \subseteq Obj /\ {Root, Bkp} \subseteq InitialDirs
    /\ \A p \in Place : InitialTree[p] # None =>
         p[1] \in InitialDirs \ {Bkp} /\ p[2] \in Name /\ InitialTree[p] \notin {Root, Bkp}
ASSUME DataAssumption ==
    /\ InitialData \in [Obj -> Contents]
    /\ \A o \in Obj : InitialData[o] # Empty =>
         o \notin InitialDirs /\ \E p \in Place : InitialTree[p] = o
ASSUME BoundAssumption ==
    /\ MaxOps \in Nat
    /\ \A c \in Clients : /\ c.ops \in 0 .. MaxOps
                          /\ c.compounds \in Nat /\ c.made \in Nat
                          /\ c.bkpRoot \in BOOLEAN

VARIABLES
    ent, data, dirs, used,                 \* the file system
    copy, bkpRoot,                         \* backups, and whether .txn exists
    hdlKeys, uuidKeys, cache,              \* handles
    done, cur, saved,                      \* the compound
    pc, at, rcur, rsaved, vec,             \* the rollback
    start, compounds,                      \* history, number of compounds
    client                                 \* the client, which stays the same

fsVars == <<ent, data, dirs, used>>
undoVars == <<at, rcur, rsaved, vec>>
vars == <<ent, data, dirs, used, copy, bkpRoot, hdlKeys, uuidKeys, cache, done,
          cur, saved, pc, at, rcur, rsaved, vec, start, compounds, client>>

-----------------------------------------------------------------------------
Linked == {ent[p] : p \in Place} \ {None}

(* Where an object is: directories are in one place only. *)
Parents(o) == {p[1] : p \in {q \in Place : ent[q] = o}}

IsEmpty(d) == \A n \in Name \cup 1 .. MaxOps : ent[d, n] = None

NoCopies == [i \in 1 .. MaxOps |-> NoCopy]

Init ==
    /\ ent = InitialTree
    /\ dirs = InitialDirs
    /\ used = InitialDirs \cup Linked
    /\ data = InitialData
    /\ copy = NoCopies
    /\ client \in Clients
    /\ bkpRoot = client.bkpRoot
    /\ hdlKeys = used \ {Bkp}
    /\ uuidKeys = used \ {Bkp}
    /\ cache = <<>>
    /\ done = <<>> /\ cur = None /\ saved = None
    /\ pc = "running"
    /\ at = 0 /\ rcur = Root /\ rsaved = None /\ vec = <<>>
    /\ start = [ent |-> ent, data |-> data, keys |-> hdlKeys]
    /\ compounds = 1

(* The operation that is executed next, its index, and the handle cache    *)
(* after txnfs_alloc_and_check_handle.                                     *)
opidx == Len(done) + 1

InCache(c, o) == \E i \in 1 .. Len(c) : c[i] = [type |-> "create", obj |-> o]

(* Fault: a handle that is in the cache is inserted again. *)
alloc_and_check_handle_again(c, o, is_creation) ==
    IF is_creation \/ o \notin hdlKeys \/ InCache(c, o)
      THEN c \o <<[type |-> "create", obj |-> o], [type |-> "create", obj |-> o]>>
      ELSE c

(* The cache `c' when a handle for `o' has been made. *)
alloc_and_check_handle(c, o, is_creation) ==
    IF is_creation \/ (o \notin hdlKeys /\ ~InCache(c, o))
      THEN Append(c, [type |-> "create", obj |-> o])
      ELSE c

Executes(op) ==
    /\ pc = "running"
    /\ Len(done) < client.ops
    /\ op.op \in client.sent
    /\ done' = Append(done, op)
    /\ UNCHANGED <<hdlKeys, uuidKeys, pc, start, compounds, client>>
    /\ UNCHANGED undoVars

(* The objects that may still be made. *)
InitialObj == InitialDirs \cup {InitialTree[p] : p \in Place}

NewObj == IF Cardinality(used \ InitialObj) < client.made THEN Obj \ used ELSE {}

NoBackup == UNCHANGED <<copy, bkpRoot>>

(* txnfs_backup_file, called by txnfs_backup_nfs4_op before the operation. *)
backup_file(o) ==
    /\ copy' = [copy EXCEPT ![opidx] = data[o]]
    /\ bkpRoot' = TRUE

-----------------------------------------------------------------------------
(* The operations.  PUTFH takes a handle that the client has got earlier.  *)

nfs4_op_putfh(o) ==
    /\ Executes([op |-> "PUTFH", in |-> cur, obj |-> o])
    /\ o \in (Linked \cup {Root}) \cap uuidKeys
    /\ cur' = o
    /\ NoBackup /\ UNCHANGED <<fsVars, saved, cache>>

nfs4_op_putrootfh ==
    /\ Executes([op |-> "PUTROOTFH", in |-> cur, obj |-> Root])
    /\ cur' = Root
    /\ NoBackup /\ UNCHANGED <<fsVars, saved, cache>>

nfs4_op_savefh ==
    /\ cur # None
    /\ Executes([op |-> "SAVEFH", in |-> cur, obj |-> cur])
    /\ saved' = cur
    /\ NoBackup /\ UNCHANGED <<fsVars, cur, cache>>

nfs4_op_restorefh ==
    /\ saved # None
    /\ Executes([op |-> "RESTOREFH", in |-> cur, obj |-> saved])
    /\ cur' = saved
    /\ NoBackup /\ UNCHANGED <<fsVars, saved, cache>>

nfs4_op_lookup(n) ==
    /\ cur \in dirs /\ ent[cur, n] # None
    /\ Executes([op |-> "LOOKUP", in |-> cur, name |-> n, obj |-> ent[cur, n]])
    /\ cur' = ent[cur, n]
    /\ cache' = alloc_and_check_handle(cache, ent[cur, n], FALSE)
    /\ NoBackup /\ UNCHANGED <<fsVars, saved>>

(* No compound sends LOOKUPP after CREATE: its rollback could then look up *)
(* the parent of the root of the export.                                   *)
nfs4_op_lookupp ==
    /\ cur \in dirs \ {Root}
    /\ \A i \in 1 .. Len(done) : done[i].op # "CREATE"
    /\ \E d \in Parents(cur) \ {Bkp} :
         /\ Executes([op |-> "LOOKUPP", in |-> cur, obj |-> d])
         /\ cur' = d
         /\ cache' = alloc_and_check_handle(cache, d, FALSE)
    /\ NoBackup /\ UNCHANGED <<fsVars, saved>>

(* CREATE makes directories, and other objects that are not regular files; *)
(* the order in which they are undone matters only for directories.        *)
nfs4_op_create(n) ==
    /\ cur \in dirs /\ ent[cur, n] = None
    /\ \E o \in NewObj :
         /\ Executes([op |-> "CREATE", in |-> cur, name |-> n, obj |-> o])
         /\ ent' = [ent EXCEPT ![cur, n] = o]
         /\ dirs' = dirs \cup {o}
         /\ used' = used \cup {o}
         /\ cache' = alloc_and_check_handle(cache, o, TRUE)
         /\ cur' = o
    /\ NoBackup /\ UNCHANGED <<data, saved>>

(* OPEN by name (CLAIM_NULL).  `how' is "open", "unchecked", "truncate"    *)
(* (unchecked, with a size of 0) or "guarded".  Before it, an existing     *)
(* file that it truncates is backed up (txnfs_backup_nfs4_op).             *)
OpenExisting(n, how) ==
    /\ cur \in dirs /\ ent[cur, n] # None /\ ent[cur, n] \notin dirs
    /\ how # "guarded"
    /\ Executes([op |-> "OPEN", in |-> cur, name |-> n, how |-> how,
                 obj |-> ent[cur, n], new |-> FALSE])
    /\ cur' = ent[cur, n]
    /\ cache' = alloc_and_check_handle(cache, ent[cur, n], FALSE)
    /\ \/ /\ how = "truncate"
          /\ backup_file(ent[cur, n])
          /\ data' = [data EXCEPT ![ent[cur, n]] = Empty]
       \/ /\ how # "truncate"
          /\ UNCHANGED <<copy, bkpRoot, data>>
    /\ UNCHANGED <<ent, dirs, used, saved>>

OpenNew(n, how) ==
    /\ cur \in dirs /\ ent[cur, n] = None
    /\ how # "open"
    /\ \E o \in NewObj :
         /\ Executes([op |-> "OPEN", in |-> cur, name |-> n, how |-> how,
                      obj |-> o, new |-> TRUE])
         /\ ent' = [ent EXCEPT ![cur, n] = o]
         /\ used' = used \cup {o}
         /\ cache' = alloc_and_check_handle(cache, o, TRUE)
         /\ cur' = o
    /\ NoBackup /\ UNCHANGED <<data, dirs, saved>>

nfs4_op_write(c) ==
    /\ cur \in used \ dirs
    /\ Executes([op |-> "WRITE", in |-> cur, obj |-> cur])
    /\ backup_file(cur)
    /\ data' = [data EXCEPT ![cur] = c]
    /\ UNCHANGED <<ent, dirs, used, cur, saved, cache>>

(* file_unlink: the target is renamed into the backup folder.  `c' is the  *)
(* cache after the target has been looked up.                              *)
file_unlink(dir, n, c) ==
    /\ ent[dir, n] \in dirs => IsEmpty(ent[dir, n])
    /\ ent' = [ent EXCEPT ![dir, n] = None, ![Bkp, opidx] = ent[dir, n]]
    /\ bkpRoot' = TRUE
    /\ cache' = Append(c, [type |-> "delete", obj |-> ent[dir, n]])

nfs4_op_remove(n) ==
    /\ cur \in dirs /\ ent[cur, n] # None
    /\ Executes([op |-> "REMOVE", in |-> cur, name |-> n, obj |-> ent[cur, n]])
    /\ file_unlink(cur, n, alloc_and_check_handle(cache, ent[cur, n], FALSE))
    /\ UNCHANGED <<data, dirs, used, cur, saved, copy>>

nfs4_op_link(n) ==
    /\ cur \in dirs /\ ent[cur, n] = None
    /\ saved # None /\ saved \notin dirs
    /\ Executes([op |-> "LINK", in |-> cur, name |-> n, obj |-> saved])
    /\ ent' = [ent EXCEPT ![cur, n] = saved]
    /\ NoBackup /\ UNCHANGED <<data, dirs, used, cur, saved, cache>>

(* RENAME of a file; a file of the new name goes. *)
nfs4_op_rename(old, new) ==
    /\ cur \in dirs /\ saved \in dirs
    /\ ent[saved, old] # None /\ ent[saved, old] # ent[cur, new]
    /\ ent[saved, old] \notin dirs /\ ent[cur, new] \notin dirs
    /\ Executes([op |-> "RENAME", in |-> cur, name |-> old, obj |-> ent[saved, old]])
    /\ ent' = [ent EXCEPT ![saved, old] = None, ![cur, new] = ent[saved, old]]
    /\ cache' = alloc_and_check_handle(cache, ent[saved, old], FALSE)
    /\ NoBackup /\ UNCHANGED <<data, dirs, used, cur, saved>>

Execute ==
    \/ \E o \in Obj : nfs4_op_putfh(o)
    \/ nfs4_op_putrootfh
    \/ nfs4_op_savefh
    \/ nfs4_op_restorefh
    \/ nfs4_op_lookupp
    \/ \E n \in Name : nfs4_op_lookup(n) \/ nfs4_op_create(n) \/ nfs4_op_remove(n)
    \/ \E n \in Name : nfs4_op_link(n)
    \/ \E n \in Name, how \in {"open", "unchecked", "truncate", "guarded"} :
         OpenExisting(n, how) \/ OpenNew(n, how)
    \/ \E c \in Contents \ {Empty} : nfs4_op_write(c)
    \/ \E old, new \in Name : nfs4_op_rename(old, new)

-----------------------------------------------------------------------------
(* txnfs_end_compound. *)

Substantial == {"CREATE", "LINK", "REMOVE", "RENAME", "WRITE"}

(* The operations by which create_txn_log gives a compound an id. *)
IsTxn(op) == op.op \in Substantial \/ (op.op = "OPEN" /\ op.how # "open")

LastIs(o, type) ==
    \E i \in 1 .. Len(cache) :
      /\ cache[i] = [type |-> type, obj |-> o]
      /\ \A j \in i + 1 .. Len(cache) : cache[j].obj # o

(* txnfs_cache_commit: a delete entry has no handle, so that only its      *)
(* uuid- key is deleted.                                                   *)
cache_commit ==
    /\ hdlKeys' = hdlKeys \cup {o \in Obj : InCache(cache, o)}
    /\ uuidKeys' = {o \in Obj : LastIs(o, "create") \/ (o \in uuidKeys /\ ~LastIs(o, "delete"))}

CompoundSucceeds ==
    /\ pc = "running" /\ done # <<>>
    /\ cache_commit
    /\ pc' = "committed"
    /\ UNCHANGED <<fsVars, undoVars, copy, bkpRoot, cache, done, cur, saved, start, compounds, client>>

(* Fault: the cache is committed although the compound fails. *)
CompoundFailsCommits ==
    /\ pc = "running" /\ done # <<>>
    /\ cache_commit
    /\ pc' = "analysing" /\ at' = 1
    /\ UNCHANGED <<fsVars, rcur, rsaved, vec, copy, bkpRoot, cache, done, cur, saved,
                   start, compounds, client>>

(* An operation fails.  It may have made the backup directory before it    *)
(* did.  A compound without an id is not rolled back.                      *)
CompoundFails ==
    /\ pc = "running" /\ done # <<>>
    /\ \/ pc' = "analysing" /\ at' = 1
       \/ /\ \A i \in 1 .. Len(done) : ~IsTxn(done[i])
          /\ pc' = "ended" /\ at' = at
    /\ bkpRoot' \in {bkpRoot, TRUE}
    /\ UNCHANGED <<fsVars, rcur, rsaved, vec, copy, hdlKeys, uuidKeys, cache, done, cur,
                   saved, start, compounds, client>>

-----------------------------------------------------------------------------
(* do_txn_rollback goes through the operations that succeeded. *)

op == done[at]

Analyses(kinds) ==
    /\ pc = "analysing" /\ at <= Len(done) /\ op.op \in kinds
    /\ UNCHANGED <<dirs, used, copy, bkpRoot, hdlKeys, uuidKeys, cache, done, cur, saved,
                   start, compounds, client>>

Continues == at' = at + 1 /\ pc' = pc

GivesUp == pc' = "gaveup" /\ at' = at /\ UNCHANGED <<ent, data, rcur, rsaved, vec>>

Aborts == pc' = "aborted" /\ at' = at /\ UNCHANGED <<ent, data, rcur, rsaved, vec>>

Found == rcur \in dirs /\ ent[rcur, op.name] # None

ReplayPutfh ==
    /\ Analyses({"PUTFH", "PUTROOTFH"})
    /\ rcur' = op.obj
    /\ Continues /\ UNCHANGED <<ent, data, rsaved, vec>>

(* Fault: SAVEFH is not replayed. *)
ReplaySavefhIgnored ==
    /\ Analyses({"SAVEFH"})
    /\ Continues /\ UNCHANGED <<ent, data, rcur, rsaved, vec>>

ReplaySavefh ==
    /\ Analyses({"SAVEFH"})
    /\ rsaved' = rcur
    /\ Continues /\ UNCHANGED <<ent, data, rcur, vec>>

ReplayRestorefh ==
    /\ Analyses({"RESTOREFH"})
    /\ rcur' = rsaved
    /\ Continues /\ UNCHANGED <<ent, data, rsaved, vec>>

replay_lookup ==
    /\ Analyses({"LOOKUP"})
    /\ \/ /\ Found
          /\ rcur' = ent[rcur, op.name]
          /\ Continues /\ UNCHANGED <<ent, data, rsaved, vec>>
       \/ ~Found /\ GivesUp

ReplayLookupp ==
    /\ Analyses({"LOOKUPP"})
    /\ \/ /\ rcur \in dirs /\ rcur' \in Parents(rcur)
          /\ Continues /\ UNCHANGED <<ent, data, rsaved, vec>>
       \/ (rcur \notin dirs \/ Parents(rcur) = {}) /\ GivesUp

(* undo_open: a file that has no fhdl- key is taken for a new one.         *)
UndoOpenNew ==
    /\ Analyses({"OPEN"})
    /\ Found /\ ent[rcur, op.name] \notin hdlKeys
    /\ ent' = [ent EXCEPT ![rcur, op.name] = None]
    /\ rcur' = ent[rcur, op.name]
    /\ Continues /\ UNCHANGED <<data, rsaved, vec>>

(* restore_data asserts that .txn is there.  It does nothing if there is   *)
(* no backup or an empty one.                                              *)
UndoOpenExisting ==
    /\ Analyses({"OPEN"})
    /\ Found /\ ent[rcur, op.name] \in hdlKeys
    /\ \/ op.how # "open" /\ ~bkpRoot /\ Aborts
       \/ /\ op.how # "open" => bkpRoot
          /\ data' = IF op.how = "open" \/ copy[at] \in {NoCopy, Empty} THEN data
                     ELSE [data EXCEPT ![ent[rcur, op.name]] = copy[at]]
          /\ rcur' = ent[rcur, op.name]
          /\ Continues /\ UNCHANGED <<ent, rsaved, vec>>

UndoOpenMissing == Analyses({"OPEN"}) /\ ~Found /\ GivesUp

(* All operations of the vector have to be of one kind.  CREATE is pushed  *)
(* like the others: the current file handle stays.                         *)
opvec_push ==
    /\ Analyses(Substantial)
    /\ \/ /\ vec # <<>> => vec[1].op = op.op
          /\ vec' = Append(vec, [op |-> op.op, opidx |-> at, cwh |-> rcur])
          /\ Continues /\ UNCHANGED <<ent, data, rcur, rsaved>>
       \/ vec # <<>> /\ vec[1].op # op.op /\ GivesUp

AnalysisEnds ==
    /\ pc = "analysing" /\ at > Len(done)
    /\ pc' = "undoing"
    /\ UNCHANGED <<fsVars, undoVars, copy, bkpRoot, hdlKeys, uuidKeys, cache, done, cur,
                   saved, start, compounds, client>>

(* dispatch_undoer goes through the vector backwards. *)
el == vec[Len(vec)]

Undoes(kinds) ==
    /\ pc = "undoing" /\ vec # <<>> /\ el.op \in kinds
    /\ UNCHANGED <<dirs, used, copy, bkpRoot, hdlKeys, uuidKeys, cache, done, cur, saved,
                   at, rcur, rsaved, start, compounds, client>>

Undone == vec' = SubSeq(vec, 1, Len(vec) - 1) /\ pc' = pc

Stops(state) == pc' = state /\ UNCHANGED <<ent, data, vec>>

UndoName == done[el.opidx].name

Target == IF el.cwh \in dirs THEN ent[el.cwh, UndoName] ELSE None

(* undo_create and undo_link: what was made is looked up, which has to     *)
(* succeed, and unlinked, which fails for a directory with entries.        *)
undo_create ==
    /\ Undoes({"CREATE", "LINK"})
    /\ \/ Target = None /\ Stops("aborted")
       \/ /\ Target # None
          /\ Target \in dirs /\ ~IsEmpty(Target)
          /\ Stops("gaveup")
       \/ /\ Target # None
          /\ Target \in dirs => IsEmpty(Target)
          /\ ent' = [ent EXCEPT ![el.cwh, UndoName] = None]
          /\ Undone /\ UNCHANGED data

(* Fault: the object goes to the directory that was current at the end. *)
undo_removeInLast ==
    /\ Undoes({"REMOVE"})
    /\ \/ rcur \notin dirs /\ Stops("gaveup")
       \/ /\ rcur \in dirs
          /\ ent' = [ent EXCEPT ![Bkp, el.opidx] = None,
                                ![rcur, UndoName] = ent[Bkp, el.opidx]]
          /\ Undone /\ UNCHANGED data

undo_remove ==
    /\ Undoes({"REMOVE"})
    /\ \/ el.cwh \notin dirs /\ Stops("gaveup")
       \/ /\ el.cwh \in dirs
          /\ ent' = [ent EXCEPT ![Bkp, el.opidx] = None,
                                ![el.cwh, UndoName] = ent[Bkp, el.opidx]]
          /\ Undone /\ UNCHANGED data

UndoRename == Undoes({"RENAME"}) /\ Undone /\ UNCHANGED <<ent, data>>

(* undo_write.  A file that undo_open has unlinked may be gone or still be *)
(* open; an empty backup only truncates it, and that may fail.             *)
undo_write ==
    /\ Undoes({"WRITE"})
    /\ \/ /\ data' = [data EXCEPT ![el.cwh] = copy[el.opidx]]
          /\ Undone /\ UNCHANGED ent
       \/ /\ el.cwh \notin Linked /\ copy[el.opidx] = Empty
          /\ Undone /\ UNCHANGED <<ent, data>>
       \/ /\ el.cwh \notin Linked /\ copy[el.opidx] # Empty
          /\ Stops("gaveup")

UndoEnds ==
    /\ pc = "undoing" /\ vec = <<>>
    /\ pc' = "rolledback"
    /\ UNCHANGED <<fsVars, undoVars, copy, bkpRoot, hdlKeys, uuidKeys, cache, done, cur,
                   saved, start, compounds, client>>

-----------------------------------------------------------------------------
(* The end of txnfs_end_compound: the cache is cleared and the backup      *)
(* folder removed, with all that is in it.  Another compound begins.       *)
EndCompound ==
    /\ pc \in {"committed", "ended", "rolledback", "gaveup"}
    /\ compounds < client.compounds
    /\ compounds' = compounds + 1
    /\ ent' = [p \in Place |-> IF p[1] = Bkp THEN None ELSE ent[p]]
    /\ copy' = NoCopies
    /\ cache' = <<>> /\ done' = <<>> /\ cur' = None /\ saved' = None
    /\ pc' = "running"
    /\ at' = 0 /\ rcur' = Root /\ rsaved' = None /\ vec' = <<>>
    /\ start' = [ent |-> ent', data |-> data, keys |-> hdlKeys]
    /\ UNCHANGED <<data, dirs, used, bkpRoot, hdlKeys, uuidKeys, client>>

Analyse ==
    \/ ReplayPutfh \/ ReplaySavefh \/ ReplayRestorefh
    \/ replay_lookup \/ ReplayLookupp
    \/ UndoOpenNew \/ UndoOpenExisting \/ UndoOpenMissing
    \/ opvec_push
    \/ AnalysisEnds

Undo == undo_create \/ undo_remove \/ UndoRename \/ undo_write \/ UndoEnds

Next ==
    \/ Execute
    \/ CompoundSucceeds
    \/ CompoundFails
    \/ Analyse
    \/ Undo
    \/ EndCompound

Spec == Init /\ [][Next]_vars

-----------------------------------------------------------------------------
(* The type invariant: in particular the handles that the rollback goes    *)
(* through are those of objects, and each uuid- key has its fhdl- key.     *)
TypeOK ==
    /\ ent \in [Place -> Obj \cup {None}]
    /\ data \in [Obj -> Contents]
    /\ dirs \subseteq used /\ used \subseteq Obj
    /\ copy \in [1 .. MaxOps -> Contents \cup {NoCopy}]
    /\ bkpRoot \in BOOLEAN
    /\ hdlKeys \subseteq used /\ uuidKeys \subseteq hdlKeys
    /\ \A i \in 1 .. Len(cache) : cache[i].type \in {"create", "delete"} /\ cache[i].obj \in used
    /\ cur \in used \cup {None} /\ saved \in used \cup {None}
    /\ rcur \in used /\ rsaved \in used \cup {None}
    /\ pc \in {"running", "committed", "ended", "analysing", "undoing", "rolledback",
               "gaveup", "aborted"}
    /\ at \in 0 .. MaxOps + 1
    /\ \A i \in 1 .. Len(vec) : vec[i].op \in Substantial /\ vec[i].cwh \in used
    /\ client \in Clients
    /\ compounds \in 1 .. client.compounds

(* What the comment of do_txn_rollback assumes of a compound: it "does not *)
(* contain multiple different substantial operations", OPEN not being one, *)
(* and the file handle is set again after CREATE has changed it.           *)
Ops == 1 .. Len(done)

Homogeneous ==
    \A i, j \in Ops : done[i].op \in Substantial /\ done[j].op \in Substantial =>
                      done[i].op = done[j].op

SetsHandles ==
    \A i \in Ops : done[i].op = "CREATE" /\ i < Len(done) =>
      done[i + 1].op \in {"PUTFH", "PUTROOTFH", "RESTOREFH"}

Restored ==
    /\ ent = start.ent
    /\ data = start.data

RollbackEnded == pc \in {"rolledback", "gaveup", "aborted"}

(* Further assumptions that it needs.                                      *)
(* No WRITE follows an OPEN that has made or truncated the file: OPENs are *)
(* undone before WRITEs, not after them.  Of the file that OPEN truncated, *)
(* undo_open restores the contents, and undo_write then cuts it to nothing *)
(* since it was empty at the WRITE; a new file is unlinked before the      *)
(* WRITEs to it are undone, and that may fail.                             *)
OpensKept ==
    \A i, j \in Ops :
      done[i].op = "OPEN" /\ (done[i].new \/ done[i].how = "truncate")
        /\ done[j].op = "WRITE" /\ i < j => done[i].obj # done[j].obj

(* The replayed operations reach what they reached at first: no name that  *)
(* is looked up or opened is one that the compound removes or its rollback *)
(* unlinks, and LOOKUPP does not leave a directory that is removed.        *)
SamePlace(i, j) == done[i].in = done[j].in /\ done[i].name = done[j].name

PathsStay ==
    \A i, j \in Ops :
      /\ /\ done[i].op \in {"LOOKUP", "OPEN"}
         /\ done[j].op = "REMOVE" \/ (done[j].op = "OPEN" /\ i # j /\ done[j].new)
         => ~SamePlace(i, j)
      /\ done[i].op = "LOOKUPP" /\ done[j].op = "REMOVE" => done[i].in # done[j].obj

(* Each object has got a handle when the compound begins. *)
AllKnown == \A p \in Place : start.ent[p] # None => start.ent[p] \in start.keys

(* A failed compound leaves no trace: under the assumptions that           *)
(* do_txn_rollback states, and those that it needs besides, the rollback   *)
(* succeeds and the tree and the contents are those at its beginning.      *)
RollbackRestores ==
    RollbackEnded /\ Homogeneous /\ SetsHandles /\ OpensKept /\ PathsStay /\ AllKnown
        /\ bkpRoot /\ (\A i \in Ops : done[i].op # "RENAME") =>
      pc = "rolledback" /\ Restored

(* The handles given to clients stay good: an object with an fhdl- key,    *)
(* from which the UUID in its handle is taken, has a uuid- key as long as  *)
(* it has a name.  This needs that clients make no links: REMOVE of one    *)
(* name deletes the uuid- key of an object that has another.               *)
HandlesResolve ==
    "LINK" \notin client.sent =>
      \A p \in Place : p[1] # Bkp /\ ent[p] \in hdlKeys => ent[p] \in uuidKeys

(* The cache that txnfs_cache_init allocates, with room for one entry per  *)
(* operation, is large enough if every object of the tree has got a handle *)
(* before.  (If not, REMOVE of such an object takes two entries.)          *)
KnownCacheFits == AllKnown => Len(cache) <= Len(done)
=============================================================================
