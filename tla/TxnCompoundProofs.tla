------------------------- MODULE TxnCompoundProofs --------------------------
(***************************************************************************)
(* Proofs about TxnCompound, for any number of threads, files, operations  *)
(* and faults, and whatever compounds the clients send.  Nothing is        *)
(* assumed of when compounds run or the server stops: what the code does   *)
(* not protect is in `harmed', and the theorems are about the other files. *)
(*                                                                         *)
(* A rollback restores a file because the backups of the WRITEs done so    *)
(* far are what the WRITEs found (BackedUp), each state of the file being  *)
(* the one before it with a WRITE laid over it (History), and the first    *)
(* being what the successful compounds left (Untouched).  This is known of *)
(* a file only while no other compound has a claim on it (Disjoint).       *)
(***************************************************************************)
EXTENDS TxnCompound, TLAPS

-----------------------------------------------------------------------------
(* The inductive invariant. *)

Saving == {"root", "mkroot", "folder", "save"}
Executing == Saving \cup {"op"}
Locked(t) == pc[t] \in Executing \cup {"ended", "failed"}

\* The operations of t that have been done and not undone, and those that have
\* been backed up.
Done(t) == IF pc[t] \in Executing \cup {"lock"} THEN i[t] - 1 ELSE i[t]
Saves(t) == IF pc[t] = "op" THEN i[t] ELSE Done(t)

\* The files that t may still change, as long as nobody else does.
Claims(t) ==
    IF Locked(t) THEN FilesOf(ops[t]) ELSE IF pc[t] = "undo" THEN Written(t) ELSE {}

\* The backups of t are in a folder that was made for it.
OwnFolder(t) == id[t] # 0 /\ id[t] \notin leftover

\* Where a compound is in its operations, and what it has.
ShapeOf(t) ==
    /\ pc[t] = "idle" => id[t] = 0
    /\ pc[t] # "idle" => ops[t] \in Compound
    /\ pc[t] = "lock" => i[t] = 1
    /\ pc[t] \in Executing => i[t] \in 1..Len(ops[t])
    /\ pc[t] \in {"ended", "failed", "undo"} => i[t] \in 0..Len(ops[t])
    /\ pc[t] \in Saving \cup {"undo"} => id[t] # 0
    /\ pc[t] = "save" => id[t] \in folders
    /\ id[t] < nextid
    /\ held[t] = IF Locked(t) THEN LockRequest(ops[t]) ELSE RW!Nothing

\* The backups of the operations that are still to come are empty.
UnusedOf(t) ==
    pc[t] \in Executing \cup {"lock"} /\ OwnFolder(t) =>
        \A k \in 1..MaxOps : k > Saves(t) => bkp[id[t]][k] = EmptyFile

\* A folder that this run of the server has not made yet is empty.
Folders ==
    /\ \A n \in trash : n < nextid
    /\ \A n \in folders : n \in leftover \/ n < nextid
    /\ \A n \in Ids \ folders : bkp[n] = NoBackups

\* Who claims a file is alone with it.
Disjoint ==
    \A t, u \in Threads : t # u => Claims(t) \cap Claims(u) \subseteq harmed

\* Files that nobody claims are as the successful compounds left them.
Clean ==
    \A f \in Files \ harmed :
        (\A t \in Threads : f \notin Claims(t)) => file[f] = committed[f]

\* The file f as operation k of t finds it, or found it.
Seen(t, k, f) == IF k = Done(t) + 1 THEN file[f] ELSE snap[t][k][f]

\* What each operation of t did to f.
History(t, f) ==
    \A k \in 1..Done(t) :
        Seen(t, k + 1, f) = IF f = ops[t][k].file
                            THEN Over(Pages(t, ops[t][k].len), Seen(t, k, f))
                            ELSE Seen(t, k, f)

\* What has been saved of f.
BackedUp(t, f) ==
    OwnFolder(t) =>
        \A k \in 1..Saves(t) :
            ops[t][k].file = f => bkp[id[t]][k] = Saved(Seen(t, k, f), ops[t][k], EmptyFile)

\* f is as the successful compounds left it until t writes it.
Untouched(t, f) ==
    \A k \in 1..(Done(t) + 1) :
        (\A j \in 1..(k - 1) : ops[t][j].file # f) => Seen(t, k, f) = committed[f]

Account(t, f) == History(t, f) /\ BackedUp(t, f) /\ Untouched(t, f)

CompoundInv ==
    /\ TypeOK /\ Folders /\ FolderOwned /\ NoFolderLost
    /\ \A t \in Threads : ShapeOf(t) /\ UnusedOf(t)
    /\ Disjoint /\ Clean
    /\ \A t \in Threads : \A f \in Claims(t) \ harmed : Account(t, f)

(***************************************************************************)
(* Files as functions on pages.                                            *)
(***************************************************************************)

\* n pages of p are a file.
LEMMA PagesType ==
    ASSUME NEW p \in Page, NEW n \in 0..MaxPages
    PROVE  Pages(p, n) \in Content
BY TxnCompoundAssumption DEF Pages, Content, PageNo, Page

\* The empty file is a file.
LEMMA EmptyType == EmptyFile \in Content
BY DEF EmptyFile, Content

\* The first pages of a file are a file.
LEMMA FirstType ==
    ASSUME NEW c \in Content, NEW n \in Nat
    PROVE  First(n, c) \in Content
BY TxnCompoundAssumption DEF First, Content, PageNo

\* A file laid over a file is a file.
LEMMA OverType ==
    ASSUME NEW b \in Content, NEW c \in Content
    PROVE  Over(b, c) \in Content
BY DEF Over, Content

\* vfs_clone2 makes a file that is as long as its source.
LEMMA CloneType ==
    ASSUME NEW b \in Content, NEW c \in Content, NEW n \in Nat
    PROVE  Clone(b, n, c) \in Content
<1>1. \A k \in PageNo : /\ Clone(b, n, c)[k] \in Page \cup {None}
                        /\ Clone(b, n, c)[k] = None <=> b[k] = None
  BY TxnCompoundAssumption DEF Clone, Content, Page
<1>2. \A k, j \in PageNo : k < j /\ b[k] = None => b[j] = None
  BY DEF Content
<1>3. Clone(b, n, c) \in [PageNo -> Page \cup {None}]
  BY <1>1 DEF Clone
<1> QED
  BY <1>1, <1>2, <1>3 DEF Content

\* truncate_file makes a file.
LEMMA CutType ==
    ASSUME NEW b \in Content, NEW c \in Content
    PROVE  Cut(c, b) \in Content
<1>1. \A k \in PageNo : /\ Cut(c, b)[k] \in Page \cup {None}
                        /\ Cut(c, b)[k] = None <=> b[k] = None
  BY TxnCompoundAssumption DEF Cut, Content, Page
<1>2. \A k, j \in PageNo : k < j /\ b[k] = None => b[j] = None
  BY DEF Content
<1>3. Cut(c, b) \in [PageNo -> Page \cup {None}]
  BY <1>1 DEF Cut
<1> QED
  BY <1>1, <1>2, <1>3 DEF Content

\* txnfs_backup_file makes a file of a file and whatever was in the backup.
LEMMA SavedType ==
    ASSUME NEW b \in Content, NEW c \in Content, NEW w \in Write
    PROVE  Saved(c, w, b) \in Content
<1>1. w.len + 1 \in Nat
  BY TxnCompoundAssumption DEF Write, PageNo
<1>2. First(w.len + 1, c) \in Content
  BY <1>1, FirstType
<1> QED
  BY <1>1, <1>2, CloneType, OverType DEF Saved

\* restore_data makes a file of a file and whatever is in the backup.
LEMMA RestoredType ==
    ASSUME NEW b \in Content, NEW c \in Content, NEW w \in Write
    PROVE  Restored(c, w, b) \in Content
BY CloneType, OverType, CutType, TxnCompoundAssumption DEF Restored

\* What is saved in an empty backup file is the file, up to the page after the
\* WRITE, and in a clone a hole after it.
LEMMA SavedPages ==
    ASSUME NEW c \in Content, NEW w \in Write, NEW k \in PageNo
    PROVE  /\ k <= w.len + 1 => Saved(c, w, EmptyFile)[k] = c[k]
           /\ ~cloneWorks /\ ~(k <= w.len + 1) => Saved(c, w, EmptyFile)[k] = None
           /\ cloneWorks /\ ~(k <= w.len + 1) =>
                  Saved(c, w, EmptyFile)[k] = IF c[k] = None THEN None ELSE Zero
<1>1. w.len \in Nat /\ 1 \in PageNo /\ k \in Nat /\ (k = 1 \/ 1 < k)
  BY TxnCompoundAssumption DEF Write, PageNo
<1>2. c[1] = None => c[k] = None
  BY <1>1 DEF Content
<1>3. CASE c[1] = None
  BY <1>2, <1>3 DEF Saved, EmptyFile
<1>4. CASE c[1] # None /\ cloneWorks
  BY <1>1, <1>4 DEF Saved, EmptyFile, Clone
<1>5. CASE c[1] # None /\ ~cloneWorks
  BY <1>1, <1>5 DEF Saved, EmptyFile, Over, First
<1> QED
  BY <1>3, <1>4, <1>5

\* restore_data takes a WRITE back exactly, if the backup does not end in a hole:
\* what it overwrote comes from the backup, and what it added is cut off.
LEMMA UndoExact ==
    ASSUME NEW c \in Content, NEW w \in Write, NEW t \in Threads, cloneWorks \in BOOLEAN,
           ~HasHole(w, Saved(c, w, EmptyFile))
    PROVE  Restored(Over(Pages(t, w.len), c), w, Saved(c, w, EmptyFile)) = c
<1> DEFINE b == Saved(c, w, EmptyFile)
           d == Over(Pages(t, w.len), c)
           rest == IF b[w.len] = None THEN Cut(d, b) ELSE d
<1>0. /\ w.len \in PageNo /\ w.len \in Nat /\ t # None /\ Zero # None /\ MaxPages \in Nat
      /\ 1 \in PageNo /\ PageNo \subseteq Nat /\ \A k \in PageNo : 1 <= k /\ k <= MaxPages
  BY TxnCompoundAssumption DEF Write, PageNo
<1>1. c \in [PageNo -> Page \cup {None}]
  BY DEF Content
<1>2. \A k \in PageNo :
          /\ k <= w.len + 1 => b[k] = c[k]
          /\ ~cloneWorks /\ ~(k <= w.len + 1) => b[k] = None
          /\ cloneWorks => b[k] = c[k]
  <2> SUFFICES ASSUME NEW k \in PageNo
               PROVE  /\ k <= w.len + 1 => b[k] = c[k]
                      /\ ~cloneWorks /\ ~(k <= w.len + 1) => b[k] = None
                      /\ cloneWorks => b[k] = c[k]
    BY Zenon
  <2>1. /\ k <= w.len + 1 => b[k] = c[k]
        /\ ~cloneWorks /\ ~(k <= w.len + 1) => b[k] = None
        /\ cloneWorks /\ ~(k <= w.len + 1) => b[k] = IF c[k] = None THEN None ELSE Zero
    BY Zenon, SavedPages
  <2>2. k > w.len + 1 => b[k] = None
    BY Zenon DEF HasHole
  <2>3. ~(k <= w.len + 1) => k > w.len + 1
    BY <1>0
  <2> QED
    BY Zenon, <1>0, <2>1, <2>2, <2>3
<1>3. b[w.len] = c[w.len] /\ b[1] = c[1]
  BY <1>0, <1>2
<1>4. \A k \in PageNo : d[k] = IF k <= w.len THEN t ELSE c[k]
  BY <1>0 DEF Over, Pages
<1>5. \A k \in PageNo : c[w.len] = None /\ ~(k < w.len) => c[k] = None
  <2> SUFFICES ASSUME NEW k \in PageNo, c[w.len] = None, ~(k < w.len)
               PROVE  c[k] = None
    BY Zenon
  <2>1. k = w.len \/ w.len < k
    BY <1>0
  <2> QED
    BY <1>0, <2>1 DEF Content
<1>6. \A k \in PageNo : c[w.len] # None /\ k <= w.len => c[k] # None
  <2> SUFFICES ASSUME NEW k \in PageNo, c[k] = None, k <= w.len
               PROVE  c[w.len] = None
    BY Zenon
  <2>1. k = w.len \/ k < w.len
    BY <1>0
  <2> QED
    BY <1>0, <2>1 DEF Content
<1>7. \A k \in PageNo : c[k] = None /\ (c[w.len] = None \/ ~(k <= w.len)) => rest[k] = None
  <2> SUFFICES ASSUME NEW k \in PageNo, c[k] = None, c[w.len] = None \/ ~(k <= w.len)
               PROVE  rest[k] = None
    BY Zenon
  <2>1. CASE c[w.len] = None
    <3>1. b[k] = None
      <4>1. k <= w.len + 1 \/ ~(k <= w.len + 1)
        BY Zenon
      <4> QED
        BY Zenon, <1>0, <1>2, <4>1
    <3> QED
      BY <1>3, <2>1, <3>1 DEF Cut
  <2>2. CASE c[w.len] # None
    BY <1>3, <1>4, <2>2
  <2> QED
    BY Zenon, <2>1, <2>2
<1>8. Restored(d, w, b) \in [PageNo -> Page \cup {None}]
  <2>1. b \in Content
    BY Zenon, SavedType, EmptyType
  <2>2. t \in Page /\ w.len \in 0..MaxPages
    BY <1>0 DEF Page, PageNo
  <2>3. d \in Content
    BY Zenon, <2>2, PagesType, OverType
  <2> QED
    BY Zenon, <2>1, <2>3, RestoredType DEF Content
<1>9. ASSUME NEW k \in PageNo
      PROVE  Restored(d, w, b)[k] = c[k]
  <2>1. CASE b = EmptyFile
    <3>1. b[w.len] = None /\ b[1] = None
      BY <1>0, <2>1 DEF EmptyFile
    <3>2. c[w.len] = None /\ c[1] = None
      BY Zenon, <1>3, <3>1
    <3>3. c[k] = None
      <4>1. k = 1 \/ 1 < k
        BY <1>0
      <4> QED
        BY <1>0, <3>2, <4>1 DEF Content
    <3>4. rest[k] = None
      BY Zenon, <1>7, <3>2, <3>3
    <3> QED
      BY Zenon, <2>1, <3>3, <3>4 DEF Restored
  <2>2. CASE b # EmptyFile /\ cloneWorks
    <3>1. Restored(d, w, b) = Clone(b, MaxPages, rest)
      BY Zenon, <2>2 DEF Restored
    <3>2. b[k] = c[k] /\ k <= MaxPages
      BY Zenon, <1>0, <1>2, <2>2
    <3> HIDE DEF b, rest
    <3>3. Clone(b, MaxPages, rest)[k] = b[k]
      BY Zenon, <3>2 DEF Clone
    <3> QED
      BY Zenon, <3>1, <3>2, <3>3
  <2>3. CASE b # EmptyFile /\ ~cloneWorks
    <3>1. Restored(d, w, b) = Over(b, rest)
      BY Zenon, <2>3 DEF Restored
    <3>2. Over(b, rest)[k] = IF b[k] # None THEN b[k] ELSE rest[k]
      BY Zenon DEF Over
    <3>3. CASE b[k] # None
      BY Zenon, <1>2, <2>3, <3>1, <3>2, <3>3
    <3>4. CASE b[k] = None
      <4>1. CASE c[k] = None
        <5>1. c[w.len] = None \/ ~(k <= w.len)
          BY Zenon, <1>6, <4>1
        <5> QED
          BY Zenon, <1>7, <3>1, <3>2, <3>4, <4>1, <5>1
      <4>2. CASE c[k] # None
        <5>1. ~(k <= w.len + 1)
          BY Zenon, <1>2, <3>4, <4>2
        <5>2. ~(k <= w.len) /\ ~(k < w.len)
          BY <1>0, <5>1
        <5>3. c[w.len] # None
          BY Zenon, <1>5, <4>2, <5>2
        <5>4. rest[k] = c[k]
          BY Zenon, <1>3, <1>4, <5>2, <5>3
        <5> QED
          BY Zenon, <3>1, <3>2, <3>4, <5>4
      <4> QED
        BY Zenon, <4>1, <4>2
    <3> QED
      BY Zenon, <3>3, <3>4
  <2> QED
    BY Zenon, <2>1, <2>2, <2>3
<1> QED
  BY <1>1, <1>8, <1>9

\* A compound is a sequence of WRITEs.
LEMMA CompoundShape ==
    ASSUME NEW o \in Compound
    PROVE  /\ Len(o) \in 1..MaxOps /\ DOMAIN o = 1..Len(o)
           /\ \A k \in 1..Len(o) : o[k] \in Write /\ o[k].file \in FilesOf(o)
           /\ FilesOf(o) \subseteq Files
<1>1. PICK n \in 1..MaxOps : o \in [1..n -> Write]
  BY DEF Compound
<1>2. n \in Nat /\ Len(o) = n /\ DOMAIN o = 1..n
  BY <1>1, TxnCompoundAssumption
<1> QED
  BY <1>1, <1>2 DEF FilesOf, Write

(***************************************************************************)
(* What the steps have in common.                                          *)
(***************************************************************************)

\* To hold nothing is to hold a set of paths.
LEMMA NothingType == RW!Nothing \in RW!PathModes
<1>1. RW!Nothing \in [{} -> BOOLEAN]
  BY DEF RW!Nothing
<1> QED
  BY <1>1 DEF RW!PathModes

\* Empty folders and compounds that have done nothing.
LEMMA BlankTypes ==
    NoBackups \in [1..MaxOps -> Content] /\ NoSnap \in [1..MaxOps -> [Files -> Content]]
BY EmptyType DEF NoBackups, NoSnap

\* Where a compound under way is in its operations.
LEMMA RunningShape ==
    ASSUME TypeOK, NEW t \in Threads, ShapeOf(t), Locked(t) \/ pc[t] = "undo"
    PROVE  /\ ops[t] \in Compound /\ Len(ops[t]) \in 1..MaxOps /\ Len(ops[t]) \in Nat
           /\ \A k \in 1..Len(ops[t]) :
                  ops[t][k] \in Write /\ ops[t][k].file \in FilesOf(ops[t])
           /\ FilesOf(ops[t]) \subseteq Files
           /\ i[t] \in Nat /\ Done(t) \in Nat /\ Done(t) <= Len(ops[t])
           /\ Written(t) = {ops[t][k].file : k \in 1..Done(t)}
           /\ Written(t) \subseteq FilesOf(ops[t])
           /\ Claims(t) \subseteq FilesOf(ops[t])
<1>1. /\ pc[t] \notin {"idle", "lock", "submit"}
      /\ pc[t] \in {"ended", "failed", "undo"} <=> pc[t] \notin Executing
  BY Zenon DEF Locked, Executing, Saving
<1>2. ops[t] \in Compound
  BY Zenon, <1>1 DEF ShapeOf
<1>3. /\ Len(ops[t]) \in 1..MaxOps /\ MaxOps \in Nat
      /\ \A k \in 1..Len(ops[t]) :
             ops[t][k] \in Write /\ ops[t][k].file \in FilesOf(ops[t])
      /\ FilesOf(ops[t]) \subseteq Files
  BY <1>2, CompoundShape, TxnCompoundAssumption
<1>4. i[t] \in Nat /\ Done(t) \in Nat /\ Done(t) <= Len(ops[t])
  BY <1>1, <1>3 DEF ShapeOf, Done
<1>5. Written(t) = {ops[t][k].file : k \in 1..Done(t)}
  BY <1>1 DEF Written, Done
<1>6. Written(t) \subseteq FilesOf(ops[t])
  BY <1>3, <1>4, <1>5
<1> QED
  BY <1>2, <1>3, <1>4, <1>5, <1>6 DEF Claims

\* Claims are on files, and only of compounds under way.
LEMMA ClaimsShape ==
    ASSUME TypeOK, NEW t \in Threads, ShapeOf(t)
    PROVE  /\ Claims(t) \subseteq Files
           /\ \A f \in Claims(t) : Locked(t) \/ pc[t] = "undo"
BY RunningShape DEF Claims

\* What is known of a file is kept if nothing is done to it.
LEMMA AccountKept ==
    ASSUME TypeOK, NEW u \in Threads, ShapeOf(u), NEW f \in Claims(u), Account(u, f),
           Done(u)' = Done(u), \A k \in 1..Saves(u)' : k \in 1..Saves(u),
           ops'[u] = ops[u], id'[u] = id[u], snap'[u] = snap[u],
           id[u] # 0 => \A k \in 1..Saves(u)' : bkp'[id[u]][k] = bkp[id[u]][k],
           id[u] \in leftover' <=> id[u] \in leftover, cloneWorks' = cloneWorks,
           file'[f] = file[f], committed'[f] = committed[f]
    PROVE  Account(u, f)'
<1>1. /\ Done(u) \in Nat /\ Done(u) <= Len(ops[u]) /\ Len(ops[u]) \in Nat
  BY Zenon, ClaimsShape, RunningShape
<1>3. \A k : Seen(u, k, f)' = Seen(u, k, f)
  BY Zenon DEF Seen
<1>4. History(u, f)'
  BY Zenon, <1>3 DEF Account, History
<1>5. BackedUp(u, f)'
  <2> SUFFICES ASSUME OwnFolder(u)', NEW k \in 1..Saves(u)', ops[u][k].file = f
               PROVE  bkp'[id[u]][k] = Saved(Seen(u, k, f), ops[u][k], EmptyFile)'
    BY Zenon DEF BackedUp
  <2>1. bkp[id[u]][k] = Saved(Seen(u, k, f), ops[u][k], EmptyFile) /\ id[u] # 0
    BY Zenon DEF Account, BackedUp, OwnFolder
  <2>2. Seen(u, k, f)' = Seen(u, k, f)
    BY Zenon, <1>3
  <2> QED
    BY <2>1, <2>2 DEF Saved
<1>6. Untouched(u, f)'
  BY Zenon, <1>3 DEF Account, Untouched
<1> QED
  BY Zenon, <1>4, <1>5, <1>6 DEF Account

\* The compound of u is where it was.
SameCompound(u) ==
    /\ pc'[u] = pc[u] /\ id'[u] = id[u] /\ ops'[u] = ops[u] /\ i'[u] = i[u]
    /\ snap'[u] = snap[u] /\ held'[u] = held[u]
    /\ id[u] # 0 => bkp'[id[u]] = bkp[id[u]]
    /\ id[u] \in leftover' <=> id[u] \in leftover
    /\ id[u] \in folders => id[u] \in folders'

\* Whatever depends only on the state of a compound is as it was.
LEMMA SameIs ==
    ASSUME NEW u, SameCompound(u)
    PROVE  /\ Locked(u)' <=> Locked(u)
           /\ OwnFolder(u)' <=> OwnFolder(u)
           /\ Done(u)' = Done(u) /\ Saves(u)' = Saves(u)
           /\ FilesOf(ops[u])' = FilesOf(ops[u]) /\ Written(u)' = Written(u)
           /\ Claims(u)' = Claims(u)
<1>1. /\ Locked(u)' <=> Locked(u)
      /\ OwnFolder(u)' <=> OwnFolder(u)
      /\ Done(u)' = Done(u)
  BY Zenon DEF SameCompound, Locked, OwnFolder, Done
<1>2. Saves(u)' = Saves(u)
  BY Zenon, <1>1 DEF SameCompound, Saves
<1>3. FilesOf(ops[u])' = FilesOf(ops[u]) /\ Written(u)' = Written(u)
  BY Zenon DEF SameCompound, FilesOf, Written
<1> QED
  BY Zenon, <1>1, <1>2, <1>3 DEF SameCompound, Claims

\* A compound that is where it was keeps its shape.
LEMMA ShapeKept ==
    ASSUME NEW u, SameCompound(u), ShapeOf(u), UnusedOf(u), id[u] < nextid'
    PROVE  ShapeOf(u)' /\ UnusedOf(u)'
<1>1. ShapeOf(u)'
  <2>1. LockRequest(ops[u])' = LockRequest(ops[u]) /\ (Locked(u)' <=> Locked(u))
    BY Zenon, SameIs DEF LockRequest, FilesOf, SameCompound
  <2> QED
    BY Zenon, <2>1 DEF SameCompound, ShapeOf, RW!Nothing
<1>2. UnusedOf(u)'
  BY Zenon, SameIs DEF SameCompound, UnusedOf, OwnFolder
<1> QED
  BY Zenon, <1>1, <1>2

\* A step of t keeps what the invariant says of compounds and files if it keeps
\* what it says of t and the files that t claims, and changes no others.
LEMMA LocalStep ==
    ASSUME CompoundInv, NEW t \in Threads,
           \A u \in Threads \ {t} : SameCompound(u) /\ id[u] < nextid',
           cloneWorks' = cloneWorks, harmed \subseteq harmed',
           \A f \in Files \ (Claims(t) \cup harmed') :
               file'[f] = file[f] /\ committed'[f] = committed[f],
           TypeOK', Folders', FolderOwned', NoFolderLost', ShapeOf(t)', UnusedOf(t)',
           \A f \in Claims(t)' \ harmed' :
               Account(t, f)' /\ \A u \in Threads \ {t} : f \notin Claims(u),
           \A f \in Claims(t) \ (Claims(t)' \cup harmed') : file'[f] = committed'[f]
    PROVE  CompoundInv'
<1>1. ASSUME NEW u \in Threads \ {t}
      PROVE  ShapeOf(u)' /\ UnusedOf(u)' /\ Claims(u)' = Claims(u)
  BY Zenon, ShapeKept, SameIs DEF CompoundInv
<1>2. Disjoint'
  <2> SUFFICES ASSUME NEW u \in Threads, NEW v \in Threads, u # v,
                      NEW f \in Claims(u)', f \in Claims(v)', f \notin harmed'
               PROVE  FALSE
    BY Zenon DEF Disjoint
  <2>1. CASE u # t /\ v # t
    <3>1. f \in Claims(u) /\ f \in Claims(v) /\ f \notin harmed
      BY Zenon, <1>1, <2>1
    <3>2. Disjoint
      BY Zenon DEF CompoundInv
    <3> QED
      BY <3>1, <3>2 DEF Disjoint
  <2>2. CASE u = t
    BY Zenon, <1>1, <2>2
  <2>3. CASE v = t
    BY Zenon, <1>1, <2>3
  <2> QED
    BY Zenon, <2>1, <2>2, <2>3
<1>3. Clean'
  <2> SUFFICES ASSUME NEW f \in Files \ harmed', \A u \in Threads : f \notin Claims(u)'
               PROVE  file'[f] = committed'[f]
    BY Zenon DEF Clean
  <2>1. CASE f \in Claims(t)
    BY Zenon, <2>1
  <2>2. CASE f \notin Claims(t)
    <3>1. \A u \in Threads : f \notin Claims(u)
      BY Zenon, <1>1, <2>2
    <3> QED
      BY Zenon, <2>2, <3>1 DEF CompoundInv, Clean
  <2> QED
    BY Zenon, <2>1, <2>2
<1>4. ASSUME NEW u \in Threads \ {t}, NEW f \in Claims(u)' \ harmed'
      PROVE  Account(u, f)'
  <2>1. f \in Claims(u) /\ f \notin harmed /\ Account(u, f) /\ ShapeOf(u) /\ TypeOK
    BY Zenon, <1>1, <1>4 DEF CompoundInv
  <2>2. f \in Files \ (Claims(t) \cup harmed')
    <3>1. f \in Files
      BY Zenon, <2>1, ClaimsShape
    <3> QED
      BY Zenon, <1>4, <2>1, <3>1 DEF CompoundInv, Disjoint
  <2>3. Done(u)' = Done(u) /\ Saves(u)' = Saves(u)
    BY Zenon, SameIs
  <2> QED
    BY Zenon, <2>1, <2>2, <2>3, AccountKept DEF SameCompound
<1> QED
  BY Zenon, <1>1, <1>2, <1>3, <1>4 DEF CompoundInv

\* An empty claim, before the step or after it, is easily kept.
LEMMA NoClaims ==
    /\ \A t : ~Locked(t) /\ pc[t] # "undo" => Claims(t) = {}
    /\ \A t : ~Locked(t)' /\ pc'[t] # "undo" => Claims(t)' = {}
BY Zenon DEF Claims

\* A file that a compound claims and has not written is as it was found.
LEMMA Unwritten ==
    ASSUME CompoundInv, NEW t \in Threads, NEW f \in Claims(t),
           f \notin harmed, f \notin Written(t)
    PROVE  file[f] = committed[f]
<1>1. TypeOK /\ ShapeOf(t) /\ Untouched(t, f) /\ (Locked(t) \/ pc[t] = "undo")
  BY Zenon, ClaimsShape DEF CompoundInv, Account
<1>2. Done(t) \in Nat /\ Written(t) = {ops[t][k].file : k \in 1..Done(t)}
  BY Zenon, <1>1, RunningShape
<1>3. \A j \in 1..Done(t) : ops[t][j].file # f
  BY Zenon, <1>2
<1>4. Done(t) + 1 \in 1..(Done(t) + 1) /\ (Done(t) + 1) - 1 = Done(t)
  BY <1>2
<1>5. Seen(t, Done(t) + 1, f) = committed[f]
  BY <1>1, <1>3, <1>4 DEF Untouched
<1> QED
  BY Zenon, <1>5 DEF Seen

\* No other compound claims a file that a compound claims.
LEMMA Alone ==
    ASSUME CompoundInv, NEW t \in Threads, NEW f \in Claims(t), f \notin harmed
    PROVE  \A u \in Threads \ {t} : f \notin Claims(u)
<1>1. Disjoint
  BY Zenon DEF CompoundInv
<1> QED
  BY <1>1 DEF Disjoint

(***************************************************************************)
(* The initial state, and the steps that begin and end a compound.         *)
(***************************************************************************)

Where == {"idle", "lock", "root", "mkroot", "folder", "save", "op",
          "ended", "failed", "undo", "submit"}

\* The invariant holds when the server has never run.
LEMMA InitEstablishes == Init => CompoundInv
<1> SUFFICES ASSUME Init PROVE CompoundInv
  OBVIOUS
<1>1. \A t \in Threads :
          pc[t] = "idle" /\ id[t] = 0 /\ held[t] = RW!Nothing /\ ~Locked(t) /\ Claims(t) = {}
  BY Zenon DEF Init, RW!Init, Locked, Executing, Saving, Claims
<1>2. TypeOK
  <2>1. file \in [Files -> Content] /\ committed = file
    <3>1. \A f \in Files : Pages(Old, InitSize[f]) \in Content
      BY PagesType, TxnCompoundAssumption DEF Page
    <3> QED
      BY <3>1 DEF Init
  <2>2. held \in [Threads -> RW!PathModes]
    BY Zenon, NothingType DEF Init, RW!Init
  <2>3. 1 \in 1..(MaxId + 1) /\ 0 \in 0..MaxId /\ 0 \in 0..MaxOps /\ 0 \in 0..MaxFaults
    BY TxnCompoundAssumption
  <2>4. bkp \in [Ids -> [1..MaxOps -> Content]]
    BY Zenon, BlankTypes DEF Init
  <2>5. snap \in [Threads -> [1..MaxOps -> [Files -> Content]]]
    BY Zenon, BlankTypes DEF Init
  <2>6. ops \in [Threads -> Compound \cup {<<>>}]
    BY DEF Init
  <2>7. /\ id \in [Threads -> 0..MaxId] /\ i \in [Threads -> 0..MaxOps]
        /\ nextid \in 1..(MaxId + 1) /\ faults \in 0..MaxFaults
    BY Zenon, <2>3 DEF Init
  <2>8. /\ root \in BOOLEAN /\ bkproot \in BOOLEAN /\ cloneWorks \in BOOLEAN
        /\ folders \subseteq Ids /\ leftover \subseteq Ids /\ trash \subseteq Ids
        /\ harmed \subseteq Files
    BY Zenon DEF Init
  <2>9. pc \in [Threads -> Where]
    BY Zenon DEF Init, Where
  <2> QED
    BY Zenon, <2>1, <2>2, <2>4, <2>5, <2>6, <2>7, <2>8, <2>9 DEF TypeOK, Where
<1>3. Folders /\ FolderOwned /\ NoFolderLost
  BY Zenon, <1>1 DEF Init, Folders, FolderOwned, NoFolderLost
<1>4. ASSUME NEW t \in Threads
      PROVE  ShapeOf(t) /\ UnusedOf(t)
  <2>1. id[t] < nextid
    BY <1>1 DEF Init
  <2> QED
    BY Zenon, <1>1, <2>1 DEF ShapeOf, UnusedOf, Executing, Saving
<1>5. Disjoint
  BY <1>1 DEF Disjoint
<1>6. Clean
  BY Zenon DEF Init, Clean
<1> QED
  BY Zenon, <1>1, <1>2, <1>3, <1>4, <1>5, <1>6 DEF CompoundInv

\* txnfs_start_compound takes an id that no compound has, and whose folder is
\* empty if this run of the server is to make it; or none.
LEMMA BeginPreserves ==
    ASSUME CompoundInv, NEW t \in Threads, NEW o \in Compound, NEW n \in {0, nextid},
           Begin(t, o, n), nextid' = nextid + 1, faults' \in 0..MaxFaults
    PROVE  CompoundInv'
<1>1. /\ pc[t] = "idle" /\ nextid <= MaxId
      /\ id' = [id EXCEPT ![t] = n] /\ ops' = [ops EXCEPT ![t] = o]
      /\ i' = [i EXCEPT ![t] = 1] /\ pc' = [pc EXCEPT ![t] = "lock"]
      /\ file' = file /\ root' = root /\ folders' = folders /\ bkp' = bkp
      /\ bkproot' = bkproot /\ trash' = trash /\ held' = held /\ snap' = snap
      /\ committed' = committed /\ leftover' = leftover /\ harmed' = harmed
      /\ cloneWorks' = cloneWorks
  BY Zenon DEF Begin, Goto, disk
<1>2. /\ TypeOK /\ Folders /\ FolderOwned /\ NoFolderLost /\ ShapeOf(t)
      /\ id \in [Threads -> 0..MaxId] /\ ops \in [Threads -> Compound \cup {<<>>}]
      /\ i \in [Threads -> 0..MaxOps] /\ pc \in [Threads -> Where]
  BY Zenon DEF CompoundInv, TypeOK, Where
<1>3. /\ nextid \in Ids /\ nextid \in Nat \ {0} /\ nextid + 1 \in 1..(MaxId + 1)
      /\ n \in 0..MaxId /\ 1 \in 0..MaxOps /\ n < nextid'
  BY <1>1, <1>2, TxnCompoundAssumption DEF TypeOK, Ids
<1>4. /\ pc'[t] = "lock" /\ id'[t] = n /\ ops'[t] = o /\ i'[t] = 1
      /\ id[t] = 0 /\ held[t] = RW!Nothing
      /\ \A u \in Threads \ {t} :
             pc'[u] = pc[u] /\ id'[u] = id[u] /\ ops'[u] = ops[u] /\ i'[u] = i[u]
  <2>1. held[t] = RW!Nothing /\ id[t] = 0
    BY Zenon, <1>1, <1>2 DEF ShapeOf, Locked, Executing, Saving
  <2> QED
    BY Zenon, <1>1, <1>2, <2>1
<1>5. \A u \in Threads : id[u] < nextid /\ id[u] < nextid'
  <2>1. \A u \in Threads : id[u] < nextid /\ id[u] \in Nat
    BY <1>2 DEF CompoundInv, ShapeOf
  <2> QED
    BY <1>3, <2>1
<1>6. TypeOK'
  <2>1. id' \in [Threads -> 0..MaxId] /\ i' \in [Threads -> 0..MaxOps]
    BY Zenon, <1>1, <1>2, <1>3
  <2>2. ops' \in [Threads -> Compound \cup {<<>>}] /\ pc' \in [Threads -> Where]
    BY Zenon, <1>1, <1>2 DEF Where
  <2> QED
    BY Zenon, <1>1, <1>2, <1>3, <2>1, <2>2 DEF TypeOK, Where
<1>7. Folders'
  <2>1. \A m \in Ids : m < nextid => m < nextid'
    BY <1>3 DEF Ids
  <2>2. trash \subseteq Ids /\ folders \subseteq Ids
    BY Zenon, <1>2 DEF TypeOK
  <2> QED
    BY Zenon, <1>1, <1>2, <2>1, <2>2 DEF Folders
<1>8. \A u \in Threads : id[u] # nextid
  BY <1>3, <1>5
<1>9. FolderOwned'
  <2>1. nextid \notin trash
    BY <1>2, <1>3 DEF Folders
  <2> QED
    <3> SUFFICES ASSUME NEW u \in Threads, id'[u] # 0
                 PROVE  id'[u] \notin trash /\ \A v \in Threads \ {u} : id'[v] # id'[u]
      BY Zenon, <1>1 DEF FolderOwned
    <3>1. CASE u = t
      BY Zenon, <1>4, <1>8, <2>1, <3>1
    <3>2. CASE u # t
      <4>1. id'[u] = id[u] /\ id[u] \notin trash /\ \A v \in Threads \ {u} : id[v] # id[u]
        BY Zenon, <1>2, <1>4, <3>2 DEF FolderOwned
      <4> QED
        BY <1>4, <1>8, <4>1
    <3> QED
      BY Zenon, <3>1, <3>2
<1>10. NoFolderLost'
  <2> SUFFICES ASSUME NEW m \in folders, \A u \in Threads : id'[u] # m
               PROVE  m \in trash \cup leftover
    BY Zenon, <1>1 DEF NoFolderLost
  <2>1. m # 0
    BY <1>2, TxnCompoundAssumption DEF TypeOK, Ids
  <2> QED
    BY Zenon, <1>2, <1>4, <2>1 DEF NoFolderLost
<1>11. ShapeOf(t)' /\ UnusedOf(t)'
  <2>1. ~Locked(t)'
    BY Zenon, <1>4 DEF Locked, Executing, Saving
  <2>2. ShapeOf(t)'
    BY Zenon, <1>1, <1>3, <1>4, <2>1 DEF ShapeOf, Executing, Saving
  <2>3. UnusedOf(t)'
    <3> SUFFICES ASSUME OwnFolder(t)', NEW k \in 1..MaxOps
                 PROVE  bkp'[id'[t]][k] = EmptyFile
      BY Zenon DEF UnusedOf
    <3>1. id'[t] = nextid /\ nextid \notin leftover
      BY <1>1, <1>4 DEF OwnFolder
    <3>2. nextid \notin folders
      BY <1>2, <1>3, <3>1 DEF Folders
    <3>3. bkp[nextid] = NoBackups
      BY Zenon, <1>2, <1>3, <3>2 DEF Folders
    <3> QED
      BY Zenon, <1>1, <3>1, <3>3 DEF NoBackups
  <2> QED
    BY Zenon, <2>2, <2>3
<1>12. Claims(t) = {} /\ Claims(t)' = {}
  BY Zenon, <1>1, <1>4, NoClaims DEF Locked, Executing, Saving
<1>13. \A u \in Threads \ {t} : SameCompound(u)
  BY Zenon, <1>1, <1>4 DEF SameCompound
<1> QED
  BY Zenon, <1>1, <1>5, <1>6, <1>7, <1>9, <1>10, <1>11, <1>12, <1>13, LocalStep

\* The folder of a compound that is over goes to the cleanup queue.
LEMMA SubmitPreserves ==
    ASSUME CompoundInv, NEW t \in Threads, Submit(t)
    PROVE  CompoundInv'
<1>1. /\ pc[t] = "submit" /\ trash' = trash \cup ({id[t]} \ {0})
      /\ pc' = [pc EXCEPT ![t] = "idle"] /\ id' = [id EXCEPT ![t] = 0]
      /\ ops' = [ops EXCEPT ![t] = <<>>] /\ i' = [i EXCEPT ![t] = 0]
      /\ snap' = [snap EXCEPT ![t] = NoSnap]
      /\ file' = file /\ root' = root /\ folders' = folders /\ bkp' = bkp
      /\ bkproot' = bkproot /\ nextid' = nextid /\ held' = held
      /\ committed' = committed /\ leftover' = leftover /\ harmed' = harmed
      /\ cloneWorks' = cloneWorks /\ faults' = faults
  BY Zenon DEF Submit, Goto, disk, past
<1>2. /\ TypeOK /\ Folders /\ FolderOwned /\ NoFolderLost /\ ShapeOf(t)
      /\ id \in [Threads -> 0..MaxId] /\ ops \in [Threads -> Compound \cup {<<>>}]
      /\ i \in [Threads -> 0..MaxOps] /\ pc \in [Threads -> Where]
      /\ snap \in [Threads -> [1..MaxOps -> [Files -> Content]]]
  BY Zenon DEF CompoundInv, TypeOK, Where
<1>3. /\ pc'[t] = "idle" /\ id'[t] = 0 /\ held[t] = RW!Nothing
      /\ \A u \in Threads \ {t} : /\ pc'[u] = pc[u] /\ id'[u] = id[u] /\ ops'[u] = ops[u]
                                  /\ i'[u] = i[u] /\ snap'[u] = snap[u]
  <2>1. held[t] = RW!Nothing
    BY Zenon, <1>1, <1>2 DEF ShapeOf, Locked, Executing, Saving
  <2> QED
    BY Zenon, <1>1, <1>2, <2>1
<1>4. \A u \in Threads : id[u] < nextid'
  BY Zenon, <1>1 DEF CompoundInv, ShapeOf
<1>5. id[t] # 0 => id[t] \in Ids
  BY <1>2, TxnCompoundAssumption DEF Ids
<1>6. TypeOK'
  <2>1. 0 \in 0..MaxId /\ 0 \in 0..MaxOps
    BY TxnCompoundAssumption
  <2>2. id' \in [Threads -> 0..MaxId] /\ i' \in [Threads -> 0..MaxOps]
    BY Zenon, <1>1, <1>2, <2>1
  <2>3. ops' \in [Threads -> Compound \cup {<<>>}] /\ pc' \in [Threads -> Where]
    BY Zenon, <1>1, <1>2 DEF Where
  <2>4. snap' \in [Threads -> [1..MaxOps -> [Files -> Content]]]
    BY Zenon, <1>1, <1>2, BlankTypes
  <2>5. trash' \subseteq Ids
    BY Zenon, <1>1, <1>2, <1>5 DEF TypeOK
  <2> QED
    BY Zenon, <1>1, <1>2, <2>2, <2>3, <2>4, <2>5 DEF TypeOK, Where
<1>7. Folders'
  BY Zenon, <1>1, <1>2, <1>4 DEF Folders
<1>8. FolderOwned'
  <2> SUFFICES ASSUME NEW u \in Threads, id'[u] # 0
               PROVE  id'[u] \notin trash' /\ \A v \in Threads \ {u} : id'[v] # id'[u]
    BY Zenon DEF FolderOwned
  <2>1. u # t /\ id'[u] = id[u]
    BY Zenon, <1>3
  <2>2. id[u] \notin trash /\ \A v \in Threads \ {u} : id[v] # id[u]
    BY Zenon, <1>2, <2>1 DEF FolderOwned
  <2>3. \A v \in Threads : id'[v] = id[v] \/ id'[v] = 0
    BY Zenon, <1>3
  <2> QED
    <3>1. id[t] # id[u]
      BY Zenon, <2>1, <2>2
    <3> QED
      BY <1>1, <2>1, <2>2, <2>3, <3>1
<1>9. NoFolderLost'
  <2> SUFFICES ASSUME NEW n \in folders
               PROVE  n \in trash' \cup leftover \/ \E u \in Threads : id'[u] = n
    BY Zenon, <1>1 DEF NoFolderLost
  <2>1. n \in trash \cup leftover \/ \E u \in Threads : id[u] = n
    BY Zenon, <1>2 DEF NoFolderLost
  <2>2. n # 0
    BY <1>2, TxnCompoundAssumption DEF TypeOK, Ids
  <2> QED
    BY Zenon, <1>1, <1>3, <2>1, <2>2
<1>10. ShapeOf(t)' /\ UnusedOf(t)'
  <2>1. id'[t] < nextid'
    BY <1>1, <1>2, <1>3 DEF TypeOK
  <2> QED
    BY Zenon, <1>1, <1>3, <2>1 DEF ShapeOf, UnusedOf, Locked, Executing, Saving
<1>11. Claims(t) = {} /\ Claims(t)' = {}
  BY Zenon, <1>1, <1>3, NoClaims DEF Locked, Executing, Saving
<1>12. \A u \in Threads \ {t} : SameCompound(u)
  BY Zenon, <1>1, <1>3 DEF SameCompound
<1> QED
  BY Zenon, <1>1, <1>4, <1>6, <1>7, <1>8, <1>9, <1>10, <1>11, <1>12, LocalStep

\* The cleanup worker removes only folders of compounds that are over.
LEMMA CleanUpPreserves ==
    ASSUME CompoundInv, NEW n \in Ids, CleanUp(n)
    PROVE  CompoundInv'
<1>1. /\ n \in trash /\ trash' = trash \ {n} /\ folders' = folders \ {n}
      /\ bkp' = [bkp EXCEPT ![n] = NoBackups] /\ leftover' = leftover \ {n}
      /\ file' = file /\ root' = root /\ bkproot' = bkproot /\ nextid' = nextid
      /\ held' = held /\ pc' = pc /\ id' = id /\ ops' = ops /\ i' = i /\ snap' = snap
      /\ committed' = committed /\ harmed' = harmed
      /\ cloneWorks' = cloneWorks /\ faults' = faults
  BY Zenon DEF CleanUp, locals
<1>2. /\ TypeOK /\ Folders /\ FolderOwned /\ NoFolderLost
      /\ bkp \in [Ids -> [1..MaxOps -> Content]] /\ id \in [Threads -> 0..MaxId]
  BY Zenon DEF CompoundInv, TypeOK
<1>3. \A u \in Threads : id[u] # n
  <2>1. n # 0
    BY TxnCompoundAssumption DEF Ids
  <2> QED
    BY Zenon, <1>1, <1>2, <2>1 DEF FolderOwned
<1>4. \A m \in Ids \ {n} : bkp'[m] = bkp[m]
  BY Zenon, <1>1, <1>2
<1>5. \A u \in Threads : id[u] # 0 => id[u] \in Ids
  BY <1>2, TxnCompoundAssumption DEF Ids
<1>6. \A u \in Threads : SameCompound(u)
  BY Zenon, <1>1, <1>3, <1>4, <1>5 DEF SameCompound
<1>7. TypeOK'
  <2>1. bkp' \in [Ids -> [1..MaxOps -> Content]]
    BY Zenon, <1>1, <1>2, BlankTypes
  <2> QED
    BY Zenon, <1>1, <1>2, <2>1 DEF TypeOK
<1>8. Folders'
  <2>1. bkp'[n] = NoBackups
    BY Zenon, <1>1, <1>2
  <2> QED
    BY Zenon, <1>1, <1>2, <1>4, <2>1 DEF Folders
<1>9. FolderOwned' /\ NoFolderLost'
  BY Zenon, <1>1, <1>2 DEF FolderOwned, NoFolderLost
<1>10. \A u \in Threads : ShapeOf(u)' /\ UnusedOf(u)' /\ Claims(u)' = Claims(u)
  BY Zenon, <1>1, <1>6, ShapeKept, SameIs DEF CompoundInv, ShapeOf
<1>11. Disjoint'
  <2>1. Disjoint
    BY Zenon DEF CompoundInv
  <2> QED
    BY <1>1, <1>10, <2>1 DEF Disjoint
<1>12. Clean'
  BY Zenon, <1>1, <1>10 DEF CompoundInv, Clean
<1>13. ASSUME NEW u \in Threads, NEW f \in Claims(u)' \ harmed'
       PROVE  Account(u, f)'
  <2>1. f \in Claims(u) /\ f \notin harmed /\ Account(u, f) /\ ShapeOf(u) /\ TypeOK
    BY Zenon, <1>1, <1>10, <1>13 DEF CompoundInv
  <2>2. Done(u)' = Done(u) /\ Saves(u)' = Saves(u) /\ SameCompound(u)
    BY Zenon, <1>6, SameIs
  <2> QED
    BY Zenon, <1>1, <2>1, <2>2, AccountKept DEF SameCompound
<1> QED
  BY Zenon, <1>7, <1>8, <1>9, <1>10, <1>11, <1>12, <1>13 DEF CompoundInv

\* A restart keeps what is on disk, and nothing else; the files that compounds
\* had written are harmed, and the others are as they were before.
LEMMA RestartPreserves ==
    ASSUME CompoundInv, Restart
    PROVE  CompoundInv'
<1>1. /\ faults' = faults + 1 /\ faults < MaxFaults /\ bkproot' = FALSE /\ nextid' = 1
      /\ trash' = {} /\ held' = [t \in Threads |-> RW!Nothing]
      /\ pc' = [t \in Threads |-> "idle"] /\ id' = [t \in Threads |-> 0]
      /\ ops' = [t \in Threads |-> <<>>] /\ i' = [t \in Threads |-> 0]
      /\ snap' = [t \in Threads |-> NoSnap] /\ leftover' = folders
      /\ harmed' = harmed \cup UNION {Written(t) : t \in Threads}
      /\ file' = file /\ root' = root /\ folders' = folders /\ bkp' = bkp
      /\ committed' = committed /\ cloneWorks' = cloneWorks
  BY Zenon DEF Restart, disk
<1>2. TypeOK /\ Folders
  BY Zenon DEF CompoundInv
<1>3. \A t \in Threads :
          /\ pc'[t] = "idle" /\ id'[t] = 0 /\ held'[t] = RW!Nothing
          /\ ~Locked(t)' /\ Claims(t)' = {}
  BY Zenon, <1>1 DEF Locked, Executing, Saving, Claims
<1>4. \A t \in Threads : Written(t) \subseteq Files
  <2> SUFFICES ASSUME NEW t \in Threads, pc[t] \notin {"idle", "lock", "submit"}
               PROVE  Written(t) \subseteq Files
    BY Zenon DEF Written
  <2>1. Locked(t) \/ pc[t] = "undo"
    BY <1>2 DEF TypeOK, Locked, Executing, Saving
  <2> QED
    BY Zenon, <1>2, <2>1, RunningShape DEF CompoundInv
<1>5. TypeOK'
  <2>1. /\ 1 \in 1..(MaxId + 1) /\ 0 \in 0..MaxId /\ 0 \in 0..MaxOps
        /\ faults + 1 \in 0..MaxFaults
    BY <1>1, <1>2, TxnCompoundAssumption DEF TypeOK
  <2>2. snap' \in [Threads -> [1..MaxOps -> [Files -> Content]]]
    BY Zenon, <1>1, BlankTypes
  <2>3. id' \in [Threads -> 0..MaxId] /\ i' \in [Threads -> 0..MaxOps] /\ nextid' \in 1..(MaxId + 1)
    BY Zenon, <1>1, <2>1
  <2>4. ops' \in [Threads -> Compound \cup {<<>>}]
    BY <1>1
  <2>5. held' \in [Threads -> RW!PathModes]
    BY Zenon, <1>1, NothingType
  <2>6. pc' \in [Threads -> Where]
    BY Zenon, <1>1 DEF Where
  <2>7. harmed' \subseteq Files /\ trash' \subseteq Ids /\ leftover' \subseteq Ids
    <3>1. harmed \subseteq Files /\ folders \subseteq Ids
      BY Zenon, <1>2 DEF TypeOK
    <3> QED
      BY <1>1, <1>4, <3>1
  <2> QED
    BY Zenon, <1>1, <1>2, <2>1, <2>2, <2>3, <2>4, <2>5, <2>6, <2>7 DEF TypeOK, Where
<1>6. Folders' /\ FolderOwned' /\ NoFolderLost'
  BY Zenon, <1>1, <1>2, <1>3 DEF Folders, FolderOwned, NoFolderLost
<1>7. ASSUME NEW t \in Threads
      PROVE  ShapeOf(t)' /\ UnusedOf(t)'
  <2>1. id'[t] < nextid'
    BY <1>1, <1>3
  <2> QED
    BY Zenon, <1>3, <2>1 DEF ShapeOf, UnusedOf, Executing, Saving, RW!Nothing
<1>8. Disjoint'
  BY <1>3 DEF Disjoint
<1>9. Clean'
  <2> SUFFICES ASSUME NEW f \in Files \ harmed'
               PROVE  file[f] = committed[f]
    BY Zenon, <1>1 DEF Clean
  <2>1. f \notin harmed /\ \A t \in Threads : f \notin Written(t)
    BY Zenon, <1>1
  <2>2. CASE \A t \in Threads : f \notin Claims(t)
    BY Zenon, <2>1, <2>2 DEF CompoundInv, Clean
  <2>3. ASSUME NEW t \in Threads, f \in Claims(t)
        PROVE  file[f] = committed[f]
    BY Zenon, <2>1, <2>3, Unwritten
  <2> QED
    BY Zenon, <2>2, <2>3
<1> QED
  BY Zenon, <1>3, <1>5, <1>6, <1>7, <1>8, <1>9 DEF CompoundInv

(***************************************************************************)
(* The locks and the folder.                                                 *)
(***************************************************************************)

\* lm_lock: the compound gets its files when no other compound has any of them
\* locked, and finds them as the successful compounds left them unless one of
\* them is still being restored.
LEMMA LockPreserves ==
    ASSUME CompoundInv, NEW t \in Threads, Lock(t)
    PROVE  CompoundInv'
<1>1. /\ pc[t] = "lock" /\ pc' = [pc EXCEPT ![t] = NextOp(t)]
      /\ \A u \in Threads \ {t} : RW!Compatible(LockRequest(ops[t]), held[u])
      /\ held' = [held EXCEPT ![t] = LockRequest(ops[t])]
      /\ harmed' = harmed \cup (FilesOf(ops[t]) \cap BeingUndone)
      /\ file' = file /\ root' = root /\ folders' = folders /\ bkp' = bkp
      /\ bkproot' = bkproot /\ nextid' = nextid /\ trash' = trash
      /\ id' = id /\ ops' = ops /\ i' = i /\ snap' = snap
      /\ committed' = committed /\ leftover' = leftover
      /\ cloneWorks' = cloneWorks /\ faults' = faults
  BY Zenon DEF Lock, RW!Acquire, Goto, disk, server, locals
<1>2. /\ TypeOK /\ Folders /\ FolderOwned /\ NoFolderLost /\ ShapeOf(t) /\ UnusedOf(t)
      /\ held \in [Threads -> RW!PathModes] /\ pc \in [Threads -> Where]
      /\ id[t] \in 0..MaxId
  BY Zenon DEF CompoundInv, TypeOK, Where
<1>3. /\ ops[t] \in Compound /\ i[t] = 1 /\ FilesOf(ops[t]) \subseteq Files
      /\ Len(ops[t]) \in 1..MaxOps /\ MaxOps \in Nat
      /\ NextOp(t) \in {"root", "op"} /\ (id[t] # 0 => NextOp(t) = "root")
  BY Zenon, <1>1, <1>2, CompoundShape, TxnCompoundAssumption DEF ShapeOf, NextOp
<1>4. /\ pc'[t] = NextOp(t) /\ held'[t] = LockRequest(ops[t])
      /\ \A u \in Threads \ {t} : pc'[u] = pc[u] /\ held'[u] = held[u]
  BY Zenon, <1>1, <1>2
<1>5. Locked(t)' /\ pc'[t] \in Executing /\ Claims(t)' = FilesOf(ops[t]) /\ Done(t)' = 0
  <2>1. pc'[t] \in Executing /\ Locked(t)'
    BY Zenon, <1>3, <1>4 DEF Locked, Executing, Saving
  <2>2. FilesOf(ops[t])' = FilesOf(ops[t])
    BY Zenon, <1>1 DEF FilesOf
  <2>3. Done(t)' = i[t] - 1
    BY Zenon, <1>1, <2>1 DEF Done
  <2>4. Done(t)' = 0
    BY <1>3, <2>3
  <2> QED
    BY Zenon, <2>1, <2>2, <2>4 DEF Claims
<1>6. TypeOK'
  <2>1. LockRequest(ops[t]) \in RW!PathModes
    BY <1>3 DEF LockRequest, RW!PathModes
  <2>2. held' \in [Threads -> RW!PathModes] /\ pc' \in [Threads -> Where]
    BY Zenon, <1>1, <1>2, <1>3, <2>1 DEF Where
  <2>3. harmed' \subseteq Files
    BY Zenon, <1>1, <1>2, <1>3 DEF TypeOK
  <2> QED
    BY Zenon, <1>1, <1>2, <2>2, <2>3 DEF TypeOK, Where
<1>7. Folders' /\ FolderOwned' /\ NoFolderLost'
  BY Zenon, <1>1, <1>2 DEF Folders, FolderOwned, NoFolderLost
<1>8. ShapeOf(t)' /\ UnusedOf(t)'
  <2>1. 1 \in 1..Len(ops[t])
    BY <1>3
  <2>2. LockRequest(ops[t])' = LockRequest(ops[t])
    BY Zenon, <1>1 DEF LockRequest, FilesOf
  <2>3. ShapeOf(t)'
    <3>1. /\ pc'[t] \notin {"idle", "lock", "save", "ended", "failed", "undo"}
          /\ pc'[t] \in Saving => id[t] # 0
      BY <1>3, <1>4 DEF NextOp, Saving
    <3>2. /\ ops'[t] \in Compound /\ i'[t] \in 1..Len(ops'[t]) /\ id'[t] < nextid'
          /\ id'[t] = id[t] /\ held'[t] = LockRequest(ops[t])'
      BY Zenon, <1>1, <1>2, <1>3, <1>4, <2>1, <2>2 DEF ShapeOf
    <3> QED
      BY Zenon, <1>5, <3>1, <3>2 DEF ShapeOf
  <2>4. UnusedOf(t)'
    <3> SUFFICES ASSUME OwnFolder(t)', NEW k \in 1..MaxOps, k > Saves(t)'
                 PROVE  bkp[id[t]][k] = EmptyFile
      BY Zenon, <1>1 DEF UnusedOf
    <3>1. OwnFolder(t) /\ pc'[t] # "op"
      BY Zenon, <1>1, <1>3, <1>4 DEF OwnFolder
    <3>2. Saves(t)' = 0 /\ Saves(t) = 0
      BY <1>1, <1>3, <1>5, <3>1 DEF Saves, Done
    <3> QED
      BY Zenon, <1>1, <1>2, <3>1, <3>2 DEF UnusedOf
  <2> QED
    BY Zenon, <2>3, <2>4
<1>9. Claims(t) = {}
  BY Zenon, <1>1, NoClaims DEF Locked, Executing, Saving
<1>10. ASSUME NEW f \in FilesOf(ops[t]) \ harmed'
       PROVE  \A u \in Threads \ {t} : f \notin Claims(u)
  <2> SUFFICES ASSUME NEW u \in Threads \ {t}, f \in Claims(u)
               PROVE  FALSE
    BY Zenon
  <2>1. CASE Locked(u)
    <3>1. held[u] = LockRequest(ops[u]) /\ f \in FilesOf(ops[u])
      BY Zenon, <2>1 DEF CompoundInv, ShapeOf, Claims
    <3>2. RW!Compatible(LockRequest(ops[t]), LockRequest(ops[u]))
      BY Zenon, <1>1, <3>1
    <3> QED
      BY Zenon, <1>10, <3>1, <3>2 DEF RW!Compatible, LockRequest
  <2>2. CASE ~Locked(u)
    <3>1. pc[u] = "undo" /\ f \in Written(u)
      BY Zenon, <2>2 DEF Claims
    <3>2. f \in BeingUndone
      BY Zenon, <3>1 DEF BeingUndone
    <3> QED
      BY Zenon, <1>1, <1>10, <3>2
  <2> QED
    BY Zenon, <2>1, <2>2
<1>11. ASSUME NEW f \in FilesOf(ops[t]) \ harmed'
       PROVE  Account(t, f)'
  <2>1. f \in Files \ harmed /\ \A u \in Threads : f \notin Claims(u)
    BY Zenon, <1>1, <1>3, <1>9, <1>10, <1>11
  <2>2. file[f] = committed[f]
    BY Zenon, <2>1 DEF CompoundInv, Clean
  <2>3. History(t, f)'
    BY <1>5 DEF History
  <2>4. BackedUp(t, f)'
    <3>1. OwnFolder(t)' => Saves(t)' = 0
      BY <1>1, <1>3, <1>4, <1>5 DEF OwnFolder, Saves
    <3> QED
      BY <3>1 DEF BackedUp
  <2>5. Untouched(t, f)'
    <3>1. \A k \in 1..(Done(t)' + 1) : Seen(t, k, f)' = file'[f]
      BY <1>5 DEF Seen
    <3> QED
      BY Zenon, <1>1, <2>2, <3>1 DEF Untouched
  <2> QED
    BY Zenon, <2>3, <2>4, <2>5 DEF Account
<1>12. \A u \in Threads \ {t} : SameCompound(u) /\ id[u] < nextid'
  BY Zenon, <1>1, <1>4 DEF SameCompound, CompoundInv, ShapeOf
<1> QED
  BY Zenon, <1>1, <1>5, <1>6, <1>7, <1>8, <1>9, <1>10, <1>11, <1>12, LocalStep

\* A step within txnfs_backup_nfs4_op, before the backup file is written.
LEMMA SavingStep ==
    ASSUME CompoundInv, NEW t \in Threads, NEW p, p \in Saving,
           pc[t] \in Saving, pc' = [pc EXCEPT ![t] = p],
           p = "save" => id[t] \in folders',
           file' = file, bkp' = bkp, nextid' = nextid, trash' = trash, held' = held,
           id' = id, ops' = ops, i' = i, snap' = snap, committed' = committed,
           leftover' = leftover, harmed' = harmed, cloneWorks' = cloneWorks,
           folders \subseteq folders', TypeOK', Folders', NoFolderLost'
    PROVE  CompoundInv'
<1>1. /\ TypeOK /\ FolderOwned /\ ShapeOf(t) /\ UnusedOf(t) /\ pc \in [Threads -> Where]
  BY Zenon DEF CompoundInv, TypeOK, Where
<1>2. pc'[t] = p /\ \A u \in Threads \ {t} : pc'[u] = pc[u]
  BY Zenon, <1>1
<1>3. /\ Locked(t) /\ Locked(t)' /\ pc[t] \in Executing /\ pc'[t] \in Executing
      /\ pc[t] # "op" /\ pc'[t] # "op"
      /\ pc'[t] \notin {"idle", "lock", "ended", "failed", "undo"}
  BY Zenon, <1>2 DEF Locked, Executing, Saving
<1>4. Done(t)' = Done(t) /\ Saves(t)' = Saves(t) /\ Claims(t)' = Claims(t)
  <2>1. Done(t)' = Done(t)
    BY Zenon, <1>3 DEF Done
  <2> QED
    BY Zenon, <1>3, <2>1 DEF Saves, Claims, FilesOf
<1>5. ShapeOf(t)'
  <2>1. LockRequest(ops[t])' = LockRequest(ops[t])
    BY Zenon DEF LockRequest, FilesOf
  <2>2. /\ ops[t] \in Compound /\ i[t] \in 1..Len(ops[t]) /\ id[t] # 0 /\ id[t] < nextid
        /\ held[t] = LockRequest(ops[t])
    BY <1>1, <1>3 DEF ShapeOf
  <2> QED
    BY Zenon, <1>2, <1>3, <2>1, <2>2 DEF ShapeOf
<1>6. UnusedOf(t)'
  BY Zenon, <1>1, <1>3, <1>4 DEF UnusedOf, OwnFolder
<1>7. FolderOwned'
  BY Zenon, <1>1 DEF FolderOwned
<1>8. ASSUME NEW f \in Claims(t)' \ harmed'
      PROVE  Account(t, f)' /\ \A u \in Threads \ {t} : f \notin Claims(u)
  <2>1. f \in Claims(t) /\ f \notin harmed
    BY Zenon, <1>4
  <2>2. Account(t, f)
    BY Zenon, <2>1 DEF CompoundInv
  <2>3. Account(t, f)'
    BY Zenon, <1>1, <1>4, <2>1, <2>2, AccountKept
  <2> QED
    BY Zenon, <2>1, <2>3, Alone
<1>9. \A u \in Threads \ {t} : SameCompound(u) /\ id[u] < nextid'
  BY Zenon, <1>2 DEF SameCompound, CompoundInv, ShapeOf
<1> QED
  BY Zenon, <1>4, <1>5, <1>6, <1>7, <1>8, <1>9, LocalStep

\* The steps up to the folder of the compound.
LEMMA FolderPreserves ==
    ASSUME CompoundInv, NEW t \in Threads, QueryRoot(t) \/ MakeRoot(t) \/ FindFolder(t)
    PROVE  CompoundInv'
<1>1. /\ TypeOK /\ Folders /\ NoFolderLost /\ ShapeOf(t) /\ pc \in [Threads -> Where]
      /\ id[t] \in 0..MaxId
  BY Zenon DEF CompoundInv, TypeOK, Where
<1>2. CASE QueryRoot(t)
  <2>1. PICK p \in {"folder", "mkroot"} : pc' = [pc EXCEPT ![t] = p]
    BY Zenon, <1>2 DEF QueryRoot, Goto
  <2>2. /\ pc[t] = "root" /\ bkproot' = (bkproot \/ root)
        /\ file' = file /\ root' = root /\ folders' = folders /\ bkp' = bkp
        /\ nextid' = nextid /\ trash' = trash /\ held' = held
        /\ id' = id /\ ops' = ops /\ i' = i /\ snap' = snap /\ committed' = committed
        /\ leftover' = leftover /\ harmed' = harmed /\ cloneWorks' = cloneWorks
        /\ faults' = faults
    BY Zenon, <1>2 DEF QueryRoot, disk, locals, past
  <2>3. pc' \in [Threads -> Where] /\ p \in Saving /\ pc[t] \in Saving /\ p # "save"
    BY Zenon, <1>1, <2>1, <2>2 DEF Where, Saving
  <2>4. bkproot' \in BOOLEAN
    BY Zenon, <2>2
  <2>5. TypeOK'
    BY Zenon, <1>1, <2>2, <2>3, <2>4 DEF TypeOK, Where
  <2>6. Folders' /\ NoFolderLost'
    BY Zenon, <1>1, <2>2 DEF Folders, NoFolderLost
  <2> QED
    BY Zenon, <2>1, <2>2, <2>3, <2>5, <2>6, SavingStep
<1>3. CASE MakeRoot(t)
  <2>1. /\ pc[t] = "mkroot" /\ bkproot' = TRUE /\ root' = TRUE
        /\ pc' = [pc EXCEPT ![t] = "folder"]
        /\ file' = file /\ folders' = folders /\ bkp' = bkp
        /\ nextid' = nextid /\ trash' = trash /\ held' = held
        /\ id' = id /\ ops' = ops /\ i' = i /\ snap' = snap /\ committed' = committed
        /\ leftover' = leftover /\ harmed' = harmed /\ cloneWorks' = cloneWorks
        /\ faults' = faults
    BY Zenon, <1>3 DEF MakeRoot, Goto, locals, past
  <2>2. pc' \in [Threads -> Where] /\ "folder" \in Saving /\ pc[t] \in Saving
    BY Zenon, <1>1, <2>1 DEF Where, Saving
  <2>3. TypeOK'
    BY Zenon, <1>1, <2>1, <2>2 DEF TypeOK, Where
  <2>4. Folders' /\ NoFolderLost'
    BY Zenon, <1>1, <2>1 DEF Folders, NoFolderLost
  <2>5. "folder" # "save"
    OBVIOUS
  <2> QED
    BY Zenon, <2>1, <2>2, <2>3, <2>4, <2>5, SavingStep
<1>4. CASE FindFolder(t)
  <2>1. /\ pc[t] = "folder" /\ folders' = folders \cup {id[t]}
        /\ pc' = [pc EXCEPT ![t] = "save"]
        /\ file' = file /\ root' = root /\ bkp' = bkp /\ bkproot' = bkproot
        /\ nextid' = nextid /\ trash' = trash /\ held' = held
        /\ id' = id /\ ops' = ops /\ i' = i /\ snap' = snap /\ committed' = committed
        /\ leftover' = leftover /\ harmed' = harmed /\ cloneWorks' = cloneWorks
        /\ faults' = faults
    BY Zenon, <1>4 DEF FindFolder, Goto, server, locals, past
  <2>2. pc' \in [Threads -> Where] /\ "save" \in Saving /\ pc[t] \in Saving
    BY Zenon, <1>1, <2>1 DEF Where, Saving
  <2>3. id[t] # 0 /\ id[t] < nextid
    BY Zenon, <1>1, <2>2 DEF ShapeOf
  <2>4. id[t] \in Ids
    BY <1>1, <2>3, TxnCompoundAssumption DEF Ids
  <2>5. folders' \subseteq Ids
    BY Zenon, <1>1, <2>1, <2>4 DEF TypeOK
  <2>6. TypeOK'
    BY Zenon, <1>1, <2>1, <2>2, <2>5 DEF TypeOK, Where
  <2>7. Folders' /\ NoFolderLost'
    BY Zenon, <1>1, <2>1, <2>3 DEF Folders, NoFolderLost
  <2>8. id[t] \in folders' /\ folders \subseteq folders'
    BY Zenon, <2>1
  <2> QED
    BY Zenon, <2>1, <2>2, <2>6, <2>7, <2>8, SavingStep
<1> QED
  BY Zenon, <1>2, <1>3, <1>4

\* txnfs_backup_file writes a backup file that only this compound has.
LEMMA SaveFilePreserves ==
    ASSUME CompoundInv, NEW t \in Threads, SaveFile(t)
    PROVE  CompoundInv'
<1> DEFINE n == i[t]
           w == ops[t][n]
           b == Saved(file[w.file], w, bkp[id[t]][n])
<1>1. /\ pc[t] = "save" /\ pc' = [pc EXCEPT ![t] = "op"]
      /\ bkp' = [bkp EXCEPT ![id[t]] = [bkp[id[t]] EXCEPT ![n] = b]]
      /\ file' = file /\ root' = root /\ folders' = folders /\ bkproot' = bkproot
      /\ nextid' = nextid /\ trash' = trash /\ held' = held
      /\ id' = id /\ ops' = ops /\ i' = i /\ snap' = snap /\ committed' = committed
      /\ leftover' = leftover /\ harmed' = harmed /\ cloneWorks' = cloneWorks
      /\ faults' = faults
  BY Zenon DEF SaveFile, Goto, server, locals, past
<1>2. /\ TypeOK /\ Folders /\ FolderOwned /\ NoFolderLost /\ ShapeOf(t) /\ UnusedOf(t)
      /\ pc \in [Threads -> Where] /\ bkp \in [Ids -> [1..MaxOps -> Content]]
      /\ file \in [Files -> Content] /\ id[t] \in 0..MaxId /\ folders \subseteq Ids
  BY Zenon DEF CompoundInv, TypeOK, Where
<1>3. /\ Locked(t) /\ pc[t] \in Executing /\ pc[t] # "op"
      /\ pc[t] \in Saving
  BY Zenon, <1>1 DEF Locked, Executing, Saving
<1>4. /\ ops[t] \in Compound /\ n \in 1..Len(ops[t]) /\ id[t] # 0 /\ id[t] \in folders
      /\ id[t] < nextid /\ held[t] = LockRequest(ops[t])
  BY <1>1, <1>2, <1>3 DEF ShapeOf
<1>5. /\ Len(ops[t]) \in 1..MaxOps /\ MaxOps \in Nat /\ w \in Write /\ w.file \in Files
      /\ FilesOf(ops[t]) \subseteq Files
  BY <1>4, CompoundShape, TxnCompoundAssumption
<1>6. n \in 1..MaxOps /\ n \in Nat /\ n >= 1
  BY <1>4, <1>5
<1>7. id[t] \in Ids
  BY Zenon, <1>2, <1>4
<1>8. /\ bkp'[id[t]][n] = b
      /\ \A k \in 1..MaxOps : k # n => bkp'[id[t]][k] = bkp[id[t]][k]
      /\ \A m \in Ids : m # id[t] => bkp'[m] = bkp[m]
  <2>1. bkp'[id[t]] = [bkp[id[t]] EXCEPT ![n] = b]
    BY Zenon, <1>1, <1>2, <1>7
  <2>2. bkp[id[t]] \in [1..MaxOps -> Content]
    BY Zenon, <1>2, <1>7
  <2>3. \A m \in Ids : m # id[t] => bkp'[m] = bkp[m]
    BY Zenon, <1>1, <1>2
  <2> QED
    BY Zenon, <1>6, <2>1, <2>2, <2>3
<1>9. b \in Content
  BY Zenon, <1>2, <1>5, <1>6, <1>7, SavedType
<1>10. pc'[t] = "op" /\ \A u \in Threads \ {t} : pc'[u] = pc[u]
  BY Zenon, <1>1, <1>2
<1>11. /\ Locked(t)' /\ pc'[t] \in Executing
       /\ pc'[t] \notin Saving \cup {"idle", "lock", "ended", "failed", "undo"}
  BY Zenon, <1>10 DEF Locked, Executing, Saving
<1>12. Done(t)' = n - 1 /\ Done(t) = n - 1 /\ Saves(t)' = n /\ Saves(t) = n - 1
       /\ Claims(t)' = Claims(t) /\ Claims(t) = FilesOf(ops[t])
  <2>1. Done(t)' = n - 1 /\ Done(t) = n - 1
    BY Zenon, <1>1, <1>3, <1>11 DEF Done
  <2>2. Saves(t)' = n /\ Saves(t) = n - 1
    BY Zenon, <1>1, <1>3, <1>10, <2>1 DEF Saves
  <2> QED
    BY Zenon, <1>1, <1>3, <1>11, <2>1, <2>2 DEF Claims, FilesOf
<1>13. TypeOK'
  <2>1. bkp' \in [Ids -> [1..MaxOps -> Content]]
    <3>1. [bkp[id[t]] EXCEPT ![n] = b] \in [1..MaxOps -> Content]
      BY Zenon, <1>2, <1>7, <1>9
    <3> QED
      BY Zenon, <1>1, <1>2, <3>1
  <2>2. pc' \in [Threads -> Where]
    BY Zenon, <1>1, <1>2 DEF Where
  <2> QED
    BY Zenon, <1>1, <1>2, <2>1, <2>2 DEF TypeOK, Where
<1>14. Folders' /\ FolderOwned' /\ NoFolderLost'
  <2>1. \A m \in Ids \ folders : bkp'[m] = NoBackups
    BY Zenon, <1>2, <1>4, <1>8 DEF Folders
  <2> QED
    BY Zenon, <1>1, <1>2, <2>1 DEF Folders, FolderOwned, NoFolderLost
<1>15. ShapeOf(t)'
  <2>1. LockRequest(ops[t])' = LockRequest(ops[t])
    BY Zenon, <1>1 DEF LockRequest, FilesOf
  <2> QED
    BY Zenon, <1>1, <1>4, <1>10, <1>11, <2>1 DEF ShapeOf
<1>16. UnusedOf(t)'
  <2> SUFFICES ASSUME OwnFolder(t)', NEW k \in 1..MaxOps, k > n
               PROVE  bkp'[id[t]][k] = EmptyFile
    BY Zenon, <1>1, <1>12 DEF UnusedOf
  <2>1. OwnFolder(t)
    BY Zenon, <1>1 DEF OwnFolder
  <2>2. k > n - 1 /\ k # n
    BY <1>6
  <2>3. bkp[id[t]][k] = EmptyFile
    BY Zenon, <1>2, <1>3, <1>12, <2>1, <2>2 DEF UnusedOf
  <2> QED
    BY Zenon, <1>8, <2>2, <2>3
<1>17. ASSUME NEW f \in Claims(t)' \ harmed'
       PROVE  Account(t, f)' /\ \A u \in Threads \ {t} : f \notin Claims(u)
  <2>1. f \in Claims(t) /\ f \notin harmed /\ Account(t, f)
    BY Zenon, <1>1, <1>12, <1>17 DEF CompoundInv
  <2>2. \A k : Seen(t, k, f)' = Seen(t, k, f)
    BY Zenon, <1>1, <1>12 DEF Seen
  <2>3. History(t, f)' /\ Untouched(t, f)'
    BY Zenon, <1>1, <1>12, <2>1, <2>2 DEF Account, History, Untouched
  <2>4. BackedUp(t, f)'
    <3> SUFFICES ASSUME OwnFolder(t)', NEW k \in 1..n, ops[t][k].file = f
                 PROVE  bkp'[id[t]][k] = Saved(Seen(t, k, f), ops[t][k], EmptyFile)'
      BY Zenon, <1>1, <1>12 DEF BackedUp
    <3>1. OwnFolder(t)
      BY Zenon, <1>1 DEF OwnFolder
    <3>2. bkp'[id[t]][k] = Saved(Seen(t, k, f), ops[t][k], EmptyFile)
      <4>1. CASE k = n
        <5>1. n > n - 1
          BY <1>6
        <5>2. bkp[id[t]][n] = EmptyFile
          BY Zenon, <1>2, <1>3, <1>6, <1>12, <3>1, <5>1 DEF UnusedOf
        <5>3. n = Done(t) + 1
          BY <1>6, <1>12
        <5>4. Seen(t, n, f) = file[f]
          BY Zenon, <5>3 DEF Seen
        <5> QED
          BY Zenon, <1>8, <4>1, <5>2, <5>4
      <4>2. CASE k # n
        <5>1. k \in 1..(n - 1) /\ k \in 1..MaxOps
          BY <1>5, <1>6, <4>2
        <5>2. bkp[id[t]][k] = Saved(Seen(t, k, f), ops[t][k], EmptyFile)
          BY Zenon, <1>12, <2>1, <3>1, <5>1 DEF Account, BackedUp
        <5> QED
          BY Zenon, <1>8, <4>2, <5>1, <5>2
      <4> QED
        BY Zenon, <4>1, <4>2
    <3>3. Seen(t, k, f)' = Seen(t, k, f)
      BY Zenon, <2>2
    <3> QED
      BY <1>1, <3>2, <3>3 DEF Saved
  <2> QED
    BY Zenon, <2>1, <2>3, <2>4, Alone DEF Account
<1>18. \A u \in Threads \ {t} : SameCompound(u) /\ id[u] < nextid'
  <2> SUFFICES ASSUME NEW u \in Threads \ {t}
               PROVE  SameCompound(u) /\ id[u] < nextid'
    BY Zenon
  <2>1. id[u] # id[t] /\ id[u] \in 0..MaxId /\ id[u] < nextid
    BY Zenon, <1>2, <1>4 DEF FolderOwned, CompoundInv, ShapeOf, TypeOK
  <2>2. id[u] # 0 => id[u] \in Ids
    BY <2>1, TxnCompoundAssumption DEF Ids
  <2> QED
    BY Zenon, <1>1, <1>8, <1>10, <2>1, <2>2 DEF SameCompound
<1> QED
  BY Zenon, <1>1, <1>12, <1>13, <1>14, <1>15, <1>16, <1>17, <1>18, LocalStep

(***************************************************************************)
(* The operations, and the end of the compound.                            *)
(***************************************************************************)

\* The WRITE changes a file that only this compound has.
LEMMA OpPreserves ==
    ASSUME CompoundInv, NEW t \in Threads, Op(t)
    PROVE  CompoundInv'
<1> DEFINE n == i[t]
           w == ops[t][n]
           d == Over(Pages(t, w.len), file[w.file])
<1>1. /\ pc[t] = "op" /\ file' = [file EXCEPT ![w.file] = d]
      /\ snap' = [snap EXCEPT ![t] = [snap[t] EXCEPT ![n] = Own(ops[t])]]
      /\ root' = root /\ folders' = folders /\ bkp' = bkp /\ bkproot' = bkproot
      /\ nextid' = nextid /\ trash' = trash /\ held' = held
      /\ id' = id /\ ops' = ops /\ committed' = committed
      /\ leftover' = leftover /\ harmed' = harmed /\ cloneWorks' = cloneWorks
      /\ faults' = faults
  BY Zenon DEF Op, server, past
<1>2. \/ n < Len(ops[t]) /\ i' = [i EXCEPT ![t] = n + 1] /\ pc' = [pc EXCEPT ![t] = NextOp(t)]
      \/ ~(n < Len(ops[t])) /\ i' = i /\ pc' = [pc EXCEPT ![t] = "ended"]
  BY Zenon DEF Op, Goto
<1>3. /\ TypeOK /\ Folders /\ FolderOwned /\ NoFolderLost /\ ShapeOf(t) /\ UnusedOf(t)
      /\ pc \in [Threads -> Where] /\ i \in [Threads -> 0..MaxOps]
      /\ snap \in [Threads -> [1..MaxOps -> [Files -> Content]]]
      /\ file \in [Files -> Content]
  BY Zenon DEF CompoundInv, TypeOK, Where
<1>4. /\ Locked(t) /\ pc[t] \in Executing
  BY Zenon, <1>1 DEF Locked, Executing, Saving
<1>5. /\ ops[t] \in Compound /\ n \in 1..Len(ops[t]) /\ id[t] < nextid
      /\ held[t] = LockRequest(ops[t])
  BY <1>1, <1>3, <1>4 DEF ShapeOf
<1>6. /\ Len(ops[t]) \in 1..MaxOps /\ MaxOps \in Nat /\ w \in Write /\ w.file \in Files
      /\ w.len \in 0..MaxPages /\ w.file \in FilesOf(ops[t]) /\ FilesOf(ops[t]) \subseteq Files
  <2>1. /\ Len(ops[t]) \in 1..MaxOps /\ w \in Write /\ w.file \in FilesOf(ops[t])
        /\ FilesOf(ops[t]) \subseteq Files
    BY <1>5, CompoundShape
  <2> QED
    BY <2>1, TxnCompoundAssumption DEF Write, PageNo
<1>7. n \in 1..MaxOps /\ n \in Nat /\ n >= 1 /\ n <= Len(ops[t])
  BY <1>5, <1>6
<1>8. /\ \A u \in Threads \ {t} : pc'[u] = pc[u] /\ i'[u] = i[u] /\ snap'[u] = snap[u]
      /\ snap'[t] = [snap[t] EXCEPT ![n] = Own(ops[t])]
  BY Zenon, <1>1, <1>2, <1>3
<1>9. \/ n < Len(ops[t]) /\ i'[t] = n + 1 /\ pc'[t] = NextOp(t)
      \/ ~(n < Len(ops[t])) /\ i'[t] = n /\ pc'[t] = "ended"
  BY Zenon, <1>2, <1>3
<1>10. /\ Locked(t)' /\ pc'[t] \notin {"idle", "lock", "save", "failed", "undo"}
       /\ pc'[t] \in Saving => id[t] # 0
       /\ pc'[t] \in Executing => n < Len(ops[t]) /\ i'[t] = n + 1 /\ pc'[t] = NextOp(t)
       /\ pc'[t] \notin Executing => i'[t] = n
       /\ id[t] # 0 => pc'[t] # "op"
  BY <1>9 DEF NextOp, Locked, Executing, Saving
<1>11. /\ Done(t) = n - 1 /\ Done(t)' = n /\ Saves(t) = n
       /\ OwnFolder(t)' => Saves(t)' = n
       /\ Claims(t)' = Claims(t) /\ Claims(t) = FilesOf(ops[t])
  <2>1. Done(t) = n - 1 /\ Saves(t) = n
    BY Zenon, <1>1, <1>4 DEF Done, Saves
  <2>2. Done(t)' = n
    BY <1>7, <1>10 DEF Done
  <2>3. OwnFolder(t)' => Saves(t)' = n
    BY Zenon, <1>1, <1>10, <2>2 DEF OwnFolder, Saves
  <2> QED
    BY Zenon, <1>1, <1>4, <1>10, <2>1, <2>2, <2>3 DEF Claims, FilesOf
<1>12. /\ file'[w.file] = d
       /\ \A f \in Files : f # w.file => file'[f] = file[f]
       /\ \A f \in FilesOf(ops[t]) : snap'[t][n][f] = file[f]
       /\ \A k \in 1..MaxOps : k # n => snap'[t][k] = snap[t][k]
  <2>1. snap[t] \in [1..MaxOps -> [Files -> Content]]
    BY Zenon, <1>3
  <2>2. snap'[t][n] = Own(ops[t]) /\ \A k \in 1..MaxOps : k # n => snap'[t][k] = snap[t][k]
    BY Zenon, <1>7, <1>8, <2>1
  <2> QED
    BY Zenon, <1>1, <1>3, <1>6, <2>2 DEF Own
<1>13. TypeOK'
  <2>1. d \in Content
    <3>1. t \in Page
      BY Zenon DEF Page
    <3> QED
      BY Zenon, <1>3, <1>6, <3>1, PagesType, OverType
  <2>2. Own(ops[t]) \in [Files -> Content]
    BY Zenon, <1>3, EmptyType DEF Own
  <2>3. snap' \in [Threads -> [1..MaxOps -> [Files -> Content]]]
    <3>1. [snap[t] EXCEPT ![n] = Own(ops[t])] \in [1..MaxOps -> [Files -> Content]]
      BY Zenon, <1>3, <2>2
    <3> QED
      BY Zenon, <1>1, <1>3, <3>1
  <2>4. i' \in [Threads -> 0..MaxOps]
    <3>1. n < Len(ops[t]) => n + 1 \in 0..MaxOps
      BY <1>6, <1>7
    <3> QED
      BY Zenon, <1>2, <1>3, <3>1
  <2>5. pc' \in [Threads -> Where]
    BY Zenon, <1>2, <1>3 DEF Where, NextOp
  <2>6. file' \in [Files -> Content]
    BY Zenon, <1>1, <1>3, <2>1
  <2> QED
    BY Zenon, <1>1, <1>3, <2>3, <2>4, <2>5, <2>6 DEF TypeOK, Where
<1>14. Folders' /\ FolderOwned' /\ NoFolderLost'
  BY Zenon, <1>1, <1>3 DEF Folders, FolderOwned, NoFolderLost
<1>15. ShapeOf(t)'
  <2>1. LockRequest(ops[t])' = LockRequest(ops[t])
    BY Zenon, <1>1 DEF LockRequest, FilesOf
  <2>2. /\ pc'[t] \in Executing => i'[t] \in 1..Len(ops[t])
        /\ pc'[t] \notin Executing => i'[t] \in 0..Len(ops[t])
    BY <1>6, <1>7, <1>10
  <2>3. pc'[t] \in {"ended", "failed", "undo"} => pc'[t] \notin Executing
    BY Zenon DEF Executing, Saving
  <2> QED
    BY Zenon, <1>1, <1>5, <1>10, <2>1, <2>2, <2>3 DEF ShapeOf
<1>16. UnusedOf(t)'
  <2>1. OwnFolder(t)' => OwnFolder(t)
    BY Zenon, <1>1 DEF OwnFolder
  <2> QED
    BY Zenon, <1>1, <1>3, <1>4, <1>11, <2>1 DEF UnusedOf
<1>17. ASSUME NEW f \in Claims(t)' \ harmed'
       PROVE  Account(t, f)' /\ \A u \in Threads \ {t} : f \notin Claims(u)
  <2>1. f \in Claims(t) /\ f \notin harmed /\ Account(t, f) /\ f \in FilesOf(ops[t]) /\ f \in Files
    BY Zenon, <1>1, <1>6, <1>11, <1>17 DEF CompoundInv
  <2>2. ASSUME NEW k \in 1..n
        PROVE  Seen(t, k, f)' = Seen(t, k, f)
    <3>1. k # Done(t)' + 1 /\ k \in 1..MaxOps /\ (k = Done(t) + 1 <=> k = n)
      BY <1>6, <1>7, <1>11
    <3>2. Seen(t, k, f)' = snap'[t][k][f]
      BY Zenon, <3>1 DEF Seen
    <3>3. Seen(t, k, f) = IF k = n THEN file[f] ELSE snap[t][k][f]
      BY Zenon, <3>1 DEF Seen
    <3> QED
      BY Zenon, <1>12, <2>1, <3>1, <3>2, <3>3
  <2>3. (\A k : k = n + 1 => Seen(t, k, f)' = file'[f]) /\ Seen(t, n, f) = file[f]
    <3>1. n = Done(t) + 1
      BY <1>7, <1>11
    <3> QED
      BY Zenon, <1>11, <3>1 DEF Seen
  <2>4. History(t, f)'
    <3> SUFFICES ASSUME NEW k \in 1..n
                 PROVE  Seen(t, k + 1, f)' = IF f = ops[t][k].file
                                             THEN Over(Pages(t, ops[t][k].len), Seen(t, k, f))
                                             ELSE Seen(t, k, f)
      <4>1. \A k \in 1..n : Over(Pages(t, ops[t][k].len), Seen(t, k, f))'
                            = Over(Pages(t, ops[t][k].len), Seen(t, k, f))
        <5> SUFFICES ASSUME NEW k \in 1..n
                     PROVE  Over(Pages(t, ops[t][k].len), Seen(t, k, f))'
                            = Over(Pages(t, ops[t][k].len), Seen(t, k, f))
          BY Zenon
        <5>1. Seen(t, k, f)' = Seen(t, k, f)
          BY Zenon, <2>2
        <5> QED
          BY Zenon, <1>1, <5>1 DEF Over, Pages
      <4> QED
        BY Zenon, <1>1, <1>11, <2>2, <4>1 DEF History
    <3>1. CASE k = n
      <4>1. Seen(t, k + 1, f)' = file'[f] /\ Seen(t, k, f) = file[f]
        BY Zenon, <2>3, <3>1
      <4>2. file'[f] = IF f = w.file THEN Over(Pages(t, w.len), file[f]) ELSE file[f]
        BY Zenon, <1>12, <2>1
      <4> QED
        BY Zenon, <3>1, <4>1, <4>2
    <3>2. CASE k # n
      <4>1. k \in 1..(n - 1) /\ k + 1 \in 1..n
        BY <1>7, <3>2
      <4>2. Seen(t, k + 1, f)' = Seen(t, k + 1, f)
        BY Zenon, <2>2, <4>1
      <4> QED
        BY Zenon, <1>11, <2>1, <4>1, <4>2 DEF Account, History
    <3> QED
      BY Zenon, <3>1, <3>2
  <2>5. BackedUp(t, f)'
    <3> SUFFICES ASSUME OwnFolder(t)', NEW k \in 1..n, ops[t][k].file = f
                 PROVE  bkp[id[t]][k] = Saved(Seen(t, k, f), ops[t][k], EmptyFile)'
      BY Zenon, <1>1, <1>11 DEF BackedUp
    <3>1. OwnFolder(t)
      BY Zenon, <1>1 DEF OwnFolder
    <3>2. bkp[id[t]][k] = Saved(Seen(t, k, f), ops[t][k], EmptyFile)
      BY Zenon, <1>11, <2>1, <3>1 DEF Account, BackedUp
    <3>3. Seen(t, k, f)' = Seen(t, k, f)
      BY Zenon, <2>2
    <3> QED
      BY <1>1, <3>2, <3>3 DEF Saved
  <2>6. Untouched(t, f)'
    <3> SUFFICES ASSUME NEW k \in 1..(n + 1), \A j \in 1..(k - 1) : ops[t][j].file # f
                 PROVE  Seen(t, k, f)' = committed[f]
      BY Zenon, <1>1, <1>11 DEF Untouched
    <3>1. Done(t) + 1 = n
      BY <1>7, <1>11
    <3>2. CASE k = n + 1
      <4>1. n \in 1..(k - 1) /\ n \in 1..n /\ \A j \in 1..(n - 1) : j \in 1..(k - 1)
        BY <1>7, <3>2
      <4>2. f # w.file /\ \A j \in 1..(n - 1) : ops[t][j].file # f
        BY Zenon, <4>1
      <4>3. Seen(t, n, f) = committed[f]
        BY Zenon, <2>1, <3>1, <4>1, <4>2 DEF Account, Untouched
      <4> QED
        BY Zenon, <1>12, <2>1, <2>3, <3>2, <4>2, <4>3
    <3>3. CASE k # n + 1
      <4>1. k \in 1..n
        BY <1>7, <3>3
      <4>2. Seen(t, k, f) = committed[f]
        BY Zenon, <2>1, <3>1, <4>1 DEF Account, Untouched
      <4> QED
        BY Zenon, <2>2, <4>1, <4>2
    <3> QED
      BY Zenon, <3>2, <3>3
  <2> QED
    BY Zenon, <2>1, <2>4, <2>5, <2>6, Alone DEF Account
<1>18. \A u \in Threads \ {t} : SameCompound(u) /\ id[u] < nextid'
  BY Zenon, <1>1, <1>8 DEF SameCompound, CompoundInv, ShapeOf
<1>19. \A f \in Files \ (Claims(t) \cup harmed') :
           file'[f] = file[f] /\ committed'[f] = committed[f]
  BY Zenon, <1>1, <1>6, <1>11, <1>12
<1> QED
  BY Zenon, <1>1, <1>11, <1>13, <1>14, <1>15, <1>16, <1>17, <1>18, <1>19, LocalStep

\* A WRITE that fails changes no file.
LEMMA OpFailsPreserves ==
    ASSUME CompoundInv, NEW t \in Threads, OpFails(t)
    PROVE  CompoundInv'
<1>1. /\ pc[t] = "op" /\ i' = [i EXCEPT ![t] = i[t] - 1] /\ pc' = [pc EXCEPT ![t] = "failed"]
      /\ file' = file /\ snap' = snap /\ held' = held
      /\ root' = root /\ folders' = folders /\ bkp' = bkp /\ bkproot' = bkproot
      /\ nextid' = nextid /\ trash' = trash
      /\ id' = id /\ ops' = ops /\ committed' = committed
      /\ leftover' = leftover /\ harmed' = harmed /\ cloneWorks' = cloneWorks
      /\ faults' = faults
  BY Zenon DEF OpFails, Goto, disk, server, past
<1>2. /\ TypeOK /\ Folders /\ FolderOwned /\ NoFolderLost /\ ShapeOf(t)
      /\ pc \in [Threads -> Where] /\ i \in [Threads -> 0..MaxOps]
  BY Zenon DEF CompoundInv, TypeOK, Where
<1>3. /\ Locked(t) /\ pc[t] \in Executing
  BY Zenon, <1>1 DEF Locked, Executing, Saving
<1>4. /\ ops[t] \in Compound /\ i[t] \in 1..Len(ops[t]) /\ id[t] < nextid
      /\ held[t] = LockRequest(ops[t])
  BY <1>1, <1>2, <1>3 DEF ShapeOf
<1>5. Len(ops[t]) \in 1..MaxOps /\ MaxOps \in Nat
  BY <1>4, CompoundShape, TxnCompoundAssumption
<1>6. i[t] - 1 \in 0..MaxOps /\ i[t] - 1 \in 0..Len(ops[t]) /\ i[t] \in Nat
  BY <1>4, <1>5
<1>7. /\ pc'[t] = "failed" /\ i'[t] = i[t] - 1
      /\ \A u \in Threads \ {t} : pc'[u] = pc[u] /\ i'[u] = i[u]
  BY Zenon, <1>1, <1>2
<1>8. /\ Locked(t)' /\ pc'[t] \notin Executing \cup {"idle", "lock", "save", "undo"}
      /\ pc'[t] \notin Saving \cup {"undo"}
  BY Zenon, <1>7 DEF Locked, Executing, Saving
<1>9. /\ Done(t)' = Done(t) /\ \A k \in 1..Saves(t)' : k \in 1..Saves(t)
      /\ Claims(t)' = Claims(t)
  <2>1. Done(t)' = i[t] - 1 /\ Done(t) = i[t] - 1 /\ Saves(t) = i[t]
    BY Zenon, <1>1, <1>3, <1>7, <1>8 DEF Done, Saves
  <2>2. Saves(t)' = i[t] - 1
    BY Zenon, <1>8, <2>1 DEF Saves, Executing
  <2>3. \A k \in 1..Saves(t)' : k \in 1..Saves(t)
    BY <1>6, <2>1, <2>2
  <2> QED
    BY Zenon, <1>1, <1>3, <1>8, <2>1, <2>3 DEF Claims, FilesOf
<1>10. TypeOK'
  <2>1. i' \in [Threads -> 0..MaxOps] /\ pc' \in [Threads -> Where]
    BY Zenon, <1>1, <1>2, <1>6 DEF Where
  <2> QED
    BY Zenon, <1>1, <1>2, <2>1 DEF TypeOK, Where
<1>11. Folders' /\ FolderOwned' /\ NoFolderLost'
  BY Zenon, <1>1, <1>2 DEF Folders, FolderOwned, NoFolderLost
<1>12. ShapeOf(t)' /\ UnusedOf(t)'
  <2>1. LockRequest(ops[t])' = LockRequest(ops[t])
    BY Zenon, <1>1 DEF LockRequest, FilesOf
  <2>2. ShapeOf(t)'
    BY Zenon, <1>1, <1>4, <1>6, <1>7, <1>8, <2>1 DEF ShapeOf
  <2> QED
    BY Zenon, <1>8, <2>2 DEF UnusedOf
<1>13. ASSUME NEW f \in Claims(t)' \ harmed'
       PROVE  Account(t, f)' /\ \A u \in Threads \ {t} : f \notin Claims(u)
  <2>1. f \in Claims(t) /\ f \notin harmed /\ Account(t, f)
    BY Zenon, <1>1, <1>9, <1>13 DEF CompoundInv
  <2>2. Account(t, f)'
    BY Zenon, <1>1, <1>2, <1>9, <2>1, AccountKept
  <2> QED
    BY Zenon, <2>1, <2>2, Alone
<1>14. \A u \in Threads \ {t} : SameCompound(u) /\ id[u] < nextid'
  BY Zenon, <1>1, <1>7 DEF SameCompound, CompoundInv, ShapeOf
<1> QED
  BY Zenon, <1>1, <1>9, <1>10, <1>11, <1>12, <1>13, <1>14, LocalStep

\* A compound that succeeds leaves its files to the others as they are.
LEMMA UnlockEndedPreserves ==
    ASSUME CompoundInv, NEW t \in Threads, UnlockEnded(t)
    PROVE  CompoundInv'
<1>1. /\ pc[t] = "ended" /\ pc' = [pc EXCEPT ![t] = "submit"]
      /\ held' = [held EXCEPT ![t] = RW!Nothing]
      /\ committed' = [f \in Files |-> IF f \in FilesOf(ops[t]) THEN file[f] ELSE committed[f]]
      /\ file' = file /\ snap' = snap /\ i' = i
      /\ root' = root /\ folders' = folders /\ bkp' = bkp /\ bkproot' = bkproot
      /\ nextid' = nextid /\ trash' = trash /\ id' = id /\ ops' = ops
      /\ leftover' = leftover /\ harmed' = harmed /\ cloneWorks' = cloneWorks
      /\ faults' = faults
  BY Zenon DEF UnlockEnded, Goto, RW!Release, disk, server, locals, past
<1>2. /\ TypeOK /\ Folders /\ FolderOwned /\ NoFolderLost /\ ShapeOf(t)
      /\ pc \in [Threads -> Where] /\ held \in [Threads -> RW!PathModes]
      /\ file \in [Files -> Content] /\ committed \in [Files -> Content]
  BY Zenon DEF CompoundInv, TypeOK, Where
<1>3. Locked(t) /\ Claims(t) = FilesOf(ops[t])
  BY Zenon, <1>1 DEF Locked, Claims
<1>4. ops[t] \in Compound /\ id[t] < nextid /\ FilesOf(ops[t]) \subseteq Files
  BY Zenon, <1>2, <1>3, RunningShape DEF ShapeOf
<1>5. /\ pc'[t] = "submit" /\ held'[t] = RW!Nothing
      /\ \A u \in Threads \ {t} : pc'[u] = pc[u] /\ held'[u] = held[u]
  BY Zenon, <1>1, <1>2
<1>6. /\ ~Locked(t)' /\ Claims(t)' = {}
      /\ pc'[t] \notin Executing \cup {"idle", "lock", "save", "ended", "failed", "undo"}
      /\ pc'[t] \notin Saving \cup {"undo"}
  BY Zenon, <1>5 DEF Locked, Claims, Executing, Saving
<1>7. TypeOK'
  <2>1. committed' \in [Files -> Content] /\ held' \in [Threads -> RW!PathModes]
    BY Zenon, <1>1, <1>2, NothingType
  <2>2. pc' \in [Threads -> Where]
    BY Zenon, <1>1, <1>2 DEF Where
  <2> QED
    BY Zenon, <1>1, <1>2, <2>1, <2>2 DEF TypeOK, Where
<1>8. Folders' /\ FolderOwned' /\ NoFolderLost'
  BY Zenon, <1>1, <1>2 DEF Folders, FolderOwned, NoFolderLost
<1>9. ShapeOf(t)' /\ UnusedOf(t)'
  <2>1. held'[t] = RW!Nothing'
    BY Zenon, <1>5 DEF RW!Nothing
  <2> QED
    BY Zenon, <1>1, <1>4, <1>6, <2>1 DEF ShapeOf, UnusedOf
<1>10. /\ \A f \in Files \ Claims(t) : committed'[f] = committed[f]
       /\ \A f \in Claims(t) : committed'[f] = file[f]
  BY Zenon, <1>1, <1>3, <1>4
<1>11. \A u \in Threads \ {t} : SameCompound(u) /\ id[u] < nextid'
  BY Zenon, <1>1, <1>5 DEF SameCompound, CompoundInv, ShapeOf
<1> QED
  BY Zenon, <1>1, <1>6, <1>7, <1>8, <1>9, <1>10, <1>11, LocalStep

\* A compound that fails gives up the files that it has not written, and is still
\* to restore the others.
LEMMA UnlockFailedPreserves ==
    ASSUME CompoundInv, NEW t \in Threads, UnlockFailed(t)
    PROVE  CompoundInv'
<1>1. /\ pc[t] = "failed" /\ held' = [held EXCEPT ![t] = RW!Nothing]
      /\ file' = file /\ snap' = snap /\ i' = i /\ committed' = committed
      /\ root' = root /\ folders' = folders /\ bkp' = bkp /\ bkproot' = bkproot
      /\ nextid' = nextid /\ trash' = trash /\ id' = id /\ ops' = ops
      /\ leftover' = leftover /\ cloneWorks' = cloneWorks /\ faults' = faults
  BY Zenon DEF UnlockFailed, RW!Release, disk, server, locals
<1>2. \/ id[t] = 0 /\ harmed' = harmed \cup Written(t) /\ pc' = [pc EXCEPT ![t] = "submit"]
      \/ id[t] # 0 /\ harmed' = harmed /\ pc' = [pc EXCEPT ![t] = "undo"]
  BY Zenon DEF UnlockFailed, Goto
<1>3. /\ TypeOK /\ Folders /\ FolderOwned /\ NoFolderLost /\ ShapeOf(t)
      /\ pc \in [Threads -> Where] /\ held \in [Threads -> RW!PathModes]
      /\ harmed \subseteq Files
  BY Zenon DEF CompoundInv, TypeOK, Where
<1>4. Locked(t) /\ Claims(t) = FilesOf(ops[t]) /\ pc[t] \notin Executing
  BY Zenon, <1>1 DEF Locked, Claims, Executing, Saving
<1>5. /\ ops[t] \in Compound /\ id[t] < nextid /\ FilesOf(ops[t]) \subseteq Files
      /\ Written(t) \subseteq FilesOf(ops[t]) /\ i[t] \in 0..Len(ops[t])
  BY Zenon, <1>1, <1>3, <1>4, RunningShape DEF ShapeOf
<1>6. /\ held'[t] = RW!Nothing
      /\ \A u \in Threads \ {t} : pc'[u] = pc[u] /\ held'[u] = held[u]
      /\ \/ id[t] = 0 /\ harmed' = harmed \cup Written(t) /\ pc'[t] = "submit"
         \/ id[t] # 0 /\ harmed' = harmed /\ pc'[t] = "undo"
  BY Zenon, <1>1, <1>2, <1>3
<1>7. /\ ~Locked(t)'
      /\ pc'[t] \notin Executing \cup {"lock"}
      /\ pc'[t] \notin Saving \cup {"idle", "lock", "save", "ended", "failed"}
      /\ pc'[t] = "undo" => id[t] # 0
  BY <1>6 DEF Locked, Executing, Saving
<1>8. Claims(t)' = IF id[t] = 0 THEN {} ELSE Written(t)
  <2>1. CASE id[t] = 0
    BY Zenon, <1>6, <1>7, <2>1, NoClaims
  <2>2. CASE id[t] # 0
    <3>1. pc'[t] = "undo"
      BY Zenon, <1>6, <2>2
    <3>2. Written(t)' = Written(t)
      BY Zenon, <1>1, <3>1 DEF Written
    <3> QED
      BY Zenon, <1>7, <2>2, <3>1, <3>2 DEF Claims
  <2> QED
    BY Zenon, <2>1, <2>2
<1>9. TypeOK'
  <2>1. held' \in [Threads -> RW!PathModes]
    BY Zenon, <1>1, <1>3, NothingType
  <2>2. pc' \in [Threads -> Where]
    BY Zenon, <1>2, <1>3 DEF Where
  <2>3. harmed' \subseteq Files
    BY <1>2, <1>3, <1>5
  <2> QED
    BY Zenon, <1>1, <1>3, <2>1, <2>2, <2>3 DEF TypeOK, Where
<1>10. Folders' /\ FolderOwned' /\ NoFolderLost'
  BY Zenon, <1>1, <1>3 DEF Folders, FolderOwned, NoFolderLost
<1>11. ShapeOf(t)' /\ UnusedOf(t)'
  <2>1. held'[t] = RW!Nothing'
    BY Zenon, <1>6 DEF RW!Nothing
  <2>2. pc'[t] \in Saving \cup {"undo"} => id[t] # 0
    BY Zenon, <1>7
  <2>3. pc'[t] \notin Executing
    BY Zenon, <1>7
  <2> QED
    BY Zenon, <1>1, <1>5, <1>7, <2>1, <2>2, <2>3 DEF ShapeOf, UnusedOf
<1>12. ASSUME NEW f \in Claims(t)' \ harmed'
       PROVE  Account(t, f)' /\ \A u \in Threads \ {t} : f \notin Claims(u)
  <2>1. id[t] # 0 /\ pc'[t] = "undo" /\ f \in Claims(t) /\ f \notin harmed
    BY Zenon, <1>4, <1>5, <1>6, <1>8, <1>12
  <2>2. Account(t, f)
    BY Zenon, <2>1 DEF CompoundInv
  <2>3. Done(t)' = Done(t) /\ Saves(t)' = Saves(t)
    <3>1. Done(t) = i[t] /\ Done(t)' = i[t]
      BY Zenon, <1>1, <1>4, <1>7 DEF Done
    <3>2. pc[t] # "op" /\ pc'[t] # "op"
      BY <1>1, <2>1
    <3> QED
      BY Zenon, <3>1, <3>2 DEF Saves
  <2>4. Account(t, f)'
    BY Zenon, <1>1, <1>3, <2>1, <2>2, <2>3, AccountKept
  <2> QED
    BY Zenon, <2>1, <2>4, Alone
<1>13. ASSUME NEW f \in Claims(t) \ (Claims(t)' \cup harmed')
       PROVE  file'[f] = committed'[f]
  <2>1. f \notin harmed /\ f \notin Written(t)
    BY Zenon, <1>6, <1>8, <1>13
  <2> QED
    BY Zenon, <1>1, <1>13, <2>1, Unwritten
<1>14. \A u \in Threads \ {t} : SameCompound(u) /\ id[u] < nextid'
  BY Zenon, <1>1, <1>6 DEF SameCompound, CompoundInv, ShapeOf
<1>15. harmed \subseteq harmed'
  BY Zenon, <1>2
<1> QED
  BY Zenon, <1>1, <1>9, <1>10, <1>11, <1>12, <1>13, <1>14, <1>15, LocalStep

\* do_txn_rollback takes the file back to what the last WRITE found.
LEMMA UndoPreserves ==
    ASSUME CompoundInv, NEW t \in Threads, Undo(t)
    PROVE  CompoundInv'
<1> DEFINE n == i[t]
           w == ops[t][n]
           b == bkp[id[t]][n]
<1>1. /\ pc[t] = "undo" /\ n # 0 /\ i' = [i EXCEPT ![t] = n - 1]
      /\ file' = [file EXCEPT ![w.file] = Restored(file[w.file], w, b)]
      /\ harmed' = IF id[t] \in leftover \/ HasHole(w, b) THEN harmed \cup {w.file} ELSE harmed
      /\ pc' = pc /\ held' = held /\ snap' = snap /\ committed' = committed
      /\ root' = root /\ folders' = folders /\ bkp' = bkp /\ bkproot' = bkproot
      /\ nextid' = nextid /\ trash' = trash /\ id' = id /\ ops' = ops
      /\ leftover' = leftover /\ cloneWorks' = cloneWorks /\ faults' = faults
  BY Zenon DEF Undo, server
<1>2. /\ TypeOK /\ Folders /\ FolderOwned /\ NoFolderLost /\ ShapeOf(t)
      /\ i \in [Threads -> 0..MaxOps] /\ bkp \in [Ids -> [1..MaxOps -> Content]]
      /\ file \in [Files -> Content] /\ id[t] \in 0..MaxId /\ harmed \subseteq Files
      /\ snap \in [Threads -> [1..MaxOps -> [Files -> Content]]] /\ cloneWorks \in BOOLEAN
  BY Zenon DEF CompoundInv, TypeOK
<1>3. ~Locked(t) /\ pc[t] \notin Executing \cup {"lock"} /\ pc[t] # "op"
  BY Zenon, <1>1 DEF Locked, Executing, Saving
<1>4. /\ ops[t] \in Compound /\ n \in 0..Len(ops[t]) /\ id[t] # 0 /\ id[t] < nextid
      /\ held[t] = RW!Nothing
  BY <1>1, <1>2, <1>3 DEF ShapeOf
<1>5. /\ Len(ops[t]) \in 1..MaxOps /\ MaxOps \in Nat
      /\ \A k \in 1..Len(ops[t]) : ops[t][k] \in Write
  BY <1>4, CompoundShape, TxnCompoundAssumption
<1>6. /\ n \in 1..Len(ops[t]) /\ n \in 1..MaxOps /\ n \in Nat /\ n >= 1
      /\ n - 1 \in 0..Len(ops[t]) /\ n - 1 \in 0..MaxOps /\ n - 1 \in Nat
  BY <1>1, <1>4, <1>5
<1>7. w \in Write /\ w.file \in Files /\ id[t] \in Ids
  BY <1>2, <1>4, <1>5, <1>6, TxnCompoundAssumption DEF Write, Ids
<1>8. b \in Content
  BY Zenon, <1>2, <1>6, <1>7
<1>9. /\ i'[t] = n - 1 /\ \A u \in Threads \ {t} : i'[u] = i[u]
      /\ file'[w.file] = Restored(file[w.file], w, b)
      /\ \A f \in Files : f # w.file => file'[f] = file[f]
  BY Zenon, <1>1, <1>2, <1>7
<1>10. /\ ~Locked(t)' /\ Done(t) = n /\ Done(t)' = n - 1 /\ Saves(t) = n /\ Saves(t)' = n - 1
       /\ Claims(t) = {ops[t][k].file : k \in 1..n}
       /\ Claims(t)' = {ops[t][k].file : k \in 1..(n - 1)}
  <2>1. ~Locked(t)' /\ Done(t) = n /\ Done(t)' = n - 1
    BY Zenon, <1>1, <1>3, <1>9 DEF Locked, Done
  <2>2. Saves(t) = n /\ Saves(t)' = n - 1
    BY Zenon, <1>1, <1>3, <2>1 DEF Saves
  <2>3. pc[t] \notin {"idle", "lock", "submit"} /\ pc[t] \in {"ended", "failed", "undo"}
    BY <1>1
  <2>4. /\ Written(t) = {ops[t][k].file : k \in 1..n}
        /\ Written(t)' = {ops[t][k].file : k \in 1..(n - 1)}
    BY Zenon, <1>1, <1>9, <2>3 DEF Written
  <2> QED
    BY Zenon, <1>1, <1>3, <2>1, <2>2, <2>4 DEF Claims
<1>11. TypeOK'
  <2>1. file' \in [Files -> Content]
    <3>1. Restored(file[w.file], w, b) \in Content
      BY Zenon, <1>2, <1>7, <1>8, RestoredType
    <3> QED
      BY Zenon, <1>1, <1>2, <3>1
  <2>2. i' \in [Threads -> 0..MaxOps]
    BY Zenon, <1>1, <1>2, <1>6
  <2>3. harmed' \subseteq Files
    BY Zenon, <1>1, <1>2, <1>7
  <2> QED
    BY Zenon, <1>1, <1>2, <2>1, <2>2, <2>3 DEF TypeOK
<1>12. Folders' /\ FolderOwned' /\ NoFolderLost'
  BY Zenon, <1>1, <1>2 DEF Folders, FolderOwned, NoFolderLost
<1>13. ShapeOf(t)' /\ UnusedOf(t)'
  <2>1. held'[t] = RW!Nothing'
    BY Zenon, <1>1, <1>4 DEF RW!Nothing
  <2>2. pc'[t] = "undo" /\ pc'[t] \notin Executing \cup {"idle", "lock", "save"}
    BY Zenon, <1>1 DEF Executing, Saving
  <2> QED
    BY Zenon, <1>1, <1>4, <1>6, <1>9, <1>10, <2>1, <2>2 DEF ShapeOf, UnusedOf
<1>14. ASSUME NEW f \in Claims(t) \ harmed'
       PROVE  /\ f \in Files /\ f \notin harmed /\ Account(t, f)
              /\ file'[f] = Seen(t, n, f)
  <2>1. f \notin harmed /\ (f = w.file => id[t] \notin leftover /\ ~HasHole(w, b))
    BY Zenon, <1>1, <1>14
  <2>2. Account(t, f) /\ f \in Files
    BY Zenon, <1>2, <1>14, <2>1, ClaimsShape DEF CompoundInv
  <2>3. /\ n \in 1..n /\ n # Done(t) + 1 /\ n + 1 = Done(t) + 1
    BY <1>6, <1>10
  <2>4. Seen(t, n, f) = snap[t][n][f] /\ Seen(t, n + 1, f) = file[f]
    BY Zenon, <2>3 DEF Seen
  <2>5. file[f] = IF f = w.file THEN Over(Pages(t, w.len), Seen(t, n, f)) ELSE Seen(t, n, f)
    BY Zenon, <1>10, <2>2, <2>3, <2>4 DEF Account, History
  <2>6. CASE f # w.file
    BY Zenon, <1>9, <2>1, <2>2, <2>5, <2>6
  <2>7. CASE f = w.file
    <3>1. b = Saved(Seen(t, n, f), w, EmptyFile)
      BY Zenon, <1>4, <1>10, <2>1, <2>2, <2>3, <2>7 DEF Account, BackedUp, OwnFolder
    <3>2. Seen(t, n, f) \in Content
      <4>1. snap[t] \in [1..MaxOps -> [Files -> Content]]
        BY Zenon, <1>2
      <4>2. snap[t][n] \in [Files -> Content]
        BY Zenon, <1>6, <4>1
      <4> QED
        BY Zenon, <2>2, <2>4, <4>2
    <3>3. ~HasHole(w, Saved(Seen(t, n, f), w, EmptyFile))
      BY Zenon, <2>1, <2>7, <3>1
    <3>4. Restored(Over(Pages(t, w.len), Seen(t, n, f)), w, Saved(Seen(t, n, f), w, EmptyFile))
          = Seen(t, n, f)
      BY Zenon, <1>2, <1>7, <3>2, <3>3, UndoExact
    <3>5. file[f] = Over(Pages(t, w.len), Seen(t, n, f))
      BY Zenon, <2>5, <2>7
    <3>6. file'[f] = Restored(file[f], w, b)
      BY Zenon, <1>9, <2>7
    <3>7. file'[f] = Seen(t, n, f)
      BY Zenon, <3>1, <3>4, <3>5, <3>6
    <3> QED
      BY Zenon, <2>1, <2>2, <3>7
  <2> QED
    BY Zenon, <2>6, <2>7
<1>15. ASSUME NEW f \in Claims(t) \ harmed', NEW k \in 1..n
       PROVE  Seen(t, k, f)' = Seen(t, k, f)
  <2>1. k # Done(t) + 1 /\ (k = Done(t)' + 1 <=> k = n)
    BY <1>6, <1>10
  <2>2. Seen(t, k, f) = snap[t][k][f]
    BY Zenon, <2>1 DEF Seen
  <2>3. /\ k = n => Seen(t, k, f)' = file'[f]
        /\ k # n => Seen(t, k, f)' = snap[t][k][f]
    <3>1. CASE k = n
      <4>1. k = Done(t)' + 1
        BY <2>1, <3>1
      <4> QED
        BY Zenon, <3>1, <4>1 DEF Seen
    <3>2. CASE k # n
      BY Zenon, <1>1, <2>1, <3>2 DEF Seen
    <3> QED
      BY Zenon, <3>1, <3>2
  <2>4. file'[f] = Seen(t, n, f)
    BY Zenon, <1>14, <1>15
  <2> QED
    BY Zenon, <2>2, <2>3, <2>4
<1>16. ASSUME NEW f \in Claims(t)' \ harmed'
       PROVE  Account(t, f)' /\ \A u \in Threads \ {t} : f \notin Claims(u)
  <2>1. f \in Claims(t) \ harmed'
    BY <1>6, <1>10, <1>16
  <2>2. f \in Files /\ f \notin harmed /\ Account(t, f)
    BY Zenon, <1>14, <2>1
  <2>3. \A k \in 1..n : Seen(t, k, f)' = Seen(t, k, f)
    BY Zenon, <1>15, <2>1
  <2>4. /\ \A k \in 1..(n - 1) : k \in 1..n /\ k + 1 \in 1..n
        /\ \A k \in 1..((n - 1) + 1) : k \in 1..n /\ k \in 1..(n + 1)
    BY <1>6
  <2>5. History(t, f)'
    <3> SUFFICES ASSUME NEW k \in 1..(n - 1)
                 PROVE  Seen(t, k + 1, f)' = IF f = ops[t][k].file
                                             THEN Over(Pages(t, ops[t][k].len), Seen(t, k, f)')
                                             ELSE Seen(t, k, f)'
      BY Zenon, <1>1, <1>10 DEF History, Over, Pages
    <3>1. k \in 1..n /\ k + 1 \in 1..n
      BY Zenon, <2>4
    <3>2. Seen(t, k, f)' = Seen(t, k, f) /\ Seen(t, k + 1, f)' = Seen(t, k + 1, f)
      BY Zenon, <2>3, <3>1
    <3>3. Seen(t, k + 1, f) = IF f = ops[t][k].file
                              THEN Over(Pages(t, ops[t][k].len), Seen(t, k, f))
                              ELSE Seen(t, k, f)
      BY Zenon, <1>10, <2>2, <3>1 DEF Account, History
    <3> QED
      BY Zenon, <3>2, <3>3
  <2>6. BackedUp(t, f)'
    <3> SUFFICES ASSUME OwnFolder(t)', NEW k \in 1..(n - 1), ops[t][k].file = f
                 PROVE  bkp[id[t]][k] = Saved(Seen(t, k, f), ops[t][k], EmptyFile)'
      BY Zenon, <1>1, <1>10 DEF BackedUp
    <3>1. OwnFolder(t) /\ k \in 1..n
      BY Zenon, <1>1, <2>4 DEF OwnFolder
    <3>2. bkp[id[t]][k] = Saved(Seen(t, k, f), ops[t][k], EmptyFile)
      BY Zenon, <1>10, <2>2, <3>1 DEF Account, BackedUp
    <3>3. Seen(t, k, f)' = Seen(t, k, f)
      BY Zenon, <2>3, <3>1
    <3> QED
      BY <1>1, <3>2, <3>3 DEF Saved
  <2>7. Untouched(t, f)'
    <3> SUFFICES ASSUME NEW k \in 1..((n - 1) + 1), \A j \in 1..(k - 1) : ops[t][j].file # f
                 PROVE  Seen(t, k, f)' = committed[f]
      BY Zenon, <1>1, <1>10 DEF Untouched
    <3>1. k \in 1..n /\ k \in 1..(n + 1)
      BY Zenon, <2>4
    <3>2. Seen(t, k, f) = committed[f]
      BY Zenon, <1>10, <2>2, <3>1 DEF Account, Untouched
    <3> QED
      BY Zenon, <2>3, <3>1, <3>2
  <2> QED
    BY Zenon, <2>1, <2>2, <2>5, <2>6, <2>7, Alone DEF Account
<1>17. ASSUME NEW f \in Claims(t) \ (Claims(t)' \cup harmed')
       PROVE  file'[f] = committed'[f]
  <2>1. Account(t, f) /\ file'[f] = Seen(t, n, f)
    BY Zenon, <1>14, <1>17
  <2>2. n \in 1..(Done(t) + 1)
    BY <1>6, <1>10
  <2>3. \A j \in 1..(n - 1) : ops[t][j].file # f
    BY Zenon, <1>10, <1>17
  <2>4. Seen(t, n, f) = committed[f]
    BY Zenon, <2>1, <2>2, <2>3 DEF Account, Untouched
  <2> QED
    BY Zenon, <1>1, <2>1, <2>4
<1>18. \A u \in Threads \ {t} : SameCompound(u) /\ id[u] < nextid'
  BY Zenon, <1>1, <1>9 DEF SameCompound, CompoundInv, ShapeOf
<1>19. \A f \in Files \ (Claims(t) \cup harmed') :
           file'[f] = file[f] /\ committed'[f] = committed[f]
  <2>1. n \in 1..n
    BY <1>6
  <2> QED
    BY Zenon, <1>1, <1>9, <1>10, <2>1
<1>20. harmed \subseteq harmed'
  BY Zenon, <1>1
<1> QED
  BY Zenon, <1>1, <1>11, <1>12, <1>13, <1>16, <1>17, <1>18, <1>19, <1>20, LocalStep

\* When nothing is left to undo, the compound has no claim left.
LEMMA UndonePreserves ==
    ASSUME CompoundInv, NEW t \in Threads, Undone(t)
    PROVE  CompoundInv'
<1>1. /\ pc[t] = "undo" /\ i[t] = 0 /\ pc' = [pc EXCEPT ![t] = "submit"]
      /\ file' = file /\ snap' = snap /\ i' = i /\ committed' = committed /\ held' = held
      /\ root' = root /\ folders' = folders /\ bkp' = bkp /\ bkproot' = bkproot
      /\ nextid' = nextid /\ trash' = trash /\ id' = id /\ ops' = ops
      /\ leftover' = leftover /\ harmed' = harmed /\ cloneWorks' = cloneWorks
      /\ faults' = faults
  BY Zenon DEF Undone, Goto, disk, server, locals, past
<1>2. /\ TypeOK /\ Folders /\ FolderOwned /\ NoFolderLost /\ ShapeOf(t)
      /\ pc \in [Threads -> Where]
  BY Zenon DEF CompoundInv, TypeOK, Where
<1>3. ~Locked(t)
  BY Zenon, <1>1 DEF Locked, Executing, Saving
<1>4. ops[t] \in Compound /\ id[t] < nextid /\ held[t] = RW!Nothing
  BY <1>1, <1>2, <1>3 DEF ShapeOf
<1>5. Claims(t) = {}
  <2>1. 1..i[t] = {}
    BY <1>1
  <2>2. pc[t] \in {"ended", "failed", "undo"}
    BY Zenon, <1>1
  <2>3. Written(t) = {}
    BY Zenon, <2>1, <2>2 DEF Written
  <2> QED
    BY Zenon, <1>1, <1>3, <2>3 DEF Claims
<1>6. /\ pc'[t] = "submit" /\ \A u \in Threads \ {t} : pc'[u] = pc[u]
  BY Zenon, <1>1, <1>2
<1>7. /\ ~Locked(t)' /\ Claims(t)' = {}
      /\ pc'[t] \notin Executing \cup {"idle", "lock", "save", "ended", "failed", "undo"}
      /\ pc'[t] \notin Saving \cup {"undo"}
  BY Zenon, <1>6 DEF Locked, Claims, Executing, Saving
<1>8. TypeOK'
  <2>1. pc' \in [Threads -> Where]
    BY Zenon, <1>1, <1>2 DEF Where
  <2> QED
    BY Zenon, <1>1, <1>2, <2>1 DEF TypeOK, Where
<1>9. Folders' /\ FolderOwned' /\ NoFolderLost'
  BY Zenon, <1>1, <1>2 DEF Folders, FolderOwned, NoFolderLost
<1>10. ShapeOf(t)' /\ UnusedOf(t)'
  <2>1. held'[t] = RW!Nothing'
    BY Zenon, <1>1, <1>4 DEF RW!Nothing
  <2> QED
    BY Zenon, <1>1, <1>4, <1>7, <2>1 DEF ShapeOf, UnusedOf
<1>11. \A u \in Threads \ {t} : SameCompound(u) /\ id[u] < nextid'
  BY Zenon, <1>1, <1>6 DEF SameCompound, CompoundInv, ShapeOf
<1> QED
  BY Zenon, <1>1, <1>5, <1>7, <1>8, <1>9, <1>10, <1>11, LocalStep

(***************************************************************************)
(* The theorems.                                                           *)
(***************************************************************************)

\* Steps that change nothing.
LEMMA StutterPreserves ==
    ASSUME CompoundInv, UNCHANGED vars
    PROVE  CompoundInv'
<1>1. /\ file' = file /\ root' = root /\ folders' = folders /\ bkp' = bkp
      /\ bkproot' = bkproot /\ nextid' = nextid /\ trash' = trash /\ held' = held
      /\ pc' = pc /\ id' = id /\ ops' = ops /\ i' = i /\ snap' = snap
      /\ committed' = committed /\ leftover' = leftover /\ harmed' = harmed
      /\ cloneWorks' = cloneWorks /\ faults' = faults
  BY Zenon DEF vars, disk, server, locals, past
<1>2. TypeOK' /\ Folders' /\ FolderOwned' /\ NoFolderLost'
  BY Zenon, <1>1 DEF CompoundInv, TypeOK, Folders, FolderOwned, NoFolderLost
<1>3. ASSUME NEW t \in Threads
      PROVE  ShapeOf(t)' /\ UnusedOf(t)' /\ Claims(t)' = Claims(t)
  <2>1. SameCompound(t) /\ id[t] < nextid'
    BY Zenon, <1>1 DEF SameCompound, CompoundInv, ShapeOf
  <2> QED
    BY Zenon, <2>1, ShapeKept, SameIs DEF CompoundInv
<1>4. Disjoint' /\ Clean'
  <2>1. Disjoint /\ Clean
    BY Zenon DEF CompoundInv
  <2>2. Disjoint'
    BY <1>1, <1>3, <2>1 DEF Disjoint
  <2> QED
    BY Zenon, <1>1, <1>3, <2>1, <2>2 DEF Clean
<1>5. ASSUME NEW t \in Threads, NEW f \in Claims(t)' \ harmed'
      PROVE  Account(t, f)'
  <2>1. f \in Claims(t) /\ Account(t, f) /\ TypeOK /\ ShapeOf(t)
    BY Zenon, <1>1, <1>3, <1>5 DEF CompoundInv
  <2>2. SameCompound(t)
    BY Zenon, <1>1 DEF SameCompound
  <2>3. Done(t)' = Done(t) /\ Saves(t)' = Saves(t)
    BY Zenon, <2>2, SameIs
  <2> QED
    BY Zenon, <1>1, <2>1, <2>3, AccountKept
<1> QED
  BY Zenon, <1>2, <1>3, <1>4, <1>5 DEF CompoundInv

\* Every step of the server keeps the invariant.
LEMMA NextPreserves == CompoundInv /\ [Next]_vars => CompoundInv'
<1> SUFFICES ASSUME CompoundInv, [Next]_vars
             PROVE  CompoundInv'
  OBVIOUS
<1>1. ASSUME NEW t \in Threads, NEW o \in Compounds, Start(t, o) \/ StartUnlogged(t, o)
      PROVE  CompoundInv'
  <2>1. faults \in 0..MaxFaults /\ o \in Compound /\ MaxFaults \in Nat
    BY Zenon, TxnCompoundAssumption DEF CompoundInv, TypeOK
  <2>2. faults < MaxFaults => faults + 1 \in 0..MaxFaults
    BY <2>1
  <2>3. /\ Begin(t, o, nextid) \/ Begin(t, o, 0)
        /\ nextid' = nextid + 1 /\ faults' \in 0..MaxFaults
    BY Zenon, <1>1, <2>1, <2>2 DEF Start, StartUnlogged
  <2>4. nextid \in {0, nextid} /\ 0 \in {0, nextid}
    OBVIOUS
  <2> QED
    BY Zenon, <2>1, <2>3, <2>4, BeginPreserves
<1>3. ASSUME NEW t \in Threads,
             \/ Lock(t) \/ QueryRoot(t) \/ MakeRoot(t) \/ MakeRootAgain(t)
             \/ FindFolder(t) \/ SaveFile(t) \/ Op(t) \/ OpFails(t)
      PROVE  CompoundInv'
  BY Zenon, <1>3, LockPreserves, FolderPreserves, RestartPreserves, SaveFilePreserves,
     OpPreserves, OpFailsPreserves DEF MakeRootAgain
<1>4. ASSUME NEW t \in Threads,
             UnlockEnded(t) \/ UnlockFailed(t) \/ Undo(t) \/ Undone(t) \/ Submit(t)
      PROVE  CompoundInv'
  BY Zenon, <1>4, UnlockEndedPreserves, UnlockFailedPreserves, UndoPreserves,
     UndonePreserves, SubmitPreserves
<1>5. ASSUME NEW n \in Ids, CleanUp(n)
      PROVE  CompoundInv'
  BY Zenon, <1>5, CleanUpPreserves
<1>6. CASE Crash
  BY Zenon, <1>6, RestartPreserves DEF Crash
<1>7. CASE UNCHANGED vars
  BY Zenon, <1>7, StutterPreserves
<1> QED
  BY Zenon, <1>1, <1>3, <1>4, <1>5, <1>6, <1>7 DEF Next

\* What the invariant says of the files and of the backups.
LEMMA InvariantImplies ==
    ASSUME CompoundInv
    PROVE  AllOrNothing /\ Isolated /\ BackupCovers
<1>1. AllOrNothing
  <2> SUFFICES ASSUME NEW f \in Files \ harmed, \A t \in Threads : f \notin Written(t)
               PROVE  file[f] = committed[f]
    BY Zenon DEF AllOrNothing
  <2>1. CASE \A t \in Threads : f \notin Claims(t)
    BY Zenon, <2>1 DEF CompoundInv, Clean
  <2>2. ASSUME NEW t \in Threads, f \in Claims(t)
        PROVE  file[f] = committed[f]
    BY Zenon, <2>2, Unwritten
  <2> QED
    BY Zenon, <2>1, <2>2
<1>2. Isolated
  <2> SUFFICES ASSUME NEW t \in Threads, NEW f \in DOMAIN held[t] \ (Written(t) \cup harmed)
               PROVE  file[f] = committed[f]
    BY Zenon DEF Isolated
  <2>1. held[t] = IF Locked(t) THEN LockRequest(ops[t]) ELSE RW!Nothing
    BY Zenon DEF CompoundInv, ShapeOf
  <2>2. CASE Locked(t)
    <3>1. DOMAIN held[t] = FilesOf(ops[t])
      BY Zenon, <2>1, <2>2 DEF LockRequest
    <3>2. f \in Claims(t)
      BY Zenon, <2>2, <3>1 DEF Claims
    <3> QED
      BY Zenon, <3>2, Unwritten
  <2>3. CASE ~Locked(t)
    <3>1. DOMAIN held[t] = {}
      BY Zenon, <2>1, <2>3 DEF RW!Nothing
    <3> QED
      BY Zenon, <3>1
  <2> QED
    BY Zenon, <2>2, <2>3
<1>3. BackupCovers
  <2> SUFFICES ASSUME NEW t \in Threads, pc[t] = "op", id[t] \notin leftover \cup {0},
                      ops[t][i[t]].file \notin harmed
               PROVE  First(ops[t][i[t]].len, bkp[id[t]][i[t]])
                      = First(ops[t][i[t]].len, file[ops[t][i[t]].file])
    BY Zenon DEF BackupCovers
  <2> DEFINE w == ops[t][i[t]]
             f == w.file
             b == bkp[id[t]][i[t]]
  <2>1. Locked(t) /\ pc[t] \in Executing /\ OwnFolder(t)
    BY Zenon DEF Locked, Executing, Saving, OwnFolder
  <2>2. /\ TypeOK /\ ShapeOf(t) /\ i[t] \in 1..Len(ops[t]) /\ file \in [Files -> Content]
    BY Zenon, <2>1 DEF CompoundInv, ShapeOf, TypeOK
  <2>3. /\ w \in Write /\ f \in FilesOf(ops[t]) /\ f \in Files /\ i[t] \in Nat
        /\ Len(ops[t]) \in Nat
    BY Zenon, <2>1, <2>2, RunningShape
  <2>4. f \in Claims(t)
    BY Zenon, <2>1, <2>3 DEF Claims
  <2>5. BackedUp(t, f)
    BY Zenon, <2>4 DEF CompoundInv, Account
  <2>6. Done(t) = i[t] - 1 /\ Saves(t) = i[t]
    BY Zenon, <2>1 DEF Done, Saves
  <2>7. i[t] = Done(t) + 1 /\ i[t] \in 1..Saves(t)
    BY <2>2, <2>3, <2>6
  <2>8. b = Saved(Seen(t, i[t], f), w, EmptyFile) /\ Seen(t, i[t], f) = file[f]
    BY Zenon, <2>1, <2>5, <2>7 DEF BackedUp, Seen
  <2>9. b = Saved(file[f], w, EmptyFile) /\ file[f] \in Content
    BY Zenon, <2>2, <2>3, <2>8
  <2> HIDE DEF w, b, f
  <2>10. \A k \in PageNo : k <= w.len => b[k] = file[f][k]
    <3> SUFFICES ASSUME NEW k \in PageNo, k <= w.len
                 PROVE  b[k] = file[f][k]
      BY Zenon
    <3>1. k <= w.len + 1
      BY <2>3, TxnCompoundAssumption DEF Write, PageNo
    <3>2. Saved(file[f], w, EmptyFile)[k] = file[f][k]
      BY <2>3, <2>9, <3>1, SavedPages
    <3> QED
      BY Zenon, <2>9, <3>2
  <2>11. First(w.len, b) = First(w.len, file[f])
    BY <2>10 DEF First
  <2> QED
    BY Zenon, <2>11 DEF w, b, f
<1> QED
  BY Zenon, <1>1, <1>2, <1>3

\* Whatever compounds the clients send to however many threads, in whatever order
\* these go through txnfs_start_compound, the backups, the WRITEs and
\* txnfs_end_compound, and however often the server stops: the invariant holds.
THEOREM CompoundInvariant == Spec => []CompoundInv
<1>1. Init => CompoundInv
  BY InitEstablishes
<1>2. CompoundInv /\ [Next]_vars => CompoundInv'
  BY NextPreserves
<1> QED
  BY <1>1, <1>2, PTL DEF Spec

\* The variables keep their types: ids stay in range, and files have pages up to
\* their end after any WRITE, backup and restore_data.
THEOREM CompoundTypeCorrect == Spec => []TypeOK
<1>1. CompoundInv => TypeOK
  BY DEF CompoundInv
<1> QED
  BY <1>1, CompoundInvariant, PTL

\* Files outside `harmed' that no compound under way has changed hold what the
\* successful compounds wrote: do_txn_rollback and restore_data undo the others.
THEOREM CompoundsAllOrNothing == Spec => []AllOrNothing
<1>1. CompoundInv => AllOrNothing
  BY InvariantImplies
<1> QED
  BY <1>1, CompoundInvariant, PTL

\* A compound that holds the locks of find_relevant_handles finds its files as the
\* successful compounds left them, but for those in `harmed'.
THEOREM CompoundsIsolated == Spec => []Isolated
<1>1. CompoundInv => Isolated
  BY InvariantImplies
<1> QED
  BY <1>1, CompoundInvariant, PTL

\* Before a WRITE, the backup of txnfs_backup_file has the pages it will overwrite.
THEOREM CompoundBackupsCover == Spec => []BackupCovers
<1>1. CompoundInv => BackupCovers
  BY InvariantImplies
<1> QED
  BY <1>1, CompoundInvariant, PTL

\* The cleanup worker never gets the folder of a compound under way, and no two
\* compounds share one, since get_txn_id gives every compound its own id.
THEOREM CompoundFolders == Spec => []FolderOwned
<1>1. CompoundInv => FolderOwned
  BY DEF CompoundInv
<1> QED
  BY <1>1, CompoundInvariant, PTL

\* Only a stop of the server makes it forget a folder that query_txn_backup made.
THEOREM CompoundNoFolderLost == Spec => []NoFolderLost
<1>1. CompoundInv => NoFolderLost
  BY DEF CompoundInv
<1> QED
  BY <1>1, CompoundInvariant, PTL
=============================================================================
