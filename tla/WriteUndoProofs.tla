-------------------------- MODULE WriteUndoProofs ---------------------------
(***************************************************************************)
(* Proofs about WriteUndo, for any page size, chunk, file size and number  *)
(* of WRITEs, with and without clone: the rollback is exact when every     *)
(* WRITE it undoes is Restorable.                                          *)
(*                                                                         *)
(* The argument goes backwards through the compound.  The file after the   *)
(* k-th WRITE is what the (k+1)-th found (History); the backup of a        *)
(* Restorable WRITE holds the bytes that it overwrote (Backups); so        *)
(* undoing it turns the file it left into the file it found                *)
(* (UndoRestores).                                                         *)
(***************************************************************************)
EXTENDS WriteUndo, TLAPS

(* What the k-th WRITE made of the file it found. *)
Written(k) == Overlay(before[k], ops[k].off, Payload(k))

(* A file has no bytes beyond its size. *)
Clean(f) == \A i \in Pos : i >= f.size => f.data[i] = 0

FilesClean ==
    /\ pc # "undoing" => file.size <= MaxSize /\ Clean(file)
    /\ \A k \in 1 .. Len(ops) : /\ before[k].size <= MaxSize
                                /\ Clean(before[k])
                                /\ ops[k].off + ops[k].len <= MaxSize
                                /\ bkp[k].size <= MaxSize

(* Each WRITE finds the file that the one before it left, and the last one *)
(* leaves the file that the rollback finds.                                *)
History ==
    /\ \A k \in 1 .. Len(ops) : k + 1 \in 1 .. Len(ops) => before[k + 1] = Written(k)
    /\ pc \in {"backup", "copying", "writing"} =>
         left > 0 /\ file = before[left]
    /\ pc # "undoing" => left = Len(ops)
    /\ pc = "running" \/ (pc = "undoing" /\ left = Len(ops)) =>
         (left > 0 => file = Written(left))

(* The backup file of the k-th WRITE is what undoing it needs. *)
BackupHolds(k) ==
    LET op == ops[k]
        b == bkp[k]
        f == before[k]
    IN  \/ op.off = f.size /\ b.size = 0
        \/ /\ op.off < f.size /\ cloneWorks
           /\ b.size = f.size
           /\ \A i \in Pos : b.data[i] =
                IF SrcOffset(op) + i < f.size THEN f.data[SrcOffset(op) + i] ELSE 0
        \/ /\ op.off < f.size /\ ~cloneWorks
           /\ b.size > 0 /\ b.size <= f.size - op.off
           /\ op.len <= b.size \/ b.size = f.size - op.off
           /\ \A i \in Pos : i < b.size => b.data[i] = f.data[op.off + i]

(* The WRITEs that have been backed up. *)
BackedUp(k) == k \in 1 .. Len(ops) /\ (k = left => pc \notin {"backup", "copying"})

Backups ==
    /\ \A k \in 1 .. Len(ops) : BackedUp(k) /\ Restorable(k) => BackupHolds(k)
    /\ pc = "backup" => bkp[left] = EmptyFile
    /\ pc = "copying" => /\ ~CloneAccepted(ops[left])
                         /\ ops[left].off < file.size
                         /\ copied <= file.size - ops[left].off
                         /\ bkp[left] = Extent(file, ops[left].off, copied)

UndoInv ==
    /\ TypeOK
    /\ FilesClean
    /\ History
    /\ Backups
    /\ RollbackExact

-----------------------------------------------------------------------------
(* Arithmetic. *)

(* An offset that an int holds is rounded to the start of its page. *)
LEMMA RoundDown ==
    ASSUME NEW n \in Nat, n < IntLimit
    PROVE  /\ round_down(n) \in Nat
           /\ round_down(n) <= n
           /\ n < round_down(n) + PageSize
<1> USE PageAssumption, IntAssumption, LenAssumption
<1>1. IntLimit \in Nat /\ IntLimit > 0
  OBVIOUS
<1>2. n % (2 * IntLimit) = n
  BY <1>1, SMTT(30)
<1>3. as_int(n) = n
  BY <1>2 DEF as_int
<1>4. round_down(n) = PageSize * (n \div PageSize)
  BY <1>3 DEF round_down
<1>5. /\ PageSize * (n \div PageSize) \in Nat
      /\ PageSize * (n \div PageSize) <= n
      /\ n < PageSize * (n \div PageSize) + PageSize
  BY SMTT(30)
<1> QED
  BY <1>4, <1>5

(* The pages that are backed up begin at or before the offset, by less     *)
(* than a page, and end beyond the bytes that are written.                 *)
LEMMA BackupRange ==
    ASSUME NEW op \in Op, op.off < IntLimit
    PROVE  /\ SrcOffset(op) \in Nat
           /\ SrcOffset(op) <= op.off
           /\ CloneLength(op) \in Nat
           /\ SrcOffset(op) + CloneLength(op) > op.off + op.len
<1> USE SizeAssumption, LenAssumption, PageAssumption, IntAssumption
<1>1. op.off \in Nat /\ op.len \in 0 .. MaxLen
  BY DEF Op
<1>2. /\ SrcOffset(op) \in Nat
      /\ SrcOffset(op) <= op.off
      /\ op.off < SrcOffset(op) + PageSize
  BY <1>1, RoundDown DEF SrcOffset
<1> DEFINE n == op.len + (op.off - SrcOffset(op))
<1>3. n \in Nat /\ n < IntLimit
  BY <1>1, <1>2
<1>4. /\ round_down(n) \in Nat
      /\ round_down(n) <= n
      /\ n < round_down(n) + PageSize
  BY <1>3, RoundDown
<1>5. CloneLength(op) = round_down(n) + PageSize
  BY DEF CloneLength, round_up
<1> HIDE DEF n
<1>6. CloneLength(op) \in Nat /\ CloneLength(op) > n
  BY <1>3, <1>4, <1>5
<1> QED
  BY <1>1, <1>2, <1>6 DEF n

-----------------------------------------------------------------------------
(* Files. *)

(* Two files of the same size and the same bytes are equal. *)
LEMMA FileEqual ==
    ASSUME NEW f \in File, NEW g \in File, f.size = g.size,
           \A i \in Pos : f.data[i] = g.data[i]
    PROVE  f = g
<1>1. f.data = g.data
  BY DEF File
<1> QED
  BY <1>1 DEF File

(* A range of a file is a file.                                            *)
LEMMA ExtentType ==
    ASSUME NEW f \in File, NEW from \in Int, NEW n \in 0 .. 2 * MaxSize
    PROVE  Extent(f, from, n) \in File
BY SizeAssumption DEF Extent, File

(* So is a file that has been cut or extended.                             *)
LEMMA TruncateType ==
    ASSUME NEW f \in File, NEW n \in 0 .. 2 * MaxSize
    PROVE  truncate_file(f, n) \in File
BY SizeAssumption DEF truncate_file, File

(* So is a file that another one has been written into.                    *)
LEMMA OverlayType ==
    ASSUME NEW f \in File, NEW g \in File, NEW at \in Nat, at + g.size <= 2 * MaxSize
    PROVE  Overlay(f, at, g) \in File
<1> USE SizeAssumption
<1>1. ASSUME NEW i \in Pos, at <= i, i < at + g.size
      PROVE  i - at \in Pos /\ g.data[i - at] \in Nat
  BY <1>1 DEF File, Pos
<1>2. \A i \in Pos : f.data[i] \in Nat
  BY DEF File
<1>3. f.size \in 0 .. 2 * MaxSize /\ g.size \in 0 .. 2 * MaxSize
  BY DEF File
<1>4. (IF g.size = 0 THEN f.size ELSE Larger(f.size, at + g.size)) \in 0 .. 2 * MaxSize
  BY <1>3 DEF Larger
<1>5. [i \in Pos |-> IF at <= i /\ i < at + g.size THEN g.data[i - at] ELSE f.data[i]]
        \in [Pos -> Nat]
  BY <1>1, <1>2
<1> QED
  BY <1>4, <1>5 DEF Overlay, File

(* The elements of a sequence over S are in S.                             *)
LEMMA SeqElement ==
    ASSUME NEW S, NEW s \in Seq(S), NEW i \in 1 .. Len(s)
    PROVE  s[i] \in S
OBVIOUS

(* The types of one operation, its backup and the file it found.           *)
LEMMA ElementTypes ==
    ASSUME TypeOK, NEW k \in 1 .. Len(ops)
    PROVE  /\ Len(ops) \in Nat
           /\ ops[k] \in Op
           /\ bkp[k] \in File
           /\ before[k] \in File
<1>1. /\ ops \in Seq(Op) /\ bkp \in Seq(File) /\ before \in Seq(File)
      /\ k \in 1 .. Len(bkp) /\ k \in 1 .. Len(before)
  BY DEF TypeOK
<1> QED
  BY <1>1, SeqElement

(* The bytes of a WRITE are a file that fits. *)
LEMMA PayloadType ==
    ASSUME TypeOK, FilesClean, NEW k \in 1 .. Len(ops)
    PROVE  /\ Payload(k) \in File
           /\ Payload(k).size = ops[k].len
           /\ ops[k] \in Op
           /\ ops[k].off + ops[k].len <= MaxSize
<1> USE SizeAssumption, LenAssumption
<1>1. Len(ops) \in Nat /\ ops[k] \in Op
  BY ElementTypes
<1>2. ops[k].off + ops[k].len <= MaxSize
  BY DEF FilesClean
<1>3. ops[k].off \in Nat /\ ops[k].len \in Nat /\ ops[k].len <= 2 * MaxSize
  BY <1>1, <1>2 DEF Op
<1>4. [i \in Pos |-> IF i < ops[k].len THEN MaxSize + k ELSE 0] \in [Pos -> Nat]
  BY <1>1
<1> QED
  BY <1>1, <1>2, <1>3, <1>4 DEF Payload, File

(* The file that a WRITE leaves, byte by byte. *)
LEMMA WrittenBytes ==
    ASSUME TypeOK, FilesClean, NEW k \in 1 .. Len(ops)
    PROVE  /\ Written(k) \in File
           /\ Clean(Written(k))
           /\ Written(k).size = IF ops[k].len = 0 THEN before[k].size
                                ELSE Larger(before[k].size, ops[k].off + ops[k].len)
           /\ Written(k).size <= MaxSize
           /\ \A i \in Pos : i < ops[k].off \/ i >= ops[k].off + ops[k].len =>
                 Written(k).data[i] = before[k].data[i]
<1> USE SizeAssumption, LenAssumption
<1>1. /\ Payload(k) \in File
      /\ Payload(k).size = ops[k].len
      /\ ops[k].off \in Nat /\ ops[k].len \in Nat
      /\ ops[k].off + ops[k].len <= MaxSize
  BY PayloadType DEF Op
<1>2. /\ before[k] \in File /\ before[k].size <= MaxSize /\ Clean(before[k])
      /\ before[k].size \in Nat
  BY ElementTypes DEF FilesClean, File
<1>3. Written(k) \in File
  BY <1>1, <1>2, OverlayType DEF Written
<1>4. Written(k).size = IF ops[k].len = 0 THEN before[k].size
                        ELSE Larger(before[k].size, ops[k].off + ops[k].len)
  BY <1>1 DEF Written, Overlay
<1>5. Written(k).size <= MaxSize
  BY <1>1, <1>2, <1>4 DEF Larger
<1>6. ASSUME NEW i \in Pos, i < ops[k].off \/ i >= ops[k].off + ops[k].len
      PROVE  Written(k).data[i] = before[k].data[i]
  <2>1. ~(ops[k].off <= i /\ i < ops[k].off + ops[k].len)
    BY <1>1, <1>6 DEF Pos
  <2> QED
    BY <1>1, <2>1 DEF Written, Overlay
<1>7. Clean(Written(k))
  <2> SUFFICES ASSUME NEW i \in Pos, i >= Written(k).size PROVE Written(k).data[i] = 0
    BY DEF Clean
  <2>1. i >= before[k].size /\ (i < ops[k].off \/ i >= ops[k].off + ops[k].len)
    BY <1>1, <1>2, <1>4 DEF Larger, Pos
  <2> QED
    BY <1>2, <1>6, <2>1 DEF Clean
<1> QED
  BY <1>3, <1>4, <1>5, <1>6, <1>7

-----------------------------------------------------------------------------
(* Undoing one WRITE. *)

(* The bytes of a file after truncate_file and Overlay. *)
LEMMA TruncateBytes ==
    ASSUME NEW f, NEW n, NEW i \in Pos
    PROVE  /\ truncate_file(f, n).size = n
           /\ truncate_file(f, n).data[i] = IF i < n /\ i < f.size THEN f.data[i] ELSE 0
BY DEF truncate_file

(* The bytes that Overlay leaves.                                          *)
LEMMA OverlayBytes ==
    ASSUME NEW f, NEW g, NEW at, NEW i \in Pos
    PROVE  /\ Overlay(f, at, g).size =
                IF g.size = 0 THEN f.size ELSE Larger(f.size, at + g.size)
           /\ Overlay(f, at, g).data[i] =
                IF at <= i /\ i < at + g.size THEN g.data[i - at] ELSE f.data[i]
BY DEF Overlay

(* The bytes of a range.                                                   *)
LEMMA ExtentBytes ==
    ASSUME NEW f, NEW from, NEW n, NEW i \in Pos
    PROVE  /\ Extent(f, from, n).size = n
           /\ Extent(f, from, n).data[i] =
                IF i < n /\ from + i \in Pos THEN f.data[from + i] ELSE 0
BY DEF Extent

(* A WRITE at the end of the file is undone by cutting the file. *)
LEMMA UndoAppend ==
    ASSUME TypeOK, FilesClean, NEW k \in 1 .. Len(ops), file = Written(k),
           ops[k].off = before[k].size, bkp[k].size = 0
    PROVE  Target(ops[k], bkp[k]) = before[k]
<1> USE SizeAssumption
<1> DEFINE op == ops[k]
           f == before[k]
<1>1. /\ op.off \in Nat /\ op.len \in Nat /\ f \in File
      /\ f.size \in 0 .. 2 * MaxSize /\ Clean(f)
  BY ElementTypes DEF Op, File, FilesClean
<1>2. /\ Written(k) \in File
      /\ Written(k).size = IF op.len = 0 THEN f.size ELSE Larger(f.size, op.off + op.len)
      /\ \A i \in Pos : i < op.off \/ i >= op.off + op.len =>
           Written(k).data[i] = f.data[i]
  BY WrittenBytes
<1>3. CASE op.len = 0
  <2>1. Target(op, bkp[k]) = Written(k)
    BY <1>1, <1>3 DEF Target
  <2>2. \A i \in Pos : Written(k).data[i] = f.data[i]
    BY <1>1, <1>2, <1>3 DEF Pos
  <2> QED
    BY <1>1, <1>2, <1>3, <2>1, <2>2, FileEqual
<1>4. CASE op.len > 0
  <2>1. Target(op, bkp[k]) = truncate_file(Written(k), f.size)
    BY <1>1, <1>4 DEF Target
  <2>2. ASSUME NEW i \in Pos
        PROVE  truncate_file(Written(k), f.size).data[i] = f.data[i]
    <3>1. CASE i < f.size
      <4>1. i < Written(k).size
        BY <1>1, <1>2, <3>1 DEF Larger, Pos
      <4> QED
        BY <1>1, <1>2, <3>1, <4>1, TruncateBytes
    <3>2. CASE ~(i < f.size)
      <4>1. f.data[i] = 0
        BY <1>1, <3>2 DEF Clean, Pos
      <4> QED
        BY <3>2, <4>1, TruncateBytes
    <3> QED
      BY <3>1, <3>2
  <2>3. truncate_file(Written(k), f.size) \in File
    BY <1>1, <1>2, TruncateType
  <2>4. truncate_file(Written(k), f.size).size = f.size
    BY DEF truncate_file
  <2> QED
    BY <1>1, <2>1, <2>2, <2>3, <2>4, FileEqual
<1> QED
  BY <1>1, <1>3, <1>4

(* A backup by copy is undone by cutting the file, where the WRITE made it *)
(* longer, and copying the bytes back.                                     *)
LEMMA UndoCopy ==
    ASSUME TypeOK, FilesClean, NEW k \in 1 .. Len(ops), file = Written(k),
           BackupHolds(k), ops[k].off < before[k].size, ~cloneWorks
    PROVE  Overlay(Target(ops[k], bkp[k]), ops[k].off, bkp[k]) = before[k]
<1> USE SizeAssumption
<1> DEFINE op == ops[k]
           f == before[k]
           b == bkp[k]
           t == Target(op, b)
<1>1. /\ op.off \in Nat /\ op.len \in Nat /\ f \in File /\ b \in File
      /\ f.size \in 0 .. 2 * MaxSize /\ Clean(f)
  BY ElementTypes DEF Op, File, FilesClean
<1>2. /\ Written(k) \in File
      /\ Written(k).size = IF op.len = 0 THEN f.size ELSE Larger(f.size, op.off + op.len)
      /\ \A i \in Pos : i < op.off \/ i >= op.off + op.len =>
           Written(k).data[i] = f.data[i]
  BY WrittenBytes
<1>3. /\ b.size \in Nat /\ b.size > 0 /\ b.size <= f.size - op.off
      /\ op.len <= b.size \/ b.size = f.size - op.off
      /\ \A i \in Pos : i < b.size => b.data[i] = f.data[op.off + i]
  BY <1>1 DEF BackupHolds, File
<1>4. /\ t \in File
      /\ t.size = f.size
      /\ \A i \in Pos : i < op.off \/ i >= op.off + b.size => t.data[i] = f.data[i]
  <2>1. CASE op.len <= b.size
    <3>1. t = Written(k)
      BY <1>1, <1>3, <2>1 DEF Target
    <3>2. Written(k).size = f.size
      BY <1>1, <1>2, <1>3, <2>1 DEF Larger
    <3>3. \A i \in Pos : i >= op.off + b.size => i >= op.off + op.len
      BY <1>1, <1>3, <2>1 DEF Pos
    <3> QED
      BY <1>2, <3>1, <3>2, <3>3
  <2>2. CASE op.len > b.size
    <3>1. op.off + b.size = f.size
      BY <1>1, <1>3, <2>2
    <3>2. t = truncate_file(Written(k), f.size)
      BY <1>1, <2>2, <3>1 DEF Target
    <3>3. t \in File /\ t.size = f.size
      BY <1>1, <1>2, <3>2, TruncateType DEF truncate_file
    <3>4. ASSUME NEW i \in Pos, i < op.off
          PROVE  t.data[i] = f.data[i]
      <4>1. i < f.size /\ i < Written(k).size
        BY <1>1, <1>2, <3>4 DEF Larger, Pos
      <4> QED
        BY <1>2, <3>2, <3>4, <4>1, TruncateBytes
    <3>5. ASSUME NEW i \in Pos, i >= op.off + b.size
          PROVE  t.data[i] = f.data[i]
      <4>1. f.data[i] = 0 /\ ~(i < f.size)
        BY <1>1, <3>1, <3>5 DEF Clean, Pos
      <4> QED
        BY <3>2, <4>1, TruncateBytes
    <3> QED
      BY <3>3, <3>4, <3>5
  <2> QED
    BY <1>1, <1>3, <2>1, <2>2
<1> HIDE DEF t
<1> DEFINE r == Overlay(t, op.off, b)
<1>5. r \in File
  BY <1>1, <1>3, <1>4, OverlayType
<1>6. r.size = f.size
  BY <1>1, <1>3, <1>4 DEF Overlay, Larger
<1>7. ASSUME NEW i \in Pos PROVE r.data[i] = f.data[i]
  <2>1. CASE op.off <= i /\ i < op.off + b.size
    <3>1. i - op.off \in Pos /\ i - op.off < b.size /\ op.off + (i - op.off) = i
      BY SMTT(20), <1>1, <1>3, <2>1 DEF Pos
    <3>2. r.data[i] = b.data[i - op.off]
      BY <2>1, OverlayBytes
    <3> QED
      BY <1>3, <3>1, <3>2
  <2>2. CASE ~(op.off <= i /\ i < op.off + b.size)
    <3>1. i < op.off \/ i >= op.off + b.size
      BY <1>1, <1>3, <2>2 DEF Pos
    <3>2. r.data[i] = t.data[i]
      BY <2>2, OverlayBytes
    <3> QED
      BY <1>4, <3>1, <3>2
  <2> QED
    BY <2>1, <2>2
<1>8. r = f
  BY <1>1, <1>5, <1>6, <1>7, FileEqual
<1> QED
  BY <1>8 DEF t

(* What a clone makes of each byte of the destination.                     *)
LEMMA CloneBytes ==
    ASSUME NEW f, NEW g, NEW from, NEW at, NEW n, NEW i \in Pos
    PROVE  vfs_clone2(f, from, g, at, n).data[i] =
             IF i >= f.size THEN 0
             ELSE IF at <= i /\ i < at + n
               THEN IF from + (i - at) \in Pos THEN f.data[from + (i - at)] ELSE 0
             ELSE IF i < g.size THEN g.data[i] ELSE 0
BY DEF vfs_clone2

(* What vfs_clone2 makes of a file is a file.                              *)
LEMMA CloneType ==
    ASSUME NEW f \in File, NEW g \in File, NEW from \in Int, NEW at \in Nat, NEW n \in Int
    PROVE  vfs_clone2(f, from, g, at, n) \in File
<1> DEFINE c == vfs_clone2(f, from, g, at, n)
<1>1. f.data \in [Pos -> Nat] /\ g.data \in [Pos -> Nat] /\ f.size \in 0 .. 2 * MaxSize
  BY DEF File
<1>2. \A i \in Pos : c.data[i] \in Nat
  BY <1>1, CloneBytes
<1> QED
  BY <1>1, <1>2 DEF vfs_clone2, File

(* A backup by clone is undone by cloning it back; its size, which is the  *)
(* file's, is set too.  The clone is not refused.                          *)
LEMMA UndoClone ==
    ASSUME TypeOK, FilesClean, NEW k \in 1 .. Len(ops), file = Written(k),
           BackupHolds(k), Restorable(k), ops[k].off < before[k].size, cloneWorks
    PROVE  /\ vfs_clone2(bkp[k], 0, Target(ops[k], bkp[k]), SrcOffset(ops[k]), bkp[k].size)
                = before[k]
           /\ CloneAccepted(ops[k])
           /\ ~MayRefuse(ops[k], bkp[k])
<1> USE SizeAssumption, PageAssumption
<1> DEFINE op == ops[k]
           f == before[k]
           b == bkp[k]
           t == Target(op, b)
           src == SrcOffset(op)
<1>1. /\ op \in Op /\ op.off \in Nat /\ op.len \in Nat /\ f \in File /\ b \in File
      /\ f.size \in 0 .. MaxSize /\ Clean(f) /\ op.off <= MaxSize
  BY SMTT(20), ElementTypes DEF Op, File, FilesClean
<1>2. /\ Written(k) \in File
      /\ Written(k).size = IF op.len = 0 THEN f.size ELSE Larger(f.size, op.off + op.len)
      /\ \A i \in Pos : i < op.off \/ i >= op.off + op.len =>
           Written(k).data[i] = f.data[i]
  BY WrittenBytes
<1>3. /\ b.size = f.size
      /\ \A i \in Pos : b.data[i] = IF src + i < f.size THEN f.data[src + i] ELSE 0
  BY <1>1 DEF BackupHolds
<1>4. src \in Nat /\ src <= op.off
  BY <1>1, BackupRange DEF Restorable
<1> HIDE DEF src
<1>5. /\ t \in File
      /\ t.size >= f.size
      /\ \A i \in Pos : i < src => t.data[i] = f.data[i]
  <2>1. CASE op.len <= b.size
    <3>1. t = Written(k)
      BY <1>1, <1>3, <2>1 DEF Target
    <3>2. Written(k).size >= f.size
      BY <1>1, <1>2 DEF Larger
    <3>3. \A i \in Pos : i < src => i < op.off
      BY <1>1, <1>4 DEF Pos
    <3> QED
      BY <1>2, <3>1, <3>2, <3>3
  <2>2. CASE op.len > b.size
    <3>1. t = truncate_file(Written(k), op.off + f.size)
      BY <1>1, <1>3, <2>2 DEF Target
    <3>2. op.off + f.size \in 0 .. 2 * MaxSize
      BY <1>1
    <3>3. t \in File /\ t.size = op.off + f.size
      BY <1>2, <3>1, <3>2, TruncateType DEF truncate_file
    <3>4. ASSUME NEW i \in Pos, i < src
          PROVE  t.data[i] = f.data[i]
      <4>1. i < op.off + f.size /\ i < Written(k).size /\ i < op.off
        BY SMTT(20), <1>1, <1>2, <1>4, <3>4 DEF Larger, Pos
      <4> QED
        BY <1>2, <3>1, <4>1, TruncateBytes
    <3> QED
      BY <1>1, <3>3, <3>4
  <2> QED
    BY <1>1, <1>3, <2>1, <2>2
<1>6. ~MayRefuse(op, b)
  <2>1. CASE f.size % PageSize = 0
    BY <1>3, <2>1 DEF MayRefuse
  <2>2. CASE op.off + op.len <= f.size
    <3>1. t = Written(k) /\ Written(k).size = f.size
      BY <1>1, <1>2, <1>3, <2>2 DEF Target, Larger
    <3> QED
      BY <1>1, <1>3, <1>4, <3>1 DEF MayRefuse, src
  <2> QED
    BY <2>1, <2>2 DEF Restorable, SizeBefore
<1>7. CloneAccepted(op)
  BY <1>4 DEF CloneAccepted, src
<1> HIDE DEF t
<1> DEFINE r == vfs_clone2(b, 0, t, src, b.size)
<1>8. r.size = f.size /\ r \in File
  BY SMTT(20), <1>1, <1>3, <1>4, <1>5, CloneType DEF vfs_clone2, File
<1>9. ASSUME NEW i \in Pos PROVE r.data[i] = f.data[i]
  <2>1. r.data[i] = IF i >= b.size THEN 0
                    ELSE IF src <= i /\ i < src + b.size
                      THEN IF 0 + (i - src) \in Pos THEN b.data[0 + (i - src)] ELSE 0
                    ELSE IF i < t.size THEN t.data[i] ELSE 0
    BY CloneBytes
  <2> HIDE DEF r
  <2>2. CASE i >= f.size
    <3>1. f.data[i] = 0
      BY <1>1, <2>2 DEF Clean
    <3> QED
      BY <1>3, <2>1, <2>2, <3>1
  <2>3. CASE i < f.size /\ src <= i
    <3>1. /\ i - src \in Pos /\ 0 + (i - src) = i - src
          /\ src + (i - src) = i /\ i < src + f.size /\ ~(i >= f.size)
      BY SMTT(20), <1>1, <1>4, <2>3, SizeAssumption DEF Pos
    <3>2. b.data[i - src] = f.data[i]
      BY <1>3, <2>3, <3>1
    <3> QED
      BY <1>3, <2>1, <2>3, <3>1, <3>2
  <2>4. CASE i < f.size /\ i < src
    <3>1. i < t.size /\ ~(src <= i) /\ ~(i >= f.size)
      <4>1. i \in Nat /\ t.size \in Nat /\ f.size \in Nat
        BY <1>1, <1>5 DEF Pos, File
      <4> QED
        BY <1>4, <1>5, <2>4, <4>1
    <3> QED
      BY <1>3, <1>5, <2>1, <2>4, <3>1
  <2> QED
    BY <1>1, <1>4, <2>2, <2>3, <2>4 DEF Pos
<1> HIDE DEF r
<1>10. r = f
  BY <1>1, <1>8, <1>9, FileEqual
<1> QED
  BY <1>6, <1>7, <1>10 DEF t, src, r

(* Undoing a Restorable WRITE turns the file it left into the one it       *)
(* found.                                                                  *)
LEMMA UndoRestores ==
    ASSUME TypeOK, FilesClean, left \in 1 .. Len(ops), file = Written(left),
           BackupHolds(left), Restorable(left),
           UndoNothing \/ UndoByClone \/ UndoByCopy
    PROVE  file' = before[left]
<1>1. CASE ops[left].off = before[left].size /\ bkp[left].size = 0
  BY <1>1, UndoAppend DEF UndoNothing, UndoByClone, UndoByCopy, cur, curBkp
<1>2. CASE ops[left].off < before[left].size /\ cloneWorks
  <2>1. bkp[left].size > 0
    BY <1>2, ElementTypes DEF BackupHolds, Op, File
  <2> QED
    BY <1>2, <2>1, UndoClone DEF UndoNothing, UndoByClone, UndoByCopy, cur, curBkp
<1>3. CASE ops[left].off < before[left].size /\ ~cloneWorks
  <2>1. bkp[left].size > 0
    BY <1>3, ElementTypes DEF BackupHolds, Op, File
  <2>2. ~CloneAccepted(ops[left])
    BY <1>3 DEF CloneAccepted
  <2> QED
    BY <1>3, <2>1, <2>2, UndoCopy DEF UndoNothing, UndoByClone, UndoByCopy, cur, curBkp
<1> QED
  BY <1>1, <1>2, <1>3 DEF BackupHolds

-----------------------------------------------------------------------------
(* The invariant holds initially, and each action preserves it. *)

(* Before the first WRITE there is nothing to undo.                        *)
LEMMA InitInv == Init => UndoInv
<1> SUFFICES ASSUME Init PROVE UndoInv
  OBVIOUS
<1> USE SizeAssumption
<1>1. PICK n \in 0 .. MaxSize :
        file = [size |-> n, data |-> [i \in Pos |-> IF i < n THEN i + 1 ELSE 0]]
  BY DEF Init
<1>2. file \in File /\ file.size = n
  <2>1. [i \in Pos |-> IF i < n THEN i + 1 ELSE 0] \in [Pos -> Nat]
    BY DEF Pos
  <2> QED
    BY <1>1, <2>1 DEF File
<1>3. Clean(file)
  BY <1>1 DEF Clean, Pos
<1>4. ops = <<>> /\ bkp = <<>> /\ before = <<>> /\ left = 0 /\ pc = "running" /\ copied = 0
      /\ cloneWorks \in BOOLEAN
  BY DEF Init
<1>5. TypeOK
  BY <1>2, <1>4 DEF TypeOK
<1>6. FilesClean
  BY <1>2, <1>3, <1>4 DEF FilesClean
<1>7. History /\ Backups /\ RollbackExact
  BY <1>4 DEF History, Backups, RollbackExact
<1> QED
  BY <1>5, <1>6, <1>7 DEF UndoInv

(* A step that begins no WRITE leaves the history as it is. *)
LEMMA SameHistory ==
    ASSUME UNCHANGED <<ops, before, cloneWorks>>, NEW k
    PROVE  Written(k)' = Written(k) /\ Restorable(k)' = Restorable(k)
BY DEF Written, Payload, Restorable, SizeBefore

(* Nor does it change what is said of a backup it leaves alone.            *)
LEMMA SameBackup ==
    ASSUME UNCHANGED <<ops, before, cloneWorks>>, NEW k, bkp'[k] = bkp[k]
    PROVE  BackupHolds(k)' = BackupHolds(k)
BY DEF BackupHolds

(* The backup file as txnfs_backup_file opens it.                          *)
LEMMA EmptyFileType == EmptyFile \in File /\ EmptyFile.size = 0
BY SizeAssumption DEF EmptyFile, File

(* BeginWrite extends the history by the file as it is.                    *)
LEMMA BeginWriteInv ==
    ASSUME UndoInv, NEW off \in 0 .. MaxSize, NEW len \in 0 .. MaxLen, BeginWrite(off, len)
    PROVE  UndoInv'
<1> USE SizeAssumption, LenAssumption
<1> DEFINE op == [off |-> off, len |-> len]
           n == Len(ops)
<1>1. /\ pc = "running" /\ pc' = "backup" /\ left = n /\ left' = left + 1 /\ n \in Nat
      /\ ops' = Append(ops, op) /\ before' = Append(before, file)
      /\ bkp' = Append(bkp, EmptyFile) /\ file' = file /\ copied' = copied
      /\ off + len <= MaxSize /\ cloneWorks' = cloneWorks /\ cloneWorks \in BOOLEAN
  BY DEF BeginWrite, UndoInv, History, TypeOK
<1>2. /\ ops \in Seq(Op) /\ bkp \in Seq(File) /\ before \in Seq(File) /\ file \in File
      /\ Len(bkp) = n /\ Len(before) = n /\ copied \in Nat
      /\ file.size <= MaxSize /\ Clean(file)
  BY <1>1 DEF UndoInv, TypeOK, FilesClean
<1>3. op \in Op
  BY DEF Op
<1>4. /\ ops' \in Seq(Op) /\ Len(ops') = n + 1 /\ ops'[n + 1] = op
      /\ \A k \in 1 .. n : ops'[k] = ops[k]
  BY <1>1, <1>2, <1>3
<1>5. /\ before' \in Seq(File) /\ Len(before') = n + 1 /\ before'[n + 1] = file
      /\ \A k \in 1 .. n : before'[k] = before[k]
  BY <1>1, <1>2
<1>6. /\ bkp' \in Seq(File) /\ Len(bkp') = n + 1 /\ bkp'[n + 1] = EmptyFile
      /\ \A k \in 1 .. n : bkp'[k] = bkp[k]
  BY <1>1, <1>2, EmptyFileType
<1>13. n \in Nat
  BY <1>1
<1> HIDE DEF n, op
<1>7. TypeOK'
  BY <1>1, <1>2, <1>4, <1>5, <1>6 DEF TypeOK
<1>8. FilesClean'
  <2>1. \A k \in 1 .. n : /\ before[k].size <= MaxSize /\ Clean(before[k])
                          /\ ops[k].off + ops[k].len <= MaxSize
                          /\ bkp[k].size <= MaxSize
    BY DEF UndoInv, FilesClean, n
  <2>2. ASSUME NEW k \in 1 .. n + 1
        PROVE  /\ before'[k].size <= MaxSize /\ Clean(before'[k])
               /\ ops'[k].off + ops'[k].len <= MaxSize
               /\ bkp'[k].size <= MaxSize
    <3>1. CASE k = n + 1
      BY <1>1, <1>2, <1>4, <1>5, <1>6, <3>1, EmptyFileType DEF op
    <3>2. CASE k \in 1 .. n
      BY <1>4, <1>5, <1>6, <2>1, <3>2
    <3>3. k = n + 1 \/ k \in 1 .. n
      BY <1>13
    <3> QED
      BY <3>1, <3>2, <3>3
  <2> QED
    BY <1>1, <1>2, <1>4, <2>2 DEF FilesClean, Clean
<1>9. ASSUME NEW k \in 1 .. n
      PROVE  /\ Written(k)' = Written(k)
             /\ Restorable(k)' = Restorable(k)
             /\ BackupHolds(k)' = BackupHolds(k)
  <2>1. ops'[k] = ops[k] /\ before'[k] = before[k] /\ bkp'[k] = bkp[k]
    BY <1>4, <1>5, <1>6
  <2> QED
    BY <1>1, <2>1 DEF Written, Payload, Restorable, SizeBefore, BackupHolds
<1>10. History'
  <2>1. ASSUME NEW k \in 1 .. n + 1, k + 1 \in 1 .. n + 1
        PROVE  before'[k + 1] = Written(k)'
    <3>1. k \in 1 .. n
      BY <1>1, <2>1
    <3>2. CASE k + 1 \in 1 .. n
      BY <1>5, <1>9, <3>1, <3>2 DEF UndoInv, History, n
    <3>3. CASE k = n
      BY <1>1, <1>5, <1>9, <3>1, <3>3 DEF UndoInv, History
    <3>4. k = n \/ k + 1 \in 1 .. n
      BY <1>13, <3>1
    <3> QED
      BY <3>2, <3>3, <3>4
  <2>2. file' = before'[left'] /\ left' > 0 /\ left' = Len(ops')
    BY <1>1, <1>4, <1>5
  <2> QED
    BY Zenon, <1>1, <1>4, <2>1, <2>2 DEF History
<1>11. Backups'
  <2>1. ASSUME NEW k \in 1 .. n + 1, BackedUp(k)', Restorable(k)'
        PROVE  BackupHolds(k)'
    <3>1. k \in 1 .. n
      BY <1>1, <2>1 DEF BackedUp
    <3>2. BackedUp(k)
      BY <1>1, <3>1 DEF BackedUp, n
    <3> QED
      BY <1>9, <2>1, <3>1, <3>2 DEF UndoInv, Backups, n
  <2> QED
    BY <1>1, <1>4, <1>6, <2>1 DEF Backups
<1>12. RollbackExact'
  BY <1>1 DEF RollbackExact
<1> QED
  BY <1>7, <1>8, <1>10, <1>11, <1>12 DEF UndoInv

(* The steps between the backup and the WRITE change neither the file nor  *)
(* the history; they leave the backups as Backups asks for.                *)
LEMMA BackupStep ==
    ASSUME UndoInv, UNCHANGED <<file, ops, before, left, cloneWorks>>,
           pc \in {"backup", "copying"}, pc' \in {"backup", "copying", "writing"},
           copied' \in Nat, bkp' \in Seq(File), Len(bkp') = Len(ops),
           \A k \in 1 .. Len(ops) : k # left => bkp'[k] = bkp[k],
           bkp'[left].size <= MaxSize,
           pc' = "writing" /\ Restorable(left) => BackupHolds(left)',
           pc' = "backup" => bkp'[left] = EmptyFile,
           pc' = "copying" => /\ ~CloneAccepted(ops[left])
                              /\ ops[left].off < file.size
                              /\ copied' <= file.size - ops[left].off
                              /\ bkp'[left] = Extent(file, ops[left].off, copied')
    PROVE  UndoInv'
<1>1. TypeOK'
  BY DEF UndoInv, TypeOK
<1>2. FilesClean'
  BY DEF UndoInv, FilesClean, Clean
<1>3. \A k : Written(k)' = Written(k) /\ Restorable(k)' = Restorable(k)
  BY SameHistory
<1>4. History'
  <2>1. /\ \A k \in 1 .. Len(ops) : k + 1 \in 1 .. Len(ops) => before[k + 1] = Written(k)
        /\ left > 0 /\ file = before[left] /\ left = Len(ops)
    BY DEF UndoInv, History
  <2> QED
    BY <1>3, <2>1 DEF History
<1>5. Backups'
  <2>1. ASSUME NEW k \in 1 .. Len(ops), BackedUp(k)', Restorable(k)'
        PROVE  BackupHolds(k)'
    <3>1. CASE k = left
      BY <1>3, <2>1, <3>1 DEF BackedUp
    <3>2. CASE k # left
      <4>1. BackupHolds(k)
        BY <1>3, <2>1, <3>2 DEF UndoInv, Backups, BackedUp
      <4> QED
        BY <3>2, <4>1, SameBackup
    <3> QED
      BY <3>1, <3>2
  <2>2. (ops[left].off < file.size)' <=> ops[left].off < file.size
    OBVIOUS
  <2> QED
    BY <2>1 DEF Backups, CloneAccepted
<1>6. RollbackExact'
  BY DEF RollbackExact
<1> QED
  BY <1>1, <1>2, <1>4, <1>5, <1>6 DEF UndoInv

(* The WRITE being executed is the last one, and the file is the one that  *)
(* it found.                                                               *)
LEMMA CurrentWrite ==
    ASSUME UndoInv, pc \in {"backup", "copying", "writing"}
    PROVE  /\ TypeOK /\ FilesClean
           /\ left \in 1 .. Len(ops) /\ left = Len(ops)
           /\ file = before[left] /\ file \in File
           /\ file.size \in 0 .. MaxSize /\ Clean(file)
           /\ ops[left] \in Op
           /\ ops[left].off \in Nat /\ ops[left].len \in Nat
           /\ bkp \in Seq(File) /\ Len(bkp) = Len(ops)
           /\ copied \in Nat
<1> USE SizeAssumption, LenAssumption
<1>1. TypeOK /\ FilesClean
  BY DEF UndoInv
<1>2. left > 0 /\ left = Len(ops) /\ file = before[left]
  BY DEF UndoInv, History
<1>3. left \in 1 .. Len(ops)
  BY <1>1, <1>2 DEF TypeOK
<1>4. ops[left] \in Op
  BY <1>1, <1>3, ElementTypes
<1>5. ops[left].off \in Nat /\ ops[left].len \in Nat
  BY <1>4 DEF Op
<1>6. /\ file \in File /\ bkp \in Seq(File) /\ Len(bkp) = Len(ops) /\ copied \in Nat
  BY <1>1 DEF TypeOK
<1>7. file.size <= MaxSize /\ Clean(file)
  BY <1>1 DEF FilesClean
<1>8. file.size \in 0 .. MaxSize
  BY <1>6, <1>7 DEF File
<1> QED
  BY <1>1, <1>2, <1>3, <1>4, <1>5, <1>6, <1>7, <1>8

(* A WRITE at or beyond the end of the file has an empty backup.           *)
LEMMA BackupNothingInv ==
    ASSUME UndoInv, BackupNothing
    PROVE  UndoInv'
<1> USE SizeAssumption
<1>1. /\ pc = "backup" /\ pc' = "writing" /\ ops[left].off >= file.size
      /\ UNCHANGED <<file, ops, bkp, before, left, copied, cloneWorks>>
  BY DEF BackupNothing, cur
<1>2. file = before[left] /\ bkp[left] = EmptyFile
  BY <1>1, CurrentWrite DEF UndoInv, Backups
<1>3. /\ ops[left].off \in Nat /\ file.size \in Nat
      /\ bkp \in Seq(File) /\ Len(bkp) = Len(ops) /\ copied \in Nat
  BY <1>1, CurrentWrite
<1>4. bkp[left].size = 0
  BY <1>2, EmptyFileType
<1>5. ASSUME Restorable(left) PROVE BackupHolds(left)'
  <2>1. ops[left].off = before[left].size
    BY <1>1, <1>2, <1>3, <1>5 DEF Restorable, SizeBefore
  <2>2. BackupHolds(left)
    BY <1>4, <2>1 DEF BackupHolds
  <2> QED
    BY <1>1, <2>2, SameBackup
<1>6. bkp'[left].size <= MaxSize
  BY <1>1, <1>4
<1> QED
  BY <1>1, <1>3, <1>5, <1>6, BackupStep

(* Every backup has the type of a file. *)
LEMMA RoundedInt ==
    ASSUME NEW op \in Op
    PROVE  SrcOffset(op) \in Int /\ CloneLength(op) \in Int
<1> USE PageAssumption, IntAssumption, SizeAssumption, LenAssumption
<1>1. 2 * IntLimit \in Nat \ {0}
  OBVIOUS
<1>2. ASSUME NEW n \in Int PROVE round_down(n) \in Int
  <2>1. as_int(n) \in Int
    BY <1>1 DEF as_int
  <2> QED
    BY <2>1 DEF round_down
<1>3. op.off \in Int /\ op.len \in Int
  BY DEF Op
<1>4. SrcOffset(op) \in Int
  BY <1>2, <1>3 DEF SrcOffset
<1>5. op.len + (op.off - SrcOffset(op)) \in Int
  BY <1>3, <1>4
<1> QED
  BY <1>2, <1>4, <1>5 DEF CloneLength, round_up

(* A backup by clone has the pages that the WRITE overwrites.              *)
LEMMA BackupByCloneInv ==
    ASSUME UndoInv, BackupByClone
    PROVE  UndoInv'
<1> USE SizeAssumption
<1> DEFINE op == ops[left]
           src == SrcOffset(op)
           n == BackupSize(op, file.size)
           b == vfs_clone2(file, src, EmptyFile, 0, n)
<1>1. /\ pc = "backup" /\ pc' = "writing" /\ op.off < file.size
      /\ cloneWorks /\ src >= 0
      /\ UNCHANGED <<file, ops, before, left, copied, cloneWorks>>
      /\ bkp' = [bkp EXCEPT ![left] = b]
  BY DEF BackupByClone, cur, CloneAccepted
<1>2. left \in 1 .. Len(ops) /\ file = before[left]
  BY <1>1, CurrentWrite
<1>3. /\ op \in Op /\ op.off \in Nat /\ op.len \in Nat /\ file \in File
      /\ file.size \in 0 .. MaxSize /\ Clean(file)
      /\ bkp \in Seq(File) /\ Len(bkp) = Len(ops) /\ copied \in Nat
  BY <1>1, CurrentWrite
<1>4. src \in Nat /\ CloneLength(op) \in Int
  BY <1>1, <1>3, RoundedInt
<1> HIDE DEF src
<1>5. n \in Int
  BY <1>3, <1>4 DEF BackupSize, src
<1>6. b \in File
  BY <1>3, <1>4, <1>5, CloneType, EmptyFileType
<1>7. b.size = file.size
  BY DEF vfs_clone2
<1>8. /\ bkp' \in Seq(File) /\ Len(bkp') = Len(ops) /\ bkp'[left] = b
      /\ \A k \in 1 .. Len(ops) : k # left => bkp'[k] = bkp[k]
  BY <1>1, <1>2, <1>3, <1>6
<1>9. ASSUME Restorable(left) PROVE BackupHolds(left)'
  <2>1. n = file.size - src
    <3>1. src + CloneLength(op) >= file.size
      BY <1>1, <1>2, <1>9 DEF Restorable, SizeBefore, BackupEnd, src
    <3> QED
      BY <1>3, <1>4, <3>1 DEF BackupSize, src
  <2> HIDE DEF n
  <2>2. ASSUME NEW i \in Pos
        PROVE  b.data[i] = IF src + i < file.size THEN file.data[src + i] ELSE 0
    <3>1. i \in Nat /\ (i < n <=> src + i < file.size)
      BY <1>3, <1>4, <2>1 DEF Pos
    <3>2. src + i < file.size => src + i \in Pos /\ i < file.size
      BY <1>3, <1>4, <3>1 DEF Pos
    <3>3. b.data[i] = IF i >= file.size THEN 0
                      ELSE IF 0 <= i /\ i < 0 + n
                        THEN IF src + (i - 0) \in Pos THEN file.data[src + (i - 0)] ELSE 0
                      ELSE IF i < EmptyFile.size THEN EmptyFile.data[i] ELSE 0
      BY CloneBytes
    <3>4. i - 0 = i /\ 0 + n = n /\ 0 <= i
      BY <1>5, <3>1 DEF n
    <3>5. EmptyFile.size = 0 /\ ~(i < 0)
      BY <3>1 DEF EmptyFile
    <3>6. CASE src + i < file.size
      BY <1>3, <3>1, <3>2, <3>3, <3>4, <3>6
    <3>7. CASE ~(src + i < file.size)
      BY <1>3, <3>1, <3>3, <3>4, <3>5, <3>7
    <3> QED
      BY <3>6, <3>7
  <2> HIDE DEF b
  <2>3. BackupHolds(left)' <=>
          \/ op.off = file.size /\ b.size = 0
          \/ /\ op.off < file.size /\ cloneWorks
             /\ b.size = file.size
             /\ \A i \in Pos : b.data[i] =
                   IF src + i < file.size THEN file.data[src + i] ELSE 0
          \/ /\ op.off < file.size /\ ~cloneWorks
             /\ b.size > 0 /\ b.size <= file.size - op.off
             /\ op.len <= b.size \/ b.size = file.size - op.off
             /\ \A i \in Pos : i < b.size => b.data[i] = file.data[op.off + i]
    BY <1>1, <1>2, <1>8 DEF BackupHolds, src
  <2> QED
    BY <1>1, <1>7, <2>2, <2>3
<1>10. bkp'[left].size <= MaxSize
  BY SMTT(20), <1>3, <1>7, <1>8
<1> HIDE DEF b, n
<1> QED
  BY <1>1, <1>3, <1>8, <1>9, <1>10, BackupStep

(* A backup by copy begins with nothing copied.                            *)
LEMMA BackupByCopyInv ==
    ASSUME UndoInv, BackupByCopy
    PROVE  UndoInv'
<1> USE SizeAssumption
<1>1. /\ pc = "backup" /\ pc' = "copying" /\ ops[left].off < file.size
      /\ ~CloneAccepted(ops[left]) /\ copied' = 0
      /\ UNCHANGED <<file, ops, bkp, before, left, cloneWorks>>
  BY DEF BackupByCopy, cur
<1>2. /\ ops[left].off \in Nat /\ file.size \in Nat
      /\ bkp \in Seq(File) /\ Len(bkp) = Len(ops)
  BY <1>1, CurrentWrite
<1>3. bkp[left] = EmptyFile
  BY <1>1 DEF UndoInv, Backups
<1>4. EmptyFile = Extent(file, ops[left].off, 0)
  BY DEF EmptyFile, Extent, Pos
<1>5. bkp'[left].size <= MaxSize /\ 0 <= file.size - ops[left].off
  BY <1>1, <1>2, <1>3, EmptyFileType
<1> QED
  BY <1>1, <1>2, <1>3, <1>4, <1>5, BackupStep

(* A splice never moves more than what is left of the source. *)
LEMMA SpliceBound ==
    ASSUME NEW c \in Nat, NEW n \in Int, NEW fs \in Nat, NEW off \in Nat,
           c < n, c <= fs - off
    PROVE  /\ c + Smaller(Smaller(Chunk, n - c), fs - (off + c)) \in Nat
           /\ c + Smaller(Smaller(Chunk, n - c), fs - (off + c)) <= fs - off
BY ChunkAssumption DEF Smaller

(* What splice_fcopy copied when it returns. *)
LEMMA SpliceDone ==
    ASSUME NEW c \in Nat, NEW fs \in Nat, NEW off \in Nat, NEW len \in Nat,
           NEW src \in Nat, NEW cl \in Nat,
           src <= off, src + cl > off + len, off < fs, c <= fs - off,
           c >= IF src + cl \in 0 .. fs THEN cl ELSE fs - src
    PROVE  c > 0 /\ (len <= c \/ c = fs - off)
OBVIOUS

(* Each splice leaves a copy of what it has reached in the source.         *)
LEMMA SpliceStepInv ==
    ASSUME UndoInv, SpliceStep
    PROVE  UndoInv'
<1> USE SizeAssumption, ChunkAssumption
<1> DEFINE op == ops[left]
           n == BackupSize(op, file.size)
           e == Extent(file, op.off, copied')
<1>1. /\ pc = "copying" /\ pc' = pc /\ copied < n
      /\ copied' = copied + Smaller(Smaller(Chunk, n - copied), file.size - (op.off + copied))
      /\ bkp' = [bkp EXCEPT ![left] = e]
      /\ UNCHANGED <<file, ops, before, left, cloneWorks>>
  BY DEF SpliceStep, cur
<1>2. left \in 1 .. Len(ops)
  BY <1>1, CurrentWrite
<1>3. /\ op \in Op /\ op.off \in Nat /\ op.len \in Nat /\ file \in File
      /\ file.size \in 0 .. MaxSize
      /\ bkp \in Seq(File) /\ Len(bkp) = Len(ops) /\ copied \in Nat
  BY <1>1, CurrentWrite
<1>4. /\ ~CloneAccepted(op) /\ op.off < file.size /\ copied <= file.size - op.off
  BY <1>1 DEF UndoInv, Backups
<1>5. n \in Int
  BY <1>3, RoundedInt DEF BackupSize
<1> HIDE DEF n
<1>6. copied' \in Nat /\ copied' <= file.size - op.off
  <2>1. file.size \in Nat /\ copied \in Nat /\ op.off \in Nat
    BY <1>3
  <2> QED
    BY Zenon, <1>1, <1>4, <1>5, <2>1, SpliceBound
<1>7. e \in File /\ e.size = copied'
  <2>1. copied' \in 0 .. 2 * MaxSize
    BY <1>3, <1>6
  <2>2. e \in File
    BY <1>3, <2>1, ExtentType
  <2>3. e.size = copied'
    BY DEF Extent
  <2> QED
    BY <2>2, <2>3
<1> HIDE DEF e
<1>8. /\ bkp' \in Seq(File) /\ Len(bkp') = Len(ops) /\ bkp'[left] = e
      /\ \A k \in 1 .. Len(ops) : k # left => bkp'[k] = bkp[k]
  BY <1>1, <1>2, <1>3, <1>7
<1>9. bkp'[left].size <= MaxSize
  BY <1>3, <1>6, <1>7, <1>8
<1> QED
  BY <1>1, <1>4, <1>6, <1>8, <1>9, BackupStep DEF e

(* When splice_fcopy returns, the backup has every byte that the WRITE     *)
(* overwrites, or all bytes to the end of the file.                        *)
LEMMA SpliceReturnsInv ==
    ASSUME UndoInv, SpliceReturns
    PROVE  UndoInv'
<1> USE SizeAssumption
<1> DEFINE op == ops[left]
           n == BackupSize(op, file.size)
           b == bkp[left]
<1>1. /\ pc = "copying" /\ pc' = "writing" /\ copied >= n
      /\ UNCHANGED <<file, ops, bkp, before, left, copied, cloneWorks>>
  BY DEF SpliceReturns, cur
<1>2. left \in 1 .. Len(ops) /\ file = before[left] /\ TypeOK /\ FilesClean
  BY <1>1, CurrentWrite
<1>3. /\ op \in Op /\ op.off \in Nat /\ op.len \in Nat /\ file \in File
      /\ file.size \in 0 .. MaxSize
      /\ bkp \in Seq(File) /\ Len(bkp) = Len(ops) /\ copied \in Nat
  BY <1>1, CurrentWrite
<1>4. /\ ~CloneAccepted(op) /\ op.off < file.size /\ copied <= file.size - op.off
      /\ b = Extent(file, op.off, copied)
  BY <1>1 DEF UndoInv, Backups
<1>5. ASSUME Restorable(left) PROVE BackupHolds(left)'
  <2>1. op.off < IntLimit
    BY <1>5 DEF Restorable
  <2>2. /\ SrcOffset(op) \in Nat /\ SrcOffset(op) <= op.off /\ CloneLength(op) \in Nat
        /\ SrcOffset(op) + CloneLength(op) > op.off + op.len
    BY <1>3, <2>1, BackupRange
  <2>3. ~cloneWorks
    BY <1>4, <2>2 DEF CloneAccepted
  <2>4. copied > 0 /\ (op.len <= copied \/ copied = file.size - op.off)
    <3>1. copied >= IF SrcOffset(op) + CloneLength(op) \in 0 .. file.size
                      THEN CloneLength(op) ELSE file.size - SrcOffset(op)
      BY <1>1 DEF BackupSize
    <3>2. file.size \in Nat /\ copied \in Nat /\ op.off \in Nat /\ op.len \in Nat
      BY <1>3
    <3> QED
      BY <1>4, <2>2, <3>1, <3>2, SpliceDone
  <2>5. b.size = copied
    BY <1>4 DEF Extent
  <2>6. ASSUME NEW i \in Pos, i < b.size PROVE b.data[i] = file.data[op.off + i]
    <3>1. op.off + i \in Pos
      BY SMTT(20), <1>3, <1>4, <2>5, <2>6 DEF Pos
    <3> QED
      BY <1>4, <2>5, <2>6, <3>1, ExtentBytes
  <2>7. BackupHolds(left)
    BY <1>2, <1>4, <2>3, <2>4, <2>5, <2>6 DEF BackupHolds
  <2> QED
    BY <1>1, <2>7, SameBackup
<1>6. bkp'[left].size <= MaxSize
  BY <1>1, <1>2 DEF FilesClean
<1> QED
  BY <1>1, <1>3, <1>5, <1>6, BackupStep

(* The WRITE leaves the file that the history says it leaves.              *)
LEMMA WriteInv ==
    ASSUME UndoInv, Write
    PROVE  UndoInv'
<1> USE SizeAssumption
<1>1. /\ pc = "writing" /\ pc' = "running"
      /\ file' = Overlay(file, ops[left].off, Payload(left))
      /\ UNCHANGED <<ops, bkp, before, left, copied, cloneWorks>>
  BY DEF Write, cur
<1>2. /\ left \in 1 .. Len(ops) /\ left = Len(ops) /\ file = before[left]
      /\ TypeOK /\ FilesClean
  BY <1>1, CurrentWrite
<1>3. file' = Written(left)
  BY <1>1, <1>2 DEF Written
<1>4. Written(left) \in File /\ Clean(Written(left)) /\ Written(left).size <= MaxSize
  BY <1>2, WrittenBytes
<1>5. \A k : Written(k)' = Written(k) /\ Restorable(k)' = Restorable(k)
  BY <1>1, SameHistory
<1>6. TypeOK'
  BY <1>1, <1>2, <1>3, <1>4 DEF TypeOK
<1>7. FilesClean'
  <2>1. Clean(file') /\ file'.size <= MaxSize
    BY <1>3, <1>4
  <2> QED
    BY <1>1, <1>2, <2>1 DEF FilesClean, Clean
<1>8. History'
  <2>1. \A k \in 1 .. Len(ops) : k + 1 \in 1 .. Len(ops) => before[k + 1] = Written(k)
    BY DEF UndoInv, History
  <2> QED
    BY <1>1, <1>2, <1>3, <1>5, <2>1 DEF History
<1>9. Backups'
  <2>1. ASSUME NEW k \in 1 .. Len(ops), Restorable(k)
        PROVE  BackupHolds(k)'
    <3>1. BackupHolds(k)
      BY <1>1, <2>1 DEF UndoInv, Backups, BackedUp
    <3> QED
      BY <1>1, <3>1, SameBackup
  <2> QED
    BY <1>1, <1>5, <2>1 DEF Backups
<1>10. RollbackExact'
  BY <1>1 DEF RollbackExact
<1> QED
  BY <1>6, <1>7, <1>8, <1>9, <1>10 DEF UndoInv

(* When the compound fails, the file is the one its last WRITE left.       *)
LEMMA CompoundFailsInv ==
    ASSUME UndoInv, CompoundFails
    PROVE  UndoInv'
<1>1. /\ pc = "running" /\ pc' = "undoing"
      /\ UNCHANGED <<file, ops, bkp, before, left, copied, cloneWorks>>
  BY DEF CompoundFails
<1>2. left = Len(ops) /\ left \in Nat
  BY <1>1 DEF UndoInv, History, TypeOK
<1>3. \A k : Written(k)' = Written(k) /\ Restorable(k)' = Restorable(k)
  BY <1>1, SameHistory
<1>4. TypeOK' /\ FilesClean'
  BY <1>1 DEF UndoInv, TypeOK, FilesClean, Clean
<1>5. History'
  BY <1>1, <1>2, <1>3 DEF UndoInv, History
<1>6. Backups'
  <2>1. ASSUME NEW k \in 1 .. Len(ops), Restorable(k)
        PROVE  BackupHolds(k)'
    <3>1. BackupHolds(k)
      BY <1>1, <2>1 DEF UndoInv, Backups, BackedUp
    <3> QED
      BY <1>1, <3>1, SameBackup
  <2> QED
    BY <1>1, <1>3, <2>1 DEF Backups
<1>7. RollbackExact'
  BY <1>1, <1>2 DEF RollbackExact
<1> QED
  BY <1>4, <1>5, <1>6, <1>7 DEF UndoInv

(* Undoing a WRITE, Restorable or not, leaves a file. *)
LEMMA UndoType ==
    ASSUME UndoInv, undo_write
    PROVE  file' \in File /\ left \in 1 .. Len(ops)
<1> USE SizeAssumption, LenAssumption
<1> DEFINE op == ops[left]
           b == bkp[left]
           t == Target(op, b)
<1>1. left > 0 /\ TypeOK /\ FilesClean
  BY DEF undo_write, UndoNothing, UndoByClone, UndoByCopy, UndoInv
<1>2. left \in 1 .. Len(ops)
  BY <1>1 DEF TypeOK
<1>3. op \in Op /\ b \in File /\ file \in File
  BY <1>1, <1>2, ElementTypes DEF TypeOK
<1>4. op.off \in 0 .. MaxSize /\ op.off \in Nat
  BY <1>3 DEF Op
<1>5. b.size \in 0 .. MaxSize
  <2>1. b.size <= MaxSize
    BY <1>1, <1>2 DEF FilesClean
  <2> QED
    BY <1>3, <2>1 DEF File
<1>6. op.off + b.size \in 0 .. 2 * MaxSize
  BY <1>4, <1>5
<1>7. t \in File
  BY <1>3, <1>6, TruncateType DEF Target
<1> HIDE DEF t
<1>8. CASE UndoNothing
  BY <1>2, <1>7, <1>8 DEF UndoNothing, cur, curBkp, t
<1>9. CASE UndoByClone
  <2>1. SrcOffset(op) >= 0 /\ file' = vfs_clone2(b, 0, t, SrcOffset(op), b.size)
    BY <1>9 DEF UndoByClone, cur, curBkp, t, CloneAccepted
  <2>2. SrcOffset(op) \in Nat /\ 0 \in Int /\ b.size \in Int
    BY <1>3, <1>5, <2>1, RoundedInt
  <2> QED
    BY Zenon, <1>2, <1>3, <1>7, <2>1, <2>2, CloneType
<1>10. CASE UndoByCopy
  <2>1. file' = Overlay(t, op.off, b)
    BY <1>10 DEF UndoByCopy, cur, curBkp, t
  <2>2. op.off + b.size <= 2 * MaxSize
    BY <1>6
  <2> QED
    BY <1>2, <1>3, <1>4, <1>7, <2>1, <2>2, OverlayType
<1> QED
  BY <1>2, <1>8, <1>9, <1>10 DEF undo_write

(* Undoing the last WRITE leads back to the one before it.                 *)
LEMMA UndoWriteInv ==
    ASSUME UndoInv, undo_write
    PROVE  UndoInv'
<1>1. /\ UndoNothing \/ UndoByClone \/ UndoByCopy
      /\ left' = left - 1 /\ UNCHANGED <<ops, bkp, before, pc, copied, cloneWorks>>
      /\ TypeOK /\ FilesClean /\ Len(ops) \in Nat
  BY DEF undo_write, UndoInv, TypeOK
<1>2. pc = "undoing"
  BY <1>1 DEF UndoNothing, UndoByClone, UndoByCopy
<1>3. file' \in File /\ left \in 1 .. Len(ops)
  BY UndoType
<1>4. \A k : Written(k)' = Written(k) /\ Restorable(k)' = Restorable(k)
  BY <1>1, SameHistory
<1>5. left' \in 0 .. Len(ops) /\ left' < Len(ops)
  BY <1>1, <1>3
<1>6. TypeOK'
  BY <1>1, <1>3, <1>5 DEF TypeOK
<1>7. FilesClean'
  BY <1>1, <1>2 DEF FilesClean, Clean
<1>8. History'
  <2>1. \A k \in 1 .. Len(ops) : k + 1 \in 1 .. Len(ops) => before[k + 1] = Written(k)
    BY DEF UndoInv, History
  <2> QED
    BY <1>1, <1>2, <1>4, <1>5, <2>1 DEF History
<1>9. ASSUME NEW k \in 1 .. Len(ops), Restorable(k) PROVE BackupHolds(k)
  BY <1>2, <1>9 DEF UndoInv, Backups, BackedUp
<1>10. Backups'
  <2>1. ASSUME NEW k \in 1 .. Len(ops), Restorable(k)
        PROVE  BackupHolds(k)'
    BY <1>1, <1>9, <2>1, SameBackup
  <2> QED
    BY <1>1, <1>2, <1>4, <2>1 DEF Backups
<1>11. RollbackExact'
  <2> SUFFICES ASSUME \A k \in 1 .. Len(ops) : k > left - 1 => Restorable(k)
               PROVE  file' = before[left]
    <3>1. left' + 1 = left
      BY <1>1, <1>3
    <3> QED
      BY <1>1, <1>4, <3>1 DEF RollbackExact
  <2>1. Restorable(left) /\ BackupHolds(left)
    BY <1>3, <1>9
  <2>2. file = Written(left)
    <3>1. CASE left = Len(ops)
      BY <1>2, <1>3, <3>1 DEF UndoInv, History
    <3>2. CASE left < Len(ops)
      <4>1. left + 1 \in 1 .. Len(ops) /\ before[left + 1] = Written(left)
        BY <1>1, <1>3, <3>2 DEF UndoInv, History
      <4>2. \A k \in 1 .. Len(ops) : k > left => Restorable(k)
        BY <1>3
      <4> QED
        BY <1>2, <3>2, <4>1, <4>2 DEF UndoInv, RollbackExact
    <3> QED
      BY <1>1, <1>3, <3>1, <3>2
  <2> QED
    BY <1>1, <1>3, <2>1, <2>2, UndoRestores
<1> QED
  BY <1>6, <1>7, <1>8, <1>10, <1>11 DEF UndoInv

(* Nothing changes when nothing happens.                                   *)
LEMMA StutterInv == UndoInv /\ UNCHANGED vars => UndoInv'
<1> SUFFICES ASSUME UndoInv, UNCHANGED vars PROVE UndoInv'
  OBVIOUS
<1>1. UNCHANGED <<file, ops, bkp, before, left, pc, copied, cloneWorks>>
  BY DEF vars
<1>2. \A k : /\ Written(k)' = Written(k) /\ Restorable(k)' = Restorable(k)
             /\ BackupHolds(k)' = BackupHolds(k) /\ BackedUp(k)' = BackedUp(k)
  BY <1>1, SameHistory, SameBackup DEF BackedUp
<1>3. TypeOK' /\ FilesClean'
  BY <1>1 DEF UndoInv, TypeOK, FilesClean, Clean
<1>4. History' /\ RollbackExact'
  BY <1>1, <1>2 DEF UndoInv, History, RollbackExact
<1>5. Backups'
  BY <1>1, <1>2 DEF UndoInv, Backups, CloneAccepted
<1> QED
  BY <1>3, <1>4, <1>5 DEF UndoInv

(* The inductive invariant: files, history, backups and exact rollback of  *)
(* the compound's WRITEs (txnfs_backup_file, restore_data).                *)
THEOREM WriteUndoInvariant == Spec => []UndoInv
<1>1. UndoInv /\ [Next]_vars => UndoInv'
  BY BeginWriteInv, BackupNothingInv, BackupByCloneInv, BackupByCopyInv,
     SpliceStepInv, SpliceReturnsInv, WriteInv, CompoundFailsInv, UndoWriteInv,
     StutterInv DEF Next
<1> QED
  BY <1>1, InitInv, PTL DEF Spec

(* undo_write brings the file back, byte for byte and in its size, for any *)
(* page size, chunk, file size and number of WRITEs, with clone and        *)
(* without, as long as the WRITEs it undoes are Restorable.                *)
THEOREM RollbackIsExact == Spec => []RollbackExact
<1>1. UndoInv => RollbackExact
  BY DEF UndoInv
<1> QED
  BY <1>1, WriteUndoInvariant, PTL

(* The types of the file, of the backups and of the history. *)
THEOREM WriteUndoTypeCorrect == Spec => []TypeOK
<1>1. UndoInv => TypeOK
  BY DEF UndoInv
<1> QED
  BY <1>1, WriteUndoInvariant, PTL
=============================================================================
