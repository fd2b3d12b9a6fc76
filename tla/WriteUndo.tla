----------------------------- MODULE WriteUndo ------------------------------
(***************************************************************************)
(* Backing up the bytes that a WRITE overwrites, and putting them back     *)
(* when the compound fails: txnfs_backup_file (FSAL_TXN/backup.c),         *)
(* restore_data and dispatch_undoer (FSAL_TXN/undo.c) over the clone2 and  *)
(* copy operations of FSAL_VFS.  One compound writes one file; the path    *)
(* lock on the file keeps other compounds away.                            *)
(*                                                                         *)
(* A file is its size and its bytes, zero beyond the size.  `ops' are the  *)
(* WRITEs that have begun, `bkp' their backup files and `before' the file  *)
(* when each began, kept only to state the properties.  `left' is how many *)
(* of them are not undone, and `copied' the local variable of              *)
(* splice_fcopy.  `cloneWorks' tells whether the file system supports      *)
(* FICLONERANGE: it does or it does not, and that never changes.           *)
(***************************************************************************)
EXTENDS Integers, Sequences

CONSTANTS
    PageSize,      \* 4096, the block size that a clone is aligned to
    IntLimit,      \* INT_MAX + 1: round_down and round_up take an int
    Chunk,         \* the bytes that one splice moves at most
    MaxSize,       \* bound on the size of the file
    MaxLen,        \* bound on the length of a WRITE
    MaxWrites      \* bound on the WRITEs of the compound

ASSUME PageAssumption == PageSize \in Nat \ {0}
ASSUME ChunkAssumption == Chunk \in Nat \ {0}
ASSUME SizeAssumption == MaxSize \in Nat
ASSUME LenAssumption == MaxLen \in Nat /\ MaxWrites \in Nat
ASSUME IntAssumption == IntLimit \in Nat /\ MaxLen + PageSize < IntLimit

VARIABLES file, ops, bkp, before, left, pc, copied, cloneWorks

vars == <<file, ops, bkp, before, left, pc, copied, cloneWorks>>

-----------------------------------------------------------------------------
(* Files.  A rollback that goes wrong can leave one of twice the size. *)

Pos == 0 .. 2 * MaxSize - 1

File == [size : 0 .. 2 * MaxSize, data : [Pos -> Nat]]

(* The offset and the length of a WRITE. *)
Op == [off : 0 .. MaxSize, len : 0 .. MaxLen]

Larger(a, b) == IF a < b THEN b ELSE a

Smaller(a, b) == IF a < b THEN a ELSE b

(* n bytes of f from offset `from'. *)
Extent(f, from, n) ==
    [size |-> n,
     data |-> [i \in Pos |-> IF i < n /\ from + i \in Pos THEN f.data[from + i] ELSE 0]]

(* f with the bytes of g written at offset `at'. *)
Overlay(f, at, g) ==
    [size |-> IF g.size = 0 THEN f.size ELSE Larger(f.size, at + g.size),
     data |-> [i \in Pos |-> IF at <= i /\ i < at + g.size
                               THEN g.data[i - at] ELSE f.data[i]]]

(* truncate_file, and the size part of vfs_setattr2. *)
truncate_file(f, n) ==
    [size |-> n, data |-> [i \in Pos |-> IF i < n /\ i < f.size THEN f.data[i] ELSE 0]]

(* vfs_clone2: the range is cloned, and then all of the source's           *)
(* attributes, its size included, are set on the destination.              *)
vfs_clone2(src, from, dst, at, n) ==
    [size |-> src.size,
     data |-> [i \in Pos |->
                 IF i >= src.size THEN 0
                 ELSE IF at <= i /\ i < at + n
                   THEN IF from + (i - at) \in Pos THEN src.data[from + (i - at)] ELSE 0
                 ELSE IF i < dst.size THEN dst.data[i] ELSE 0]]

-----------------------------------------------------------------------------
(* The conversion of an offset to int. *)
as_int(n) ==
    IF n % (2 * IntLimit) < IntLimit
      THEN n % (2 * IntLimit)
      ELSE (n % (2 * IntLimit)) - 2 * IntLimit

(* C's division truncates towards zero. *)
round_down(n) ==
    IF as_int(n) >= 0
      THEN PageSize * (as_int(n) \div PageSize)
      ELSE -(PageSize * ((-as_int(n)) \div PageSize))

round_up(n) == round_down(n) + PageSize

(* What txnfs_backup_file asks for: `sz' bytes from `src'.  The sum is     *)
(* unsigned: a negative one exceeds every file size.                       *)
SrcOffset(op) == round_down(op.off)

CloneLength(op) == round_up(op.len + (op.off - SrcOffset(op)))

(* Fault: the size is not cut at the end of the file. *)
BackupSizeUncapped(op, fs) == CloneLength(op)

BackupSize(op, fs) ==
    IF SrcOffset(op) + CloneLength(op) \in 0 .. fs
      THEN CloneLength(op)
      ELSE fs - SrcOffset(op)

-----------------------------------------------------------------------------
EmptyFile == [size |-> 0, data |-> [i \in Pos |-> 0]]

(* Bytes are told apart by where they come from: the file's own, and those *)
(* of each WRITE.                                                          *)
Init ==
    /\ \E n \in 0 .. MaxSize :
         file = [size |-> n, data |-> [i \in Pos |-> IF i < n THEN i + 1 ELSE 0]]
    /\ ops = <<>>
    /\ bkp = <<>>
    /\ before = <<>>
    /\ left = 0
    /\ pc = "running"
    /\ copied = 0
    /\ cloneWorks \in BOOLEAN

(* The WRITE being executed or undone, and its backup file. *)
cur == ops[left]

curBkp == bkp[left]

(* A WRITE begins: txnfs_backup_nfs4_op calls txnfs_backup_file, which     *)
(* creates the backup file.                                                *)
BeginWrite(off, len) ==
    /\ pc = "running"
    /\ Len(ops) < MaxWrites
    /\ off + len <= MaxSize
    /\ ops' = Append(ops, [off |-> off, len |-> len])
    /\ before' = Append(before, file)
    /\ bkp' = Append(bkp, EmptyFile)
    /\ left' = left + 1
    /\ pc' = "backup"
    /\ UNCHANGED <<file, copied, cloneWorks>>

(* There is nothing to back up at the end of the file or beyond it. *)
BackupNothing ==
    /\ pc = "backup"
    /\ cur.off >= file.size
    /\ pc' = "writing"
    /\ UNCHANGED <<file, ops, bkp, before, left, copied, cloneWorks>>

CloneAccepted(op) == cloneWorks /\ SrcOffset(op) >= 0

BackupByClone ==
    /\ pc = "backup"
    /\ cur.off < file.size
    /\ CloneAccepted(cur)
    /\ bkp' = [bkp EXCEPT ![left] =
                 vfs_clone2(file, SrcOffset(cur), EmptyFile, 0, BackupSize(cur, file.size))]
    /\ pc' = "writing"
    /\ UNCHANGED <<file, ops, before, left, copied, cloneWorks>>

(* The clone fails: fsal_copy copies as many bytes from the offset itself. *)
BackupByCopy ==
    /\ pc = "backup"
    /\ cur.off < file.size
    /\ ~CloneAccepted(cur)
    /\ copied' = 0
    /\ pc' = "copying"
    /\ UNCHANGED <<file, ops, bkp, before, left, cloneWorks>>

(* One turn of the loop of splice_fcopy; at the end of the source a splice *)
(* moves nothing.                                                          *)
SpliceStep ==
    /\ pc = "copying"
    /\ copied < BackupSize(cur, file.size)
    /\ copied' = copied + Smaller(Smaller(Chunk, BackupSize(cur, file.size) - copied),
                                  file.size - (cur.off + copied))
    /\ bkp' = [bkp EXCEPT ![left] = Extent(file, cur.off, copied')]
    /\ UNCHANGED <<file, ops, before, left, pc, cloneWorks>>

SpliceReturns ==
    /\ pc = "copying"
    /\ copied >= BackupSize(cur, file.size)
    /\ pc' = "writing"
    /\ UNCHANGED <<file, ops, bkp, before, left, copied, cloneWorks>>

(* The bytes of the k-th WRITE, which differ from all others. *)
Payload(k) ==
    [size |-> ops[k].len,
     data |-> [i \in Pos |-> IF i < ops[k].len THEN MaxSize + k ELSE 0]]

Write ==
    /\ pc = "writing"
    /\ file' = Overlay(file, cur.off, Payload(left))
    /\ pc' = "running"
    /\ UNCHANGED <<ops, bkp, before, left, copied, cloneWorks>>

(* A later operation of the compound fails, and do_txn_rollback collects   *)
(* the WRITEs.                                                             *)
CompoundFails ==
    /\ pc = "running"
    /\ pc' = "undoing"
    /\ UNCHANGED <<file, ops, bkp, before, left, copied, cloneWorks>>

(* The file after the truncation of restore_data. *)
Target(op, b) ==
    IF op.len > b.size THEN truncate_file(file, op.off + b.size) ELSE file

(* A clone whose last block is partial may be refused inside a file. *)
MayRefuse(op, b) ==
    (b.size % PageSize) # 0 /\ SrcOffset(op) + b.size < Target(op, b).size

(* restore_data, called by undo_write for the last WRITE that is left. *)
UndoNothing ==
    /\ pc = "undoing"
    /\ left > 0
    /\ curBkp.size = 0
    /\ file' = Target(cur, curBkp)

(* Fault: the backup is cloned to the offset of the WRITE. *)
UndoByCloneAtOffset ==
    /\ pc = "undoing"
    /\ left > 0
    /\ curBkp.size > 0
    /\ CloneAccepted(cur)
    /\ file' = vfs_clone2(curBkp, 0, Target(cur, curBkp), cur.off, curBkp.size)

UndoByClone ==
    /\ pc = "undoing"
    /\ left > 0
    /\ curBkp.size > 0
    /\ CloneAccepted(cur)
    /\ file' = vfs_clone2(curBkp, 0, Target(cur, curBkp), SrcOffset(cur), curBkp.size)

UndoByCopy ==
    /\ pc = "undoing"
    /\ left > 0
    /\ curBkp.size > 0
    /\ ~CloneAccepted(cur) \/ MayRefuse(cur, curBkp)
    /\ file' = Overlay(Target(cur, curBkp), cur.off, curBkp)

(* One turn of dispatch_undoer, which goes backwards. *)
undo_write ==
    /\ UndoNothing \/ UndoByClone \/ UndoByCopy
    /\ left' = left - 1
    /\ UNCHANGED <<ops, bkp, before, pc, copied, cloneWorks>>

Next ==
    \/ \E off \in 0 .. MaxSize, len \in 0 .. MaxLen : BeginWrite(off, len)
    \/ BackupNothing
    \/ BackupByClone
    \/ BackupByCopy
    \/ SpliceStep
    \/ SpliceReturns
    \/ Write
    \/ CompoundFails
    \/ undo_write

Spec == Init /\ [][Next]_vars

(* A thread that executes a compound keeps running; the client may add no  *)
(* further WRITE.                                                          *)
Fairness == WF_vars(BackupNothing \/ BackupByClone \/ BackupByCopy \/ SpliceStep
                      \/ SpliceReturns \/ Write)

FairSpec == Spec /\ Fairness

-----------------------------------------------------------------------------
(* The type invariant: in particular each WRITE that has begun has the     *)
(* backup file that txnfs_backup_file creates for it.                      *)
TypeOK ==
    /\ file \in File
    /\ left \in 0 .. Len(ops)
    /\ ops \in Seq(Op)
    /\ bkp \in Seq(File)
    /\ before \in Seq(File)
    /\ Len(bkp) = Len(ops) /\ Len(before) = Len(ops)
    /\ pc \in {"running", "backup", "copying", "writing", "undoing"}
    /\ copied \in Nat
    /\ cloneWorks \in BOOLEAN

(* The file when a WRITE begins, and the end of the pages it backs up. *)
SizeBefore(k) == before[k].size

BackupEnd(op) == SrcOffset(op) + CloneLength(op)

(* The WRITEs whose backup brings the file back.  The WRITE begins inside  *)
(* the file or right at its end, at an offset that an int holds.  A clone  *)
(* has to reach the end of the file, since the restored file has the bytes *)
(* of the backup file, zeros included, up to its end; and it must not be   *)
(* refused for a partial last block.                                       *)
Restorable(k) ==
    /\ ops[k].off <= SizeBefore(k)
    /\ ops[k].off < IntLimit
    /\ cloneWorks /\ ops[k].off < SizeBefore(k) =>
         /\ BackupEnd(ops[k]) >= SizeBefore(k)
         /\ \/ SizeBefore(k) % PageSize = 0
            \/ ops[k].off + ops[k].len <= SizeBefore(k)

(* dispatch_undoer brings the file back, byte for byte and in its size, to *)
(* what it was when each undone WRITE began, if they are restorable.       *)
RollbackExact ==
    pc = "undoing" /\ left < Len(ops)
        /\ (\A k \in 1 .. Len(ops) : k > left => Restorable(k)) =>
      file = before[left + 1]

(* The comment of undo_write, which rewrites the file with the backup: the *)
(* file is brought back when it has whole pages and whole pages of it were *)
(* overwritten.                                                            *)
PageRollbackExact ==
    (\A k \in 1 .. Len(ops) :
        /\ SizeBefore(k) % PageSize = 0
        /\ ops[k].off % PageSize = 0
        /\ ops[k].len % PageSize = 0
        /\ ops[k].off + ops[k].len <= SizeBefore(k)) =>
      (pc = "undoing" /\ left < Len(ops) => file = before[left + 1])

(* txnfs_backup_file returns, its loop of splices included, for a WRITE at *)
(* an aligned offset that an int holds.                                    *)
AlignedBackupReturns ==
    pc = "backup" /\ cur.off % PageSize = 0 /\ cur.off < IntLimit ~> pc = "running"
=============================================================================
