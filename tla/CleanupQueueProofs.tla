------------------------- MODULE CleanupQueueProofs -------------------------
(***************************************************************************)
(* Proofs about CleanupQueue, for any capacity, batch size and set of      *)
(* transactions: no backup folder is lost or released twice, and the ring  *)
(* implements the bounded queue of CleanupFifo.                            *)
(*                                                                         *)
(* The argument rests on where the tasks are.  The head is `size' slots    *)
(* after the tail, so that a push appends to Contents and a pop takes a    *)
(* prefix of it; and a task waits in one place only, in the ring or in the *)
(* worker's array, and only while its folder has not been released.        *)
(***************************************************************************)
EXTENDS CleanupQueue, SequenceTheorems, TLAPS

(* The head is where the next task goes: behind the tasks that wait. *)
RingConsistent == head = (tail + size) % Capacity

(* A task that waits is the worker's and its folder is not released yet. *)
Waits(t) == t \in Txn /\ task[t] = "handed" /\ released[t] = 0

TasksWait ==
    /\ \A i \in 1 .. size : Waits(Contents[i])
    /\ \A i \in 1 .. Len(buf) : Waits(buf[i])

(* A task waits in one place only. *)
TasksDistinct ==
    /\ \A i, j \in 1 .. size : Contents[i] = Contents[j] => i = j
    /\ \A i, j \in 1 .. Len(buf) : buf[i] = buf[j] => i = j
    /\ \A i \in 1 .. size : \A j \in 1 .. Len(buf) : Contents[i] # buf[j]

(* A compound that has not ended has not released its folder, and the      *)
(* worker has cleaned all of a batch before it pops the next.              *)
Phases ==
    /\ \A t \in Txn : task[t] \in {"running", "cleaning"} => released[t] = 0
    /\ pc = "popping" => buf = <<>>

CleanupInv ==
    /\ TypeOK
    /\ RingConsistent
    /\ TasksWait
    /\ TasksDistinct
    /\ Phases
    /\ ReleasedOnce
    /\ NoTaskLost

-----------------------------------------------------------------------------
(* Arithmetic of the ring. *)

(* Below twice the capacity, the remainder is a matter of one subtraction. *)
LEMMA ModBelowTwice ==
    ASSUME NEW C \in Nat \ {0}, NEW x \in Nat, x < C + C
    PROVE  x % C = IF x < C THEN x ELSE x - C
<1>1. CASE x < C
  BY <1>1, SMTT(30)
<1>2. CASE x >= C
  BY <1>2, SMTT(30)
<1> QED
  BY <1>1, <1>2

(* Two offsets below the capacity lead to the same slot only if equal. *)
LEMMA ModInjective ==
    ASSUME NEW C \in Nat \ {0}, NEW b \in 0 .. C - 1,
           NEW x \in 0 .. C - 1, NEW y \in 0 .. C - 1,
           (b + x) % C = (b + y) % C
    PROVE  x = y
<1> DEFINE u == b + x
           v == b + y
<1>1. u \in Nat /\ u < C + C /\ v \in Nat /\ v < C + C /\ u % C = v % C
  OBVIOUS
<1> HIDE DEF u, v
<1>2. u % C = (IF u < C THEN u ELSE u - C) /\ v % C = IF v < C THEN v ELSE v - C
  BY Zenon, <1>1, ModBelowTwice
<1> QED
  BY <1>1, <1>2 DEF u, v

(* Going k slots on and then x is going k + x slots on. *)
LEMMA ModShift ==
    ASSUME NEW C \in Nat \ {0}, NEW b \in 0 .. C - 1,
           NEW k \in 0 .. C, NEW x \in 0 .. C, k + x <= C
    PROVE  (((b + k) % C) + x) % C = (b + (k + x)) % C
<1> DEFINE u == b + k
           m == u % C
           v == m + x
           w == b + (k + x)
<1>1. u \in Nat /\ u < C + C /\ w \in Nat /\ w < C + C
  OBVIOUS
<1> HIDE DEF u, w
<1>2. m = IF u < C THEN u ELSE u - C
  BY Zenon, <1>1, ModBelowTwice
<1>3. w % C = IF w < C THEN w ELSE w - C
  BY Zenon, <1>1, ModBelowTwice
<1> HIDE DEF m
<1>4. v \in Nat /\ v < C + C /\ (v = w \/ (v = w - C /\ v < C))
  BY <1>1, <1>2 DEF u, w
<1> HIDE DEF v
<1>5. v % C = IF v < C THEN v ELSE v - C
  BY Zenon, <1>4, ModBelowTwice
<1>6. v % C = w % C
  BY <1>1, <1>3, <1>4, <1>5
<1> QED
  BY <1>6 DEF u, m, v, w

-----------------------------------------------------------------------------
(* What the operations do to the tasks that wait. *)

(* A slot that a task in the ring occupies. *)
LEMMA SlotType ==
    ASSUME TypeOK, NEW i \in 1 .. size
    PROVE  (tail + (i - 1)) % Capacity \in Slot
<1> DEFINE u == tail + (i - 1)
<1>1. u \in Nat /\ u < Capacity + Capacity
  BY CapacityAssumption DEF TypeOK, Slot
<1> HIDE DEF u
<1>2. u % Capacity = IF u < Capacity THEN u ELSE u - Capacity
  BY Zenon, <1>1, ModBelowTwice, CapacityAssumption
<1>3. u % Capacity \in Slot
  BY <1>1, <1>2, CapacityAssumption DEF Slot
<1> QED
  BY <1>3 DEF u

(* A push appends to the tasks that wait, and leaves the ring consistent.  *)
LEMMA PushAppends ==
    ASSUME TypeOK, RingConsistent, ~full, NEW t \in Txn, cleanup_push_txnid(t)
    PROVE  /\ Contents' = Append(Contents, t)
           /\ RingConsistent'
           /\ head' \in Slot
<1> USE CapacityAssumption
<1>1. size \in 0 .. Capacity - 1 /\ size' = size + 1 /\ tail' = tail /\ tail \in Slot
  BY DEF TypeOK, full, cleanup_push_txnid
<1>2. ASSUME NEW i \in 1 .. size
      PROVE  (tail + (i - 1)) % Capacity # head
  <2>1. i - 1 \in 0 .. Capacity - 1 /\ i - 1 # size
    BY <1>1
  <2> QED
    BY <1>1, <2>1, ModInjective DEF RingConsistent, Slot
<1>3. ASSUME NEW i \in 1 .. size
      PROVE  vec'[(tail + (i - 1)) % Capacity] = vec[(tail + (i - 1)) % Capacity]
  BY <1>2, SlotType DEF TypeOK, cleanup_push_txnid
<1>4. vec'[(tail + size) % Capacity] = t
  BY DEF RingConsistent, TypeOK, cleanup_push_txnid
<1>5. Contents' = [i \in 1 .. size + 1 |-> vec'[(tail + (i - 1)) % Capacity]]
  BY <1>1 DEF Contents
<1>6. Append(Contents, t) =
        [i \in 1 .. size + 1 |-> IF i = size + 1 THEN t ELSE Contents[i]]
  BY <1>1 DEF Contents
<1>7. ASSUME NEW i \in 1 .. size + 1
      PROVE  vec'[(tail + (i - 1)) % Capacity] = IF i = size + 1 THEN t ELSE Contents[i]
  <2>1. CASE i = size + 1
    <3>1. i - 1 = size
      BY <1>1, <2>1
    <3> QED
      BY <1>4, <2>1, <3>1
  <2>2. CASE i # size + 1
    BY <1>1, <1>3, <2>2 DEF Contents
  <2> QED
    BY <2>1, <2>2
<1>8. RingConsistent'
  <2>1. (((tail + size) % Capacity) + 1) % Capacity = (tail + (size + 1)) % Capacity
    BY <1>1, ModShift DEF Slot
  <2> QED
    BY <1>1, <2>1 DEF RingConsistent, cleanup_push_txnid, after
<1>9. head' \in Slot
  <2> DEFINE u == head + 1
  <2>1. u \in Nat /\ u < Capacity + Capacity
    BY DEF TypeOK, Slot
  <2> HIDE DEF u
  <2>2. u % Capacity = IF u < Capacity THEN u ELSE u - Capacity
    BY Zenon, <2>1, ModBelowTwice
  <2>3. u % Capacity \in Slot
    BY <2>1, <2>2 DEF Slot
  <2> QED
    BY <2>3 DEF u, cleanup_push_txnid, after
<1> QED
  BY <1>5, <1>6, <1>7, <1>8, <1>9

(* The tasks that wait are a sequence of the ring's entries. *)
LEMMA ContentsType ==
    ASSUME TypeOK
    PROVE  Contents \in Seq(Txn \cup {NoTxn}) /\ Len(Contents) = size
<1>1. ASSUME NEW i \in 1 .. size
      PROVE  vec[(tail + (i - 1)) % Capacity] \in Txn \cup {NoTxn}
  BY SlotType DEF TypeOK
<1>2. size \in Nat
  BY CapacityAssumption DEF TypeOK
<1> QED
  BY <1>1, <1>2 DEF Contents

(* A pop takes the oldest tasks, as many as the batch allows, leaves the   *)
(* others in their order and keeps the ring consistent.                    *)
LEMMA PopTakesPrefix ==
    ASSUME TypeOK, RingConsistent, cleanup_pop_many(BatchSize)
    PROVE  \E k \in 0 .. size :
             /\ k <= BatchSize
             /\ size' = size - k
             /\ buf' \in Seq(Txn \cup {NoTxn})
             /\ Len(buf') = k
             /\ \A i \in 1 .. k : buf'[i] = Contents[i]
             /\ \A i \in 1 .. size - k : Contents'[i] = Contents[k + i]
             /\ Contents = buf' \o Contents'
             /\ tail' \in Slot
             /\ RingConsistent'
<1> USE CapacityAssumption, BatchAssumption
<1> DEFINE k == IF BatchSize < size THEN BatchSize ELSE size
<1>1. /\ size \in 0 .. Capacity /\ tail \in Slot
      /\ k \in 0 .. size /\ k <= BatchSize
  BY DEF TypeOK
<1>2. /\ buf' = SubSeq(Contents, 1, k)
      /\ tail' = (tail + k) % Capacity
      /\ size' = size - k
      /\ vec' = vec
      /\ head' = head
  BY DEF cleanup_pop_many
<1> HIDE DEF k
<1>3. /\ buf' \in Seq(Txn \cup {NoTxn})
      /\ Len(buf') = k
      /\ \A i \in 1 .. k : buf'[i] = Contents[i]
  BY <1>1, <1>2, ContentsType
<1>4. ASSUME NEW i \in 1 .. size - k
      PROVE  Contents'[i] = Contents[k + i]
  <2>1. i - 1 \in 0 .. Capacity /\ k + (i - 1) <= Capacity /\ k \in 0 .. Capacity
    BY <1>1
  <2>2. (((tail + k) % Capacity) + (i - 1)) % Capacity = (tail + (k + (i - 1))) % Capacity
    BY <1>1, <2>1, ModShift DEF Slot
  <2>3. Contents'[i] = vec[(tail' + (i - 1)) % Capacity]
    BY <1>1, <1>2 DEF Contents
  <2>4. Contents[k + i] = vec[(tail + ((k + i) - 1)) % Capacity]
    BY <1>1 DEF Contents
  <2>5. (k + i) - 1 = k + (i - 1)
    BY <1>1
  <2> QED
    BY <1>2, <2>2, <2>3, <2>4, <2>5
<1>5. tail' \in Slot
  <2> DEFINE u == tail + k
  <2>1. u \in Nat /\ u < Capacity + Capacity
    BY <1>1 DEF Slot
  <2> HIDE DEF u
  <2>2. u % Capacity = IF u < Capacity THEN u ELSE u - Capacity
    BY Zenon, <2>1, ModBelowTwice
  <2>3. u % Capacity \in Slot
    BY <2>1, <2>2 DEF Slot
  <2> QED
    BY <1>2, <2>3 DEF u
<1>6. RingConsistent'
  <2>1. (((tail + k) % Capacity) + (size - k)) % Capacity = (tail + (k + (size - k))) % Capacity
    BY <1>1, ModShift DEF Slot
  <2>2. k + (size - k) = size
    BY <1>1
  <2> QED
    BY <1>2, <2>1, <2>2 DEF RingConsistent
<1>7. Contents = buf' \o Contents'
  <2>1. Contents' = [i \in 1 .. size - k |-> Contents[k + i]]
    BY Zenon, <1>2, <1>4 DEF Contents
  <2>3. Len(Contents') = size - k /\ Contents' \in Seq(Txn \cup {NoTxn})
    <3>1. ASSUME NEW i \in 1 .. size - k PROVE Contents[k + i] \in Txn \cup {NoTxn}
      <4>1. k + i \in 1 .. size
        BY <1>1
      <4> QED
        BY <4>1, SlotType DEF Contents, TypeOK
    <3>2. size - k \in Nat
      BY <1>1
    <3> QED
      BY <2>1, <3>1, <3>2
  <2>4. /\ buf' \o Contents' \in Seq(Txn \cup {NoTxn})
        /\ Len(buf' \o Contents') = size
        /\ \A i \in 1 .. size : (buf' \o Contents')[i] =
             IF i <= k THEN buf'[i] ELSE Contents'[i - k]
    <3>1. Len(buf') + Len(Contents') = size
      BY <1>1, <1>3, <2>3
    <3> QED
      BY Zenon, <1>3, <2>3, <3>1, ConcatProperties
  <2>5. ASSUME NEW i \in 1 .. size
        PROVE  Contents[i] = IF i <= k THEN buf'[i] ELSE Contents'[i - k]
    <3>1. CASE i <= k
      BY <1>1, <1>3, <3>1
    <3>2. CASE ~(i <= k)
      <4>1. i - k \in 1 .. size - k /\ k + (i - k) = i
        BY <1>1, <3>2
      <4> QED
        BY <1>4, <3>2, <4>1
    <3> QED
      BY <3>1, <3>2
  <2> QED
    BY Zenon, <2>4, <2>5, ContentsType, SeqEqual
<1> QED
  BY Zenon, <1>1, <1>2, <1>3, <1>4, <1>5, <1>6, <1>7

-----------------------------------------------------------------------------
(* The invariant. *)

(* Initially no task waits. *)
LEMMA InitEstablishes == Init => CleanupInv
<1> SUFFICES ASSUME Init PROVE CleanupInv
  OBVIOUS
<1> USE CapacityAssumption
<1>1. TypeOK
  BY DEF Init, TypeOK, Slot
<1>2. RingConsistent
  <2>1. (0 + 0) % Capacity = 0
    BY ModBelowTwice
  <2> QED
    BY <2>1 DEF Init, RingConsistent
<1>3. TasksWait /\ TasksDistinct
  BY DEF Init, TasksWait, TasksDistinct
<1>4. Phases /\ ReleasedOnce /\ NoTaskLost
  BY DEF Init, Phases, ReleasedOnce, NoTaskLost
<1> QED
  BY <1>1, <1>2, <1>3, <1>4 DEF CleanupInv

(* A step that leaves the ring alone leaves the tasks that wait alone. *)
LEMMA SameContents ==
    ASSUME UNCHANGED queue
    PROVE  Contents' = Contents /\ (RingConsistent => RingConsistent')
BY DEF queue, Contents, RingConsistent

(* Handing a task over preserves the invariant: a running compound's task  *)
(* waits nowhere yet.                                                      *)
LEMMA SubmitAsyncPreserves ==
    ASSUME CleanupInv, NEW t \in Txn, SubmitAsync(t)
    PROVE  CleanupInv'
<1> USE CapacityAssumption DEF CleanupInv
<1>1. /\ Contents' = Append(Contents, t)
      /\ RingConsistent'
      /\ head' \in Slot
  BY PushAppends DEF SubmitAsync
<1>2. /\ size \in Nat /\ size < Capacity /\ size' = size + 1
      /\ buf' = buf /\ pc' = pc /\ released' = released /\ folder' = folder
      /\ task' = [task EXCEPT ![t] = "handed"]
      /\ workerUp' = workerUp /\ tail' = tail
      /\ vec' = [vec EXCEPT ![head] = t]
  BY DEF SubmitAsync, cleanup_push_txnid, full, TypeOK, worker
<1>3. TypeOK'
  BY <1>1, <1>2 DEF TypeOK
<1>4. /\ \A i \in 1 .. size : Contents'[i] = Contents[i]
      /\ Contents'[size + 1] = t
  BY <1>1, <1>2, ContentsType
<1>5. /\ task[t] = "running" /\ released[t] = 0
      /\ task'[t] = "handed"
      /\ \A u \in Txn \ {t} : task'[u] = task[u]
      /\ Len(buf) \in Nat
  BY <1>2 DEF SubmitAsync, TypeOK, Phases
<1>6. \A i \in 1 .. size' : i \in 1 .. size \/ i = size + 1
  BY <1>2
<1>7. \A u \in Txn : Waits(u) => u # t /\ Waits(u)'
  BY <1>2, <1>5 DEF Waits
<1>8. Waits(t)'
  BY <1>2, <1>5 DEF Waits
<1>9. TasksWait'
  BY <1>2, <1>4, <1>6, <1>7, <1>8 DEF TasksWait, Waits
<1>10. TasksDistinct'
  <2>1. ASSUME NEW i \in 1 .. size
        PROVE  Contents'[i] # t /\ \A j \in 1 .. Len(buf) : Contents'[i] # buf[j]
    BY <1>4, <1>7 DEF TasksDistinct, TasksWait, Waits
  <2>2. \A j \in 1 .. Len(buf) : buf[j] # t
    BY <1>7 DEF TasksWait, Waits
  <2>3. \A i, j \in 1 .. size' : Contents'[i] = Contents'[j] => i = j
    BY <1>4, <1>6, <2>1 DEF TasksDistinct
  <2>4. \A i \in 1 .. size' : \A j \in 1 .. Len(buf) : Contents'[i] # buf[j]
    BY <1>4, <1>6, <2>1, <2>2
  <2> QED
    BY <1>2, <2>3, <2>4 DEF TasksDistinct
<1>11. Phases' /\ ReleasedOnce'
  BY <1>2, <1>5 DEF Phases, ReleasedOnce
<1>12. NoTaskLost'
  <2> SUFFICES ASSUME NEW u \in Txn, task'[u] = "handed", released'[u] = 0
               PROVE  \/ \E i \in 1 .. size' : Contents'[i] = u
                      \/ \E i \in 1 .. Len(buf') : buf'[i] = u
    BY DEF NoTaskLost
  <2>1. CASE u = t
    <3>1. size + 1 \in 1 .. size'
      BY <1>2
    <3> QED
      BY <1>4, <2>1, <3>1
  <2>2. CASE u # t
    <3>1. \A i \in 1 .. size : i \in 1 .. size'
      BY <1>2
    <3> QED
      BY <1>2, <1>4, <1>5, <2>2, <3>1 DEF NoTaskLost
  <2> QED
    BY <2>1, <2>2
<1> QED
  BY <1>1, <1>3, <1>9, <1>10, <1>11, <1>12

(* A pop preserves the invariant: the worker's array is empty before it,   *)
(* and the popped tasks are those that have left the ring.                 *)
LEMMA WorkerPopPreserves ==
    ASSUME CleanupInv, WorkerPop
    PROVE  CleanupInv'
<1> USE CapacityAssumption DEF CleanupInv
<1>1. PICK k \in 0 .. size :
        /\ size' = size - k
        /\ buf' \in Seq(Txn \cup {NoTxn})
        /\ Len(buf') = k
        /\ \A i \in 1 .. k : buf'[i] = Contents[i]
        /\ \A i \in 1 .. size - k : Contents'[i] = Contents[k + i]
        /\ tail' \in Slot
        /\ RingConsistent'
  BY PopTakesPrefix DEF WorkerPop
<1>2. /\ size \in 0 .. Capacity /\ pc' = "cleaning" /\ workerUp' = workerUp
      /\ task' = task /\ folder' = folder /\ released' = released
      /\ vec' = vec /\ head' = head /\ buf = <<>>
  BY DEF WorkerPop, cleanup_pop_many, compounds, TypeOK, Phases
<1>3. \A i \in 1 .. k : i \in 1 .. size /\ buf'[i] = Contents[i]
  BY <1>1, <1>2
<1>4. \A i \in 1 .. size' : k + i \in 1 .. size /\ Contents'[i] = Contents[k + i]
  BY <1>1, <1>2
<1>5. TasksWait'
  BY <1>1, <1>2, <1>3, <1>4 DEF TasksWait, Waits
<1>6. TypeOK'
  <2>1. \A i \in 1 .. Len(buf') : buf'[i] \in Txn
    BY <1>5 DEF TasksWait, Waits
  <2>2. buf' \in Seq(Txn)
    BY <1>1, <2>1
  <2> QED
    BY <1>1, <1>2, <2>2 DEF TypeOK
<1>7. TasksDistinct'
  <2>1. \A i, j \in 1 .. size' : Contents'[i] = Contents'[j] => i = j
    <3> TAKE i, j \in 1 .. size'
    <3>1. Contents[k + i] = Contents[k + j] => k + i = k + j
      BY <1>4 DEF TasksDistinct
    <3>2. k + i = k + j => i = j
      BY <1>1, <1>2
    <3> QED
      BY <1>4, <3>1, <3>2
  <2>2. \A i, j \in 1 .. Len(buf') : buf'[i] = buf'[j] => i = j
    BY <1>1, <1>3 DEF TasksDistinct
  <2>3. \A i \in 1 .. size' : \A j \in 1 .. Len(buf') : Contents'[i] # buf'[j]
    <3> TAKE i \in 1 .. size'
    <3> TAKE j \in 1 .. Len(buf')
    <3>1. k + i # j
      BY <1>1, <1>2
    <3> QED
      BY SMTT(20), <1>1, <1>3, <1>4, <3>1 DEF TasksDistinct
  <2> QED
    BY <2>1, <2>2, <2>3 DEF TasksDistinct
<1>8. Phases' /\ ReleasedOnce'
  BY <1>2 DEF Phases, ReleasedOnce
<1>9. NoTaskLost'
  <2> SUFFICES ASSUME NEW t \in Txn, task[t] = "handed", released[t] = 0
               PROVE  \/ \E i \in 1 .. size' : Contents'[i] = t
                      \/ \E i \in 1 .. Len(buf') : buf'[i] = t
    BY <1>2 DEF NoTaskLost
  <2>1. PICK i \in 1 .. size : Contents[i] = t
    BY <1>2 DEF NoTaskLost
  <2>2. CASE i <= k
    BY <1>1, <1>3, <2>1, <2>2
  <2>3. CASE i > k
    <3>1. i - k \in 1 .. size' /\ k + (i - k) = i
      BY <1>1, <1>2, <2>3
    <3> QED
      BY <1>4, <2>1, <3>1
  <2> QED
    BY <1>1, <1>2, <2>2, <2>3
<1> QED
  BY <1>1, <1>5, <1>6, <1>7, <1>8, <1>9

(* Cleaning a popped task preserves the invariant: it waits nowhere else.  *)
LEMMA WorkerCleanPreserves ==
    ASSUME CleanupInv, WorkerClean
    PROVE  CleanupInv'
<1> USE DEF CleanupInv
<1> DEFINE t == Head(buf)
<1>1. /\ buf \in Seq(Txn) /\ buf # <<>> /\ buf' = Tail(buf)
      /\ released' = [released EXCEPT ![t] = @ + 1]
      /\ task' = task /\ folder' = folder /\ pc' = pc /\ workerUp' = workerUp
      /\ UNCHANGED queue /\ pc = "cleaning"
  BY DEF WorkerClean, txnfs_cleanup_backup, TypeOK
<1>2. /\ Len(buf) \in Nat /\ Len(buf) > 0 /\ t = buf[1]
      /\ buf' \in Seq(Txn) /\ Len(buf') = Len(buf) - 1
      /\ \A i \in 1 .. Len(buf') : i + 1 \in 1 .. Len(buf) /\ buf'[i] = buf[i + 1]
  BY <1>1, HeadTailProperties
<1>3. Contents' = Contents /\ RingConsistent' /\ size' = size
  BY <1>1, SameContents DEF queue
<1>4. Waits(t) /\ t \in Txn
  <2>1. 1 \in 1 .. Len(buf)
    BY <1>2
  <2> QED
    BY <1>2, <2>1 DEF TasksWait, Waits
<1>5. /\ \A i \in 1 .. size : Contents[i] # t
      /\ \A i \in 1 .. Len(buf') : buf'[i] # t
  BY <1>2 DEF TasksDistinct
<1>6. /\ released'[t] = 1
      /\ \A u \in Txn \ {t} : released'[u] = released[u]
      /\ released' \in [Txn -> Nat]
  BY <1>1, <1>4 DEF TypeOK, Waits
<1> HIDE DEF t
<1>7. \A u \in Txn : Waits(u) /\ u # t => Waits(u)'
  BY <1>1, <1>6 DEF Waits
<1>8. TypeOK'
  BY <1>1, <1>2, <1>3, <1>6 DEF TypeOK, queue
<1>9. TasksWait'
  BY SMTT(20), <1>2, <1>3, <1>5, <1>7 DEF TasksWait, Waits
<1>10. TasksDistinct'
  <2>1. \A i, j \in 1 .. Len(buf') : buf'[i] = buf'[j] => i = j
    <3> TAKE i, j \in 1 .. Len(buf')
    <3>1. buf[i + 1] = buf[j + 1] => i + 1 = j + 1
      BY <1>2 DEF TasksDistinct
    <3> QED
      BY <1>2, <3>1
  <2>2. \A i, j \in 1 .. size' : Contents'[i] = Contents'[j] => i = j
    BY <1>3 DEF TasksDistinct
  <2>3. \A i \in 1 .. size' : \A j \in 1 .. Len(buf') : Contents'[i] # buf'[j]
    BY <1>2, <1>3 DEF TasksDistinct
  <2> QED
    BY <2>1, <2>2, <2>3 DEF TasksDistinct
<1>11. Phases' /\ ReleasedOnce'
  BY <1>1, <1>4, <1>6 DEF Phases, ReleasedOnce, Waits
<1>12. NoTaskLost'
  <2> SUFFICES ASSUME NEW u \in Txn, task[u] = "handed", released'[u] = 0
               PROVE  \/ \E i \in 1 .. size : Contents[i] = u
                      \/ \E i \in 1 .. Len(buf') : buf'[i] = u
    BY <1>1, <1>3 DEF NoTaskLost
  <2>1. u # t /\ released[u] = 0
    BY <1>6
  <2>2. ASSUME NEW i \in 1 .. Len(buf), buf[i] = u
        PROVE  \E j \in 1 .. Len(buf') : buf'[j] = u
    <3>1. i # 1
      BY <1>2, <2>1, <2>2
    <3>2. i - 1 \in 1 .. Len(buf') /\ (i - 1) + 1 = i
      BY <1>2, <3>1
    <3> QED
      BY Zenon, <1>2, <2>2, <3>2
  <2> QED
    BY <2>1, <2>2 DEF NoTaskLost
<1> QED
  BY <1>3, <1>8, <1>9, <1>10, <1>11, <1>12

(* The synchronous cleanup releases a folder that was never handed over. *)
LEMMA SyncCleanupPreserves ==
    ASSUME CleanupInv, NEW t \in Txn, SyncCleanup(t)
    PROVE  CleanupInv'
<1> USE DEF CleanupInv
<1>1. /\ task[t] = "cleaning" /\ released[t] = 0
      /\ task' = [task EXCEPT ![t] = "done"]
      /\ released' = [released EXCEPT ![t] = @ + 1]
      /\ UNCHANGED queue /\ buf' = buf /\ pc' = pc /\ workerUp' = workerUp
      /\ folder' = folder
  BY DEF SyncCleanup, txnfs_cleanup_backup, Phases, worker
<1>2. Contents' = Contents /\ RingConsistent' /\ size' = size
  BY <1>1, SameContents DEF queue
<1>3. /\ released'[t] = 1 /\ task'[t] = "done"
      /\ \A u \in Txn \ {t} : released'[u] = released[u] /\ task'[u] = task[u]
  BY <1>1 DEF TypeOK
<1>4. TypeOK'
  BY <1>1 DEF TypeOK, queue
<1>5. \A u \in Txn : Waits(u) => Waits(u)'
  BY <1>1, <1>3 DEF Waits
<1>6. TasksWait'
  BY <1>1, <1>2, <1>5 DEF TasksWait, Waits
<1>7. TasksDistinct'
  BY <1>1, <1>2 DEF TasksDistinct
<1>8. Phases' /\ ReleasedOnce'
  BY <1>1, <1>3 DEF Phases, ReleasedOnce
<1>9. NoTaskLost'
  BY <1>1, <1>2, <1>3 DEF NoTaskLost
<1> QED
  BY <1>2, <1>4, <1>6, <1>7, <1>8, <1>9

(* The steps that move a compound on without touching a folder. *)
LEMMA SubmitOtherPreserves ==
    ASSUME CleanupInv, NEW t \in Txn, SubmitNothing(t) \/ SubmitSync(t)
    PROVE  CleanupInv'
<1> USE DEF CleanupInv
<1>1. /\ task[t] = "running" /\ released[t] = 0
      /\ \/ task' = [task EXCEPT ![t] = "done"]
         \/ task' = [task EXCEPT ![t] = "cleaning"]
      /\ UNCHANGED queue /\ buf' = buf /\ pc' = pc /\ workerUp' = workerUp
      /\ folder' = folder /\ released' = released
  BY DEF SubmitNothing, SubmitSync, Phases, worker
<1>2. Contents' = Contents /\ RingConsistent' /\ size' = size
  BY <1>1, SameContents DEF queue
<1>3. /\ task'[t] \in {"done", "cleaning"}
      /\ \A u \in Txn \ {t} : task'[u] = task[u]
  BY <1>1 DEF TypeOK
<1>4. TypeOK'
  BY Zenon, <1>1 DEF TypeOK, queue
<1>5. \A u \in Txn : Waits(u) => Waits(u)'
  BY <1>1, <1>3 DEF Waits
<1>6. TasksWait'
  BY <1>1, <1>2, <1>5 DEF TasksWait, Waits
<1>7. TasksDistinct'
  BY <1>1, <1>2 DEF TasksDistinct
<1>8. Phases' /\ ReleasedOnce'
  BY <1>1, <1>3 DEF Phases, ReleasedOnce
<1>9. NoTaskLost'
  BY <1>1, <1>2, <1>3 DEF NoTaskLost
<1> QED
  BY <1>2, <1>4, <1>6, <1>7, <1>8, <1>9

(* Every step preserves the invariant. *)
LEMMA NextPreserves == CleanupInv /\ [Next]_vars => CleanupInv'
<1> SUFFICES ASSUME CleanupInv, [Next]_vars PROVE CleanupInv'
  OBVIOUS
<1>1. ASSUME NEW t \in Txn, SubmitNothing(t) \/ SubmitAsync(t) \/ SubmitSync(t) \/ SyncCleanup(t)
      PROVE  CleanupInv'
  BY <1>1, SubmitAsyncPreserves, SubmitOtherPreserves, SyncCleanupPreserves
<1>2. CASE WorkerPop
  BY <1>2, WorkerPopPreserves
<1>3. CASE WorkerClean
  BY <1>3, WorkerCleanPreserves
<1>4. CASE WorkerSleep \/ UNCHANGED vars
  <2>1. /\ Contents' = Contents /\ (pc' = pc \/ buf = <<>>) /\ pc' \in {"popping", "cleaning"}
        /\ UNCHANGED <<vec, head, tail, size, workerUp, buf, task, folder, released>>
    BY <1>4 DEF WorkerSleep, vars, queue, compounds, Contents, CleanupInv, TypeOK
  <2>2. TypeOK' /\ RingConsistent' /\ Phases' /\ ReleasedOnce'
    BY <2>1 DEF CleanupInv, TypeOK, RingConsistent, Phases, ReleasedOnce
  <2>3. TasksWait' /\ TasksDistinct' /\ NoTaskLost'
    BY <2>1 DEF CleanupInv, TasksWait, TasksDistinct, NoTaskLost, Waits
  <2> QED
    BY <2>2, <2>3 DEF CleanupInv
<1> QED
  BY <1>1, <1>2, <1>3, <1>4 DEF Next

(* In every reachable state each task that has been handed over waits in   *)
(* exactly one place until its folder is released.                         *)
THEOREM CleanupInvariant == Spec => []CleanupInv
<1> QED
  BY InitEstablishes, NextPreserves, PTL DEF Spec

(* No backup folder's handle is released twice, whatever the capacity of   *)
(* the queue, the worker's batch and the order in which compounds end.     *)
THEOREM FoldersReleasedOnce == Spec => []ReleasedOnce
<1>1. CleanupInv => ReleasedOnce
  BY DEF CleanupInv
<1> QED
  BY <1>1, CleanupInvariant, PTL

(* The indices of the ring stay inside the array and its size within the   *)
(* capacity, for cleanup_push_txnid and cleanup_pop_many.                  *)
THEOREM CleanupTypeCorrect == Spec => []TypeOK
<1>1. CleanupInv => TypeOK
  BY DEF CleanupInv
<1> QED
  BY <1>1, CleanupInvariant, PTL

(* No backup folder that has been handed over is lost from the queue. *)
THEOREM FoldersNotLost == Spec => []NoTaskLost
<1>1. CleanupInv => NoTaskLost
  BY DEF CleanupInv
<1> QED
  BY <1>1, CleanupInvariant, PTL

(* The ring buffer and the worker's array implement the bounded queue. *)
THEOREM CleanupRefinesFifo == Spec => ImplementsFifo
<1>1. Init => Fifo!Init
  BY DEF Init, Fifo!Init, Contents
<1>2. CleanupInv /\ [Next]_vars => [Fifo!Next]_<<Contents, buf>>
  <2> SUFFICES ASSUME CleanupInv, [Next]_vars PROVE [Fifo!Next]_<<Contents, buf>>
    OBVIOUS
  <2>1. Len(Contents) = size /\ size \in Nat
    BY ContentsType, CapacityAssumption DEF CleanupInv, TypeOK
  <2>2. ASSUME NEW t \in Txn, SubmitAsync(t) PROVE Fifo!HandOver(t)
    <3>1. Contents' = Append(Contents, t) /\ buf' = buf
      BY <2>2, PushAppends DEF CleanupInv, SubmitAsync, worker
    <3>2. Len(Contents) < Capacity
      BY <2>1, <2>2, CapacityAssumption DEF SubmitAsync, full
    <3> QED
      BY <3>1, <3>2 DEF Fifo!HandOver
  <2>3. CASE WorkerPop
    <3>1. PICK k \in 0 .. size :
            k <= BatchSize /\ Len(buf') = k /\ Contents = buf' \o Contents'
      BY <2>3, PopTakesPrefix DEF CleanupInv, WorkerPop
    <3>2. buf = <<>>
      BY <2>3 DEF WorkerPop, CleanupInv, Phases
    <3>3. Fifo!Take(k)
      BY <3>1, <3>2 DEF Fifo!Take
    <3> QED
      BY <2>1, <3>3 DEF Fifo!Next
  <2>4. CASE WorkerClean
    <3>1. buf # <<>> /\ buf' = Tail(buf) /\ Contents' = Contents
      BY <2>4, SameContents DEF WorkerClean
    <3> QED
      BY <3>1 DEF Fifo!Clean, Fifo!Next
  <2>5. ASSUME NEW t \in Txn, SubmitNothing(t) \/ SubmitSync(t) \/ SyncCleanup(t)
        PROVE  UNCHANGED <<Contents, buf>>
    BY <2>5, SameContents DEF SubmitNothing, SubmitSync, SyncCleanup, worker
  <2>6. CASE WorkerSleep \/ UNCHANGED vars
    BY <2>6, SameContents DEF WorkerSleep, vars, queue
  <2> QED
    BY <2>2, <2>3, <2>4, <2>5, <2>6 DEF Next, Fifo!Next
<1> QED
  BY <1>1, <1>2, CleanupInvariant, PTL DEF Spec, ImplementsFifo, Fifo!Spec
=============================================================================
