-------------------------- MODULE MdcacheLruProofs --------------------------
(***************************************************************************)
(* Proofs about MdcacheLru, for any number of threads, entries, keys and   *)
(* lanes, any lane function and any high-water mark: the reference counts  *)
(* are exact, nothing leads to freed memory, the queues and the iterator   *)
(* of the LRU thread stay consistent, a killed entry is wiped before it is *)
(* freed, and no entry leaks or is revived.                                *)
(*                                                                         *)
(* RefcntExact is the heart of the argument: a thread that has read the    *)
(* counter of an entry as its own references alone knows that no other     *)
(* thread has the entry.  That needs to be remembered while an entry is    *)
(* made or given back (SecludedOf), while it is reclaimed (EvictingOf) and *)
(* after its last reference is gone (DyingOf); and what is found on a      *)
(* queue that can be reaped must be owned by somebody (QueuedOwned).  That *)
(* an entry with no_cleanup is not wiped by a put does no harm because     *)
(* whoever has set the flag holds the entry (Flagged).                     *)
(*                                                                         *)
(* The lemmas say what the queue macros do to the lists, how references    *)
(* are counted, and that a step is local to one thread and one entry.      *)
(* Then there is one lemma for each step of a thread.  It names the entry  *)
(* that the step is about, shows that the step leaves all the others alone *)
(* (Touches), establishes what the invariant says of that thread and that  *)
(* entry, and concludes with LocalStep.                                    *)
(***************************************************************************)
EXTENDS MdcacheLru, TLAPS

-----------------------------------------------------------------------------
(* The inductive invariant. *)

Unreffing == {"unref", "wipe", "dec", "zero", "free"}

(* What each place says about the entries that a thread has. *)
ShapeOf(p) ==
    /\ held[p] # NoEntry <=>
          \/ pc[p] \in {"adjust", "raced", "again", "hold", "unguard", "push", "put"}
          \/ pc[p] \in Unreffing /\ ret[p] \in {"again", "hold", "unguard"}
    /\ obj[p] # NoEntry <=>
          \/ pc[p] \in {"raced", "again", "latch", "reclaim", "recycle", "fresh", "insert"}
          \/ pc[p] \in Unreffing
    /\ p = LruThread => pc[p] \in Unreffing \cup {"idle", "scan"} /\ ret[p] = "scan"
    /\ p # LruThread => pc[p] # "scan" /\ ret[p] # "scan"
    /\ pc[p] = "latch" => ret[p] = "reap"
    /\ pc[p] \in Unreffing /\ ret[p] = "unguard" => held[p] = obj[p]

(* What a thread still has to find it knows the key of. *)
Looking == {"adjust", "get", "reap", "latch", "reclaim", "recycle", "fresh", "raced"}

WantOf(t) ==
    pc[t] \in Looking \/ (pc[t] \in Unreffing /\ ret[t] = "reap") => want[t] \in Keys

Shape ==
    /\ \A p \in Procs : ShapeOf(p)
    /\ \A t \in Threads : WantOf(t)
    /\ scanned = NoLane <=> pc[LruThread] = "idle"

(* Whatever a thread, a queue or the hash table knows is allocated. *)
Allocated ==
    /\ \A p \in Procs : {held[p], obj[p]} \subseteq alive \cup {NoEntry}
    /\ \A e \in Entries : qid[e] # "none" \/ inavl[e] => e \in alive

(* The hash table has the entries that are marked as hashed, by their keys. *)
Hashed ==
    /\ \A e \in Entries : inavl[e] => key[e] \in Keys /\ table[key[e]] = e
    /\ \A k \in Keys : table[k] # NoEntry => inavl[table[k]] /\ key[table[k]] = k

(* RefcntExact, with the references of the threads taken together. *)
Refs(e) == Cardinality(Holders(e)) + Cardinality(Workers(e)) + Cardinality(Makers(e))

Sentinel(e) == IF inavl[e] THEN 1 ELSE 0

CountsExact == \A e \in alive : refcnt[e] = Sentinel(e) + Refs(e)

(* The thread p is the only one that knows of the entry it works on. *)
Alone(p) ==
    /\ \A r \in Procs : held[r] # obj[p]
    /\ \A r \in Procs \ {p} : obj[r] # obj[p]

(* An entry that is not hashed yet, or that lost the race, is its maker's. *)
Making(p) ==
    \/ pc[p] \in {"recycle", "fresh", "raced", "again"}
    \/ pc[p] \in Unreffing /\ ret[p] \in {"again", "hold"}

SecludedOf(p) == Making(p) => ~inavl[obj[p]] /\ qid[obj[p]] = "none" /\ Alone(p)

(* The reaper of an entry that is on no queue any more is alone with it. *)
EvictingOf(p) == pc[p] = "reclaim" => inavl[obj[p]] /\ qid[obj[p]] = "none" /\ Alone(p)

(* An entry is hashed and waits to be inserted in a queue by its creator. *)
InsertingOf(p) ==
    pc[p] = "insert" =>
        /\ inavl[obj[p]] /\ qid[obj[p]] = "none"
        /\ \A r \in Procs \ {p} : pc[r] = "insert" => obj[r] # obj[p]

(* The thread that dropped the last reference is the one that frees. *)
DyingOf(p) ==
    pc[p] \in {"zero", "free"} =>
        /\ refcnt[obj[p]] = 0 /\ ret[p] # "again"
        /\ pc[p] = "free" => qid[obj[p]] = "none"
        /\ \A r \in Procs \ {p} : pc[r] \in {"zero", "free"} => obj[r] # obj[p]

(* A thread pushes an entry that is not hashed any more. *)
PushingOf(p) == pc[p] = "push" => ~inavl[held[p]]

PrivateOf(p) ==
    SecludedOf(p) /\ EvictingOf(p) /\ InsertingOf(p) /\ DyingOf(p) /\ PushingOf(p)

Private == \A p \in Procs : PrivateOf(p)

(* An entry that can be reaped or demoted is owned. *)
QueuedOwned ==
    \A e \in Entries :
        qid[e] \in {"L1", "L2"} =>
            inavl[e] \/ \E t \in Threads : pc[t] = "push" /\ held[t] = e

(* A killed entry that is not wiped yet has an owner that has still to look. *)
WillWipe(p, e) == held[p] = e \/ (obj[p] = e /\ pc[p] \notin {"dec", "zero", "free"})

ToWipe ==
    \A e \in Entries : qid[e] = "cleanup" /\ e \notin cleaned => \E p \in Procs : WillWipe(p, e)

(* Whoever has set no_cleanup holds the entry, and will put it again. *)
Guards(p, e) ==
    held[p] = e /\ (pc[p] = "unguard" \/ (pc[p] \in Unreffing /\ ret[p] = "unguard"))

Flagged == \A e \in no_cleanup : \E p \in Procs : Guards(p, e)

(* An entry without references is in the hands of a thread that frees it. *)
Freeing ==
    \A e \in alive :
        refcnt[e] = 0 => \E p \in Procs : obj[p] = e /\ pc[p] \in {"zero", "free"}

LruInv ==
    /\ TypeOK /\ Shape /\ Allocated /\ Hashed /\ CountsExact /\ Private
    /\ QueuedOwned /\ OnItsQueue /\ IteratorSafe /\ ToWipe /\ Flagged /\ Freeing

-----------------------------------------------------------------------------
(* Lists: what glist_del, glist_add and glist_add_tail do to one that has   *)
(* each of its elements once.                                               *)

Distinct(s) == \A i, j \in 1 .. Len(s) : s[i] = s[j] => i = j

On(e, s) == \E i \in 1 .. Len(s) : s[i] = e

(* The place of an element of a list is where the element is. *)
LEMMA PlaceOf ==
    ASSUME NEW s \in Seq(Entries), NEW e, On(e, s)
    PROVE  Place(s, e) \in 1 .. Len(s) /\ s[Place(s, e)] = e
  BY Zenon DEF Place, On

(* glist_del takes one element off and keeps the others, once each. *)
LEMMA WithoutList ==
    ASSUME NEW s \in Seq(Entries), NEW e, Distinct(s), On(e, s)
    PROVE  /\ Without(s, e) \in Seq(Entries)
           /\ Distinct(Without(s, e))
           /\ \A x : On(x, Without(s, e)) <=> x # e /\ On(x, s)
<1> DEFINE n == Place(s, e)
           a == SubSeq(s, 1, n - 1)
           b == SubSeq(s, n + 1, Len(s))
           w == Without(s, e)
<1>1. n \in 1 .. Len(s) /\ s[n] = e
  BY Zenon, PlaceOf
<1>2. Len(s) \in Nat /\ \A i \in 1 .. Len(s) : s[i] \in Entries
  OBVIOUS
<1> HIDE DEF n
<1>3. a \in Seq(Entries) /\ Len(a) = n - 1 /\ \A i \in 1 .. n - 1 : a[i] = s[i]
  <2>1. 1 \in Int /\ n - 1 \in Int /\ \A i \in 1 .. n - 1 : s[i] \in Entries
    BY <1>1, <1>2
  <2>2. /\ a \in Seq(Entries)
        /\ Len(a) = IF 1 <= n - 1 THEN n - 1 - 1 + 1 ELSE 0
        /\ \A i \in 1 .. n - 1 - 1 + 1 : a[i] = s[1 + i - 1]
    BY <2>1
  <2> QED
    BY <1>1, <1>2, <2>2
<1>4. /\ b \in Seq(Entries)
      /\ Len(b) = Len(s) - n
      /\ \A i \in 1 .. Len(s) - n : b[i] = s[n + i]
  <2>1. n + 1 \in Int /\ Len(s) \in Int /\ \A i \in n + 1 .. Len(s) : s[i] \in Entries
    BY <1>1, <1>2
  <2>2. /\ b \in Seq(Entries)
        /\ Len(b) = IF n + 1 <= Len(s) THEN Len(s) - (n + 1) + 1 ELSE 0
        /\ \A i \in 1 .. Len(s) - (n + 1) + 1 : b[i] = s[n + 1 + i - 1]
    BY <2>1
  <2> QED
    BY <1>1, <1>2, <2>2
<1>5. /\ w \in Seq(Entries)
      /\ Len(w) = Len(s) - 1
      /\ \A i \in 1 .. Len(s) - 1 : w[i] = IF i < n THEN s[i] ELSE s[i + 1]
  <2>1. w = a \o b
    BY Zenon DEF Without, n
  <2> HIDE DEF a, b, w
  <2>2. /\ w \in Seq(Entries)
        /\ Len(w) = Len(a) + Len(b)
        /\ \A i \in 1 .. Len(a) + Len(b) : w[i] = IF i <= Len(a) THEN a[i] ELSE b[i - Len(a)]
    <3>1. ASSUME NEW S, NEW c \in Seq(S), NEW d \in Seq(S)
          PROVE  /\ c \o d \in Seq(S)
                 /\ Len(c \o d) = Len(c) + Len(d)
                 /\ \A i \in 1 .. Len(c) + Len(d) :
                       (c \o d)[i] = IF i <= Len(c) THEN c[i] ELSE d[i - Len(c)]
      OBVIOUS
    <3> QED
      BY Zenon, <1>3, <1>4, <2>1, <3>1
  <2>3. Len(w) = Len(s) - 1
    BY <1>1, <1>2, <1>3, <1>4, <2>2
  <2>4. ASSUME NEW i \in 1 .. Len(s) - 1
        PROVE  w[i] = IF i < n THEN s[i] ELSE s[i + 1]
    <3>1. w[i] = IF i <= Len(a) THEN a[i] ELSE b[i - Len(a)]
      BY Zenon, <1>1, <1>2, <2>2, <2>3
    <3>2. CASE i < n
      BY <1>1, <1>2, <1>3, <3>1, <3>2
    <3>3. CASE ~(i < n)
      <4>1. w[i] = b[i - (n - 1)]
        BY <1>1, <1>2, <1>3, <3>1, <3>3
      <4>2. i - (n - 1) \in 1 .. Len(s) - n /\ n + (i - (n - 1)) = i + 1
        BY <1>1, <1>2, <3>3
      <4> QED
        BY Zenon, <1>4, <3>3, <4>1, <4>2
    <3> QED
      BY Zenon, <3>2, <3>3
  <2> QED
    BY Zenon, <2>2, <2>3, <2>4
<1> HIDE DEF w
<1>6. Distinct(w)
  BY <1>1, <1>2, <1>5 DEF Distinct
<1>7. \A x : On(x, w) => x # e /\ On(x, s)
  BY <1>1, <1>2, <1>5 DEF Distinct, On
<1>8. ASSUME NEW x, x # e, On(x, s)
      PROVE  On(x, w)
  <2>1. PICK i \in 1 .. Len(s) : s[i] = x
    BY Zenon, <1>8 DEF On
  <2>2. CASE i < n
    <3>1. i \in 1 .. Len(w) /\ w[i] = x
      BY <1>1, <1>2, <1>5, <2>1, <2>2
    <3> QED
      BY <3>1, Zenon DEF On
  <2>3. CASE i > n
    <3>1. i - 1 \in 1 .. Len(w) /\ w[i - 1] = x
      BY <1>1, <1>2, <1>5, <2>1, <2>3
    <3> QED
      BY <3>1, Zenon DEF On
  <2> QED
    BY <1>1, <1>2, <1>8, <2>1, <2>2, <2>3
<1> QED
  BY <1>5, <1>6, <1>7, <1>8, Zenon DEF w

(* What follows an element in a list is another element of it. *)
LEMMA FollowingList ==
    ASSUME NEW s \in Seq(Entries), NEW e, Distinct(s), On(e, s),
           Following(s, e) # NoEntry
    PROVE  Following(s, e) \in Entries \ {e} /\ On(Following(s, e), s)
<1>1. Place(s, e) \in 1 .. Len(s) /\ s[Place(s, e)] = e /\ Len(s) \in Nat
  BY PlaceOf
<1>2. Place(s, e) + 1 \in 1 .. Len(s) /\ Following(s, e) = s[Place(s, e) + 1]
  BY <1>1 DEF Following
<1> QED
  BY <1>1, <1>2 DEF Distinct, On

(* glist_add_tail puts an element that is not there yet at the end. *)
LEMMA AppendList ==
    ASSUME NEW s \in Seq(Entries), NEW e \in Entries, Distinct(s), ~On(e, s)
    PROVE  /\ Append(s, e) \in Seq(Entries)
           /\ Distinct(Append(s, e))
           /\ \A x : On(x, Append(s, e)) <=> x = e \/ On(x, s)
<1> DEFINE w == Append(s, e)
<1>1. /\ w \in Seq(Entries) /\ Len(w) = Len(s) + 1 /\ Len(s) \in Nat
      /\ \A i \in 1 .. Len(s) : w[i] = s[i]
      /\ w[Len(s) + 1] = e
  OBVIOUS
<1> HIDE DEF w
<1>2. Distinct(w)
  BY <1>1 DEF Distinct, On
<1>3. \A x : On(x, w) <=> x = e \/ On(x, s)
  BY <1>1 DEF On
<1> QED
  BY <1>1, <1>2, <1>3, Zenon DEF w

(* glist_add puts it at the front. *)
LEMMA PrependList ==
    ASSUME NEW s \in Seq(Entries), NEW e \in Entries, Distinct(s), ~On(e, s)
    PROVE  /\ <<e>> \o s \in Seq(Entries)
           /\ Distinct(<<e>> \o s)
           /\ \A x : On(x, <<e>> \o s) <=> x = e \/ On(x, s)
<1> DEFINE w == <<e>> \o s
<1>1. /\ w \in Seq(Entries) /\ Len(w) = Len(s) + 1 /\ Len(s) \in Nat
      /\ \A i \in 1 .. Len(s) + 1 : w[i] = IF i <= 1 THEN e ELSE s[i - 1]
  <2>1. <<e>> \in Seq(Entries) /\ Len(<<e>>) = 1 /\ <<e>>[1] = e
    OBVIOUS
  <2>2. /\ w \in Seq(Entries)
        /\ Len(w) = Len(<<e>>) + Len(s)
        /\ \A i \in 1 .. Len(<<e>>) + Len(s) :
             w[i] = IF i <= Len(<<e>>) THEN <<e>>[i] ELSE s[i - Len(<<e>>)]
    BY <2>1
  <2>3. Len(s) \in Nat
    OBVIOUS
  <2> QED
    BY <2>1, <2>2, <2>3
<1> HIDE DEF w
<1>2. Distinct(w)
  BY SMTT(30), <1>1 DEF Distinct, On
<1>3. \A x : On(x, w) => x = e \/ On(x, s)
  BY <1>1 DEF On
<1>4. On(e, w)
  BY <1>1 DEF On
<1>5. ASSUME NEW x, On(x, s)
      PROVE  On(x, w)
  <2>1. PICK i \in 1 .. Len(s) : s[i] = x
    BY Zenon, <1>5 DEF On
  <2>2. i + 1 \in 1 .. Len(w) /\ w[i + 1] = x
    BY <1>1, <2>1
  <2> QED
    BY <2>2, Zenon DEF On
<1> QED
  BY <1>1, <1>2, <1>3, <1>4, <1>5, Zenon DEF w

-----------------------------------------------------------------------------
(* The queues of the lanes. *)

(* OnItsQueue, in terms of the lists. *)
LEMMA ListsOf ==
    ASSUME OnItsQueue
    PROVE  \A l \in Lanes, id \in QueueId :
             /\ Distinct(queue[<<l, id>>])
             /\ \A x \in Entries : On(x, queue[<<l, id>>]) <=> LaneOf[x] = l /\ qid[x] = id
  BY DEF OnItsQueue, Distinct, On

(* The same, after a step. *)
LEMMA ListsAfter ==
    ASSUME \A l \in Lanes, id \in QueueId :
             /\ Distinct(queue'[<<l, id>>])
             /\ \A x \in Entries : On(x, queue'[<<l, id>>]) <=> LaneOf[x] = l /\ qid'[x] = id
    PROVE  OnItsQueue'
  BY DEF OnItsQueue, Distinct, On

(* LRU_DQ_SAFE takes an entry off the list that its qid names. *)
LEMMA DequeuedLists ==
    ASSUME TypeOK, OnItsQueue, NEW e \in Entries
    PROVE  /\ Dequeued(e) \in [Lanes \X QueueId -> Seq(Entries)]
           /\ \A l \in Lanes, id \in QueueId :
                /\ Distinct(Dequeued(e)[<<l, id>>])
                /\ \A x \in Entries :
                     On(x, Dequeued(e)[<<l, id>>]) <=> x # e /\ LaneOf[x] = l /\ qid[x] = id
<1>1. /\ queue \in [Lanes \X QueueId -> Seq(Entries)]
      /\ LaneOf[e] \in Lanes
      /\ qid[e] \in QueueId \cup {"none"}
      /\ "none" \notin QueueId
  BY Zenon, LanesAssumption DEF TypeOK, QueueId
<1>2. \A l \in Lanes, id \in QueueId :
        /\ Distinct(queue[<<l, id>>])
        /\ \A x \in Entries : On(x, queue[<<l, id>>]) <=> LaneOf[x] = l /\ qid[x] = id
  BY Zenon, ListsOf
<1>3. CASE qid[e] = "none"
  <2>1. Dequeued(e) = queue
    BY Zenon, <1>3 DEF Dequeued
  <2>2. \A id \in QueueId : qid[e] # id
    BY Zenon, <1>1, <1>3
  <2> QED
    BY <1>1, <1>2, <2>1, <2>2
<1>4. CASE qid[e] # "none"
  <2> DEFINE at == <<LaneOf[e], qid[e]>>
             s == queue[at]
  <2>1. /\ at \in Lanes \X QueueId /\ s \in Seq(Entries)
        /\ Dequeued(e) = [queue EXCEPT ![at] = Without(s, e)]
    BY Zenon, <1>1, <1>4 DEF Dequeued
  <2>2. Distinct(s) /\ On(e, s)
    BY Zenon, <1>1, <1>2, <1>4
  <2> HIDE DEF s
  <2>3. /\ Without(s, e) \in Seq(Entries)
        /\ Distinct(Without(s, e))
        /\ \A x : On(x, Without(s, e)) <=> x # e /\ On(x, s)
    BY <2>1, <2>2, WithoutList, Zenon
  <2>4. ASSUME NEW l \in Lanes, NEW id \in QueueId
        PROVE  /\ Distinct(Dequeued(e)[<<l, id>>])
               /\ \A x \in Entries :
                    On(x, Dequeued(e)[<<l, id>>]) <=> x # e /\ LaneOf[x] = l /\ qid[x] = id
    <3>1. CASE l = LaneOf[e] /\ id = qid[e]
      <4>1. Dequeued(e)[<<l, id>>] = Without(s, e)
        BY Zenon, <1>1, <2>1, <3>1
      <4>2. s = queue[<<l, id>>]
        BY Zenon, <3>1 DEF s
      <4> QED
        BY <1>2, <2>3, <3>1, <4>1, <4>2
    <3>2. CASE ~(l = LaneOf[e] /\ id = qid[e])
      <4>1. Dequeued(e)[<<l, id>>] = queue[<<l, id>>]
        BY Zenon, <1>1, <2>1, <3>2
      <4> QED
        BY <1>2, <3>2, <4>1
    <3> QED
      BY Zenon, <3>1, <3>2
  <2>5. Dequeued(e) \in [Lanes \X QueueId -> Seq(Entries)]
    BY Zenon, <1>1, <2>1, <2>3
  <2> QED
    BY <2>4, <2>5, Zenon
<1> QED
  BY Zenon, <1>3, <1>4

(* An entry that moves to either end of a list of its lane is on that list *)
(* and on no other.                                                        *)
LEMMA EnqueuedLists ==
    ASSUME TypeOK, OnItsQueue, NEW e \in Entries, NEW id \in QueueId,
           \/ queue' = [Dequeued(e) EXCEPT ![<<LaneOf[e], id>>] = <<e>> \o @]
           \/ queue' = [Dequeued(e) EXCEPT ![<<LaneOf[e], id>>] = Append(@, e)],
           qid' = [qid EXCEPT ![e] = id]
    PROVE  /\ queue' \in [Lanes \X QueueId -> Seq(Entries)]
           /\ OnItsQueue'
<1> DEFINE d == Dequeued(e)
           at == <<LaneOf[e], id>>
           s == d[at]
<1>1. /\ d \in [Lanes \X QueueId -> Seq(Entries)]
      /\ \A l \in Lanes, j \in QueueId :
           /\ Distinct(d[<<l, j>>])
           /\ \A x \in Entries : On(x, d[<<l, j>>]) <=> x # e /\ LaneOf[x] = l /\ qid[x] = j
  BY DequeuedLists, Zenon
<1> HIDE DEF d
<1>2. at \in Lanes \X QueueId /\ LaneOf[e] \in Lanes
  BY Zenon, LanesAssumption
<1>3. s \in Seq(Entries) /\ Distinct(s) /\ ~On(e, s)
  BY Zenon, <1>1, <1>2
<1>4. PICK w \in Seq(Entries) :
        /\ queue' = [d EXCEPT ![at] = w]
        /\ Distinct(w)
        /\ \A x : On(x, w) <=> x = e \/ On(x, s)
  <2>1. CASE queue' = [Dequeued(e) EXCEPT ![<<LaneOf[e], id>>] = <<e>> \o @]
    <3>1. queue' = [d EXCEPT ![at] = <<e>> \o s]
      BY Zenon, <2>1 DEF d
    <3> HIDE DEF s, at
    <3> QED
      BY <1>3, <3>1, PrependList, Zenon
  <2>2. CASE queue' = [Dequeued(e) EXCEPT ![<<LaneOf[e], id>>] = Append(@, e)]
    <3>1. queue' = [d EXCEPT ![at] = Append(s, e)]
      BY Zenon, <2>2 DEF d
    <3> HIDE DEF s, at
    <3> QED
      BY <1>3, <3>1, AppendList, Zenon
  <2> QED
    BY Zenon, <2>1, <2>2
<1>5. queue' \in [Lanes \X QueueId -> Seq(Entries)]
  BY Zenon, <1>1, <1>2, <1>4
<1>6. \A x \in Entries : qid'[x] = IF x = e THEN id ELSE qid[x]
  BY Zenon DEF TypeOK
<1>7. ASSUME NEW l \in Lanes, NEW j \in QueueId
      PROVE  /\ Distinct(queue'[<<l, j>>])
             /\ \A x \in Entries : On(x, queue'[<<l, j>>]) <=> LaneOf[x] = l /\ qid'[x] = j
  <2>1. CASE l = LaneOf[e] /\ j = id
    <3>1. queue'[<<l, j>>] = w /\ s = d[<<l, j>>]
      BY Zenon, <1>1, <1>2, <1>4, <2>1
    <3> HIDE DEF s
    <3> QED
      BY <1>1, <1>4, <1>6, <2>1, <3>1
  <2>2. CASE ~(l = LaneOf[e] /\ j = id)
    <3>1. queue'[<<l, j>>] = d[<<l, j>>]
      BY Zenon, <1>1, <1>2, <1>4, <2>2
    <3> QED
      BY <1>1, <1>6, <2>2, <3>1
  <2> QED
    BY Zenon, <2>1, <2>2
<1>8. OnItsQueue'
  BY Zenon, <1>7, ListsAfter
<1> QED
  BY Zenon, <1>5, <1>8

(* The same for an entry that is taken off its list. *)
LEMMA OffQueueLists ==
    ASSUME TypeOK, OnItsQueue, NEW e \in Entries,
           queue' = Dequeued(e), qid' = [qid EXCEPT ![e] = "none"]
    PROVE  /\ queue' \in [Lanes \X QueueId -> Seq(Entries)]
           /\ OnItsQueue'
<1>1. /\ Dequeued(e) \in [Lanes \X QueueId -> Seq(Entries)]
      /\ \A l \in Lanes, j \in QueueId :
           /\ Distinct(Dequeued(e)[<<l, j>>])
           /\ \A x \in Entries :
                On(x, Dequeued(e)[<<l, j>>]) <=> x # e /\ LaneOf[x] = l /\ qid[x] = j
  BY DequeuedLists, Zenon
<1>2. \A x \in Entries : qid'[x] = IF x = e THEN "none" ELSE qid[x]
  BY Zenon DEF TypeOK
<1>3. "none" \notin QueueId
  BY Zenon DEF QueueId
<1>4. ASSUME NEW l \in Lanes, NEW j \in QueueId
      PROVE  /\ Distinct(queue'[<<l, j>>])
             /\ \A x \in Entries : On(x, queue'[<<l, j>>]) <=> LaneOf[x] = l /\ qid'[x] = j
  BY <1>1, <1>2, <1>3
<1>5. OnItsQueue'
  BY Zenon, <1>4, ListsAfter
<1> QED
  BY <1>1, <1>5, Zenon

(* The entry at the head of a list has the list's name and lane. *)
LEMMA HeadOfList ==
    ASSUME TypeOK, OnItsQueue, NEW l \in Lanes, NEW id \in QueueId,
           queue[<<l, id>>] # <<>>
    PROVE  /\ queue[<<l, id>>][1] \in Entries
           /\ LaneOf[queue[<<l, id>>][1]] = l
           /\ qid[queue[<<l, id>>][1]] = id
<1>1. queue[<<l, id>>] \in Seq(Entries)
  BY Zenon DEF TypeOK
<1>2. 1 \in 1 .. Len(queue[<<l, id>>])
  BY <1>1
<1>3. queue[<<l, id>>][1] \in Entries
  BY <1>1, <1>2
<1>4. On(queue[<<l, id>>][1], queue[<<l, id>>])
  BY <1>2, Zenon DEF On
<1> QED
  BY <1>3, <1>4, ListsOf

(* What follows an entry of L1 in its lane is another entry of it. *)
LEMMA FollowingOnL1 ==
    ASSUME TypeOK, OnItsQueue, NEW e \in Entries, qid[e] = "L1",
           Following(queue[<<LaneOf[e], "L1">>], e) # NoEntry
    PROVE  LET f == Following(queue[<<LaneOf[e], "L1">>], e)
           IN  f \in Entries \ {e} /\ qid[f] = "L1" /\ LaneOf[f] = LaneOf[e]
<1> DEFINE s == queue[<<LaneOf[e], "L1">>]
<1>1. LaneOf[e] \in Lanes /\ "L1" \in QueueId
  BY Zenon, LanesAssumption DEF QueueId
<1>2. s \in Seq(Entries) /\ Distinct(s) /\ On(e, s)
  <2>1. s \in Seq(Entries)
    <3>1. queue \in [Lanes \X QueueId -> Seq(Entries)]
      BY Zenon DEF TypeOK
    <3> QED
      BY Zenon, <1>1, <3>1
  <2>2. \A l \in Lanes, id \in QueueId :
          /\ Distinct(queue[<<l, id>>])
          /\ \A x \in Entries : On(x, queue[<<l, id>>]) <=> LaneOf[x] = l /\ qid[x] = id
    BY Zenon, ListsOf
  <2> QED
    BY Zenon, <1>1, <2>1, <2>2
<1>3. Following(s, e) \in Entries \ {e} /\ On(Following(s, e), s)
  <2> HIDE DEF s
  <2> QED
    BY Zenon, <1>2, FollowingList DEF s
<1> QED
  BY <1>1, <1>3 DEF OnItsQueue, On

(* LRU_DQ_SAFE keeps the iterator of lru_run_lane on the list it follows. *)
LEMMA IteratorKept ==
    ASSUME TypeOK, OnItsQueue, IteratorSafe, NEW e \in Entries, NEW id,
           glistn' = IteratorAfter(e), qid' = [qid EXCEPT ![e] = id],
           scanned' = scanned
    PROVE  glistn' \in Entries \cup {NoEntry} /\ IteratorSafe'
<1>1. CASE qid[e] = "L1" /\ scanned = LaneOf[e] /\ glistn = e
  <2>1. glistn' = Following(queue[<<LaneOf[e], "L1">>], e)
    BY Zenon, <1>1 DEF IteratorAfter
  <2>2. CASE glistn' = NoEntry
    BY Zenon, <2>2 DEF IteratorSafe
  <2>3. CASE glistn' # NoEntry
    <3>1. glistn' \in Entries \ {e} /\ qid[glistn'] = "L1" /\ LaneOf[glistn'] = LaneOf[e]
      BY Zenon, <1>1, <2>1, <2>3, FollowingOnL1
    <3>2. qid'[glistn'] = "L1"
      BY Zenon, <3>1 DEF TypeOK
    <3> QED
      BY Zenon, <1>1, <3>1, <3>2 DEF IteratorSafe
  <2> QED
    BY Zenon, <2>2, <2>3
<1>2. CASE ~(qid[e] = "L1" /\ scanned = LaneOf[e] /\ glistn = e)
  <2>1. glistn' = glistn
    BY Zenon, <1>2 DEF IteratorAfter
  <2>2. glistn \in Entries /\ glistn # e => qid'[glistn] = qid[glistn]
    BY Zenon DEF TypeOK
  <2> QED
    BY Zenon, <1>2, <2>1, <2>2, NoEntryAssumption DEF IteratorSafe, TypeOK
<1> QED
  BY Zenon, <1>1, <1>2

(* A queue operation, by any of the macros that call LRU_DQ_SAFE. *)
Moves(e, id) ==
    IF id = "none" THEN OffQueue(e) ELSE ToLru(e, id) \/ ToMru(e, id)

(* A queue operation keeps the queues and the iterator consistent. *)
LEMMA MovesSafe ==
    ASSUME TypeOK, OnItsQueue, IteratorSafe, scanned' = scanned,
           NEW e \in Entries, NEW id \in QueueId \cup {"none"}, Moves(e, id)
    PROVE  /\ queue' \in [Lanes \X QueueId -> Seq(Entries)]
           /\ qid' = [qid EXCEPT ![e] = id]
           /\ glistn' \in Entries \cup {NoEntry}
           /\ OnItsQueue' /\ IteratorSafe'
<1>1. qid' = [qid EXCEPT ![e] = id] /\ glistn' = IteratorAfter(e)
  BY Zenon DEF Moves, ToLru, ToMru, OffQueue
<1>2. glistn' \in Entries \cup {NoEntry} /\ IteratorSafe'
  BY <1>1, IteratorKept, Zenon
<1>3. queue' \in [Lanes \X QueueId -> Seq(Entries)] /\ OnItsQueue'
  <2>1. CASE id = "none"
    BY <1>1, <2>1, OffQueueLists, Zenon DEF Moves, OffQueue
  <2>2. CASE id \in QueueId
    <3>1. id # "none"
      BY Zenon, <2>2 DEF QueueId
    <3>2. \/ queue' = [Dequeued(e) EXCEPT ![<<LaneOf[e], id>>] = <<e>> \o @]
          \/ queue' = [Dequeued(e) EXCEPT ![<<LaneOf[e], id>>] = Append(@, e)]
      BY <3>1, Zenon DEF Moves, ToLru, ToMru
    <3> QED
      BY <1>1, <2>2, <3>2, EnqueuedLists, Zenon
  <2> QED
    BY Zenon, <2>1, <2>2
<1> QED
  BY Zenon, <1>1, <1>2, <1>3

(* The queues stay consistent if nothing is done to them. *)
LEMMA QueuesSame ==
    ASSUME OnItsQueue, queue' = queue, qid' = qid
    PROVE  OnItsQueue'
  BY DEF OnItsQueue

(* A step that leaves the queues and the iterator alone keeps them too. *)
LEMMA QueuesKept ==
    ASSUME OnItsQueue, IteratorSafe, UNCHANGED <<queue, qid, glistn, scanned>>
    PROVE  OnItsQueue' /\ IteratorSafe'
<1>1. queue' = queue /\ qid' = qid /\ glistn' = glistn /\ scanned' = scanned
  BY Zenon
<1> QED
  BY <1>1 DEF OnItsQueue, IteratorSafe

-----------------------------------------------------------------------------
(* Counting references. *)

(* A thread's share of the references to an entry. *)
One(p, S) == IF p \in S THEN 1 ELSE 0

Share(p, e) == One(p, Holders(e)) + One(p, Workers(e)) + One(p, Makers(e))

(* What the other threads are doing does not change in a step of p. *)
Others(p) ==
    \A q \in Procs \ {p} : /\ pc'[q] = pc[q] /\ ret'[q] = ret[q]
                           /\ held'[q] = held[q] /\ obj'[q] = obj[q]

(* What is used of Cardinality here.  LruCounting proves it from the theorems *)
(* about finite sets.                                                         *)
Counting ==
    /\ Cardinality({}) = 0
    /\ \A S \in SUBSET Procs :
          /\ Cardinality(S) \in Nat
          /\ Cardinality(S) = 0 => S = {}
          /\ \A p : Cardinality(S) = Cardinality(S \ {p}) + One(p, S)

(* A set of threads is one element of it and the others. *)
LEMMA CardinalityApart ==
    ASSUME Counting, NEW S, S \subseteq Procs, NEW p
    PROVE  /\ Cardinality(S \ {p}) \in Nat
           /\ Cardinality(S) = Cardinality(S \ {p}) + One(p, S)
<1>1. S \in SUBSET Procs /\ S \ {p} \in SUBSET Procs
  BY Zenon
<1> QED
  BY Zenon, <1>1 DEF Counting

(* The references of the other threads. *)
Rest(p, e) == Cardinality(Holders(e) \ {p}) + Cardinality(Workers(e) \ {p})
                  + Cardinality(Makers(e) \ {p})

(* The references to an entry are p's share and those of the others, and if *)
(* there is none of others then p is the only thread that owns any.         *)
LEMMA RefsApart ==
    ASSUME Counting, NEW p, NEW e
    PROVE  /\ Refs(e) = Rest(p, e) + Share(p, e)
           /\ Refs(e) \in Nat /\ Rest(p, e) \in Nat /\ Share(p, e) \in Nat
           /\ Rest(p, e) = 0 =>
                /\ Holders(e) \subseteq {p} /\ Workers(e) \subseteq {p}
                /\ Makers(e) \subseteq {p}
<1> DEFINE h == Holders(e)
           w == Workers(e)
           m == Makers(e)
<1>1. h \subseteq Procs /\ w \subseteq Procs /\ m \subseteq Procs
  BY Zenon DEF Holders, Workers, Makers
<1> HIDE DEF h, w, m
<1>2. /\ Cardinality(h \ {p}) \in Nat /\ Cardinality(h) = Cardinality(h \ {p}) + One(p, h)
      /\ Cardinality(w \ {p}) \in Nat /\ Cardinality(w) = Cardinality(w \ {p}) + One(p, w)
      /\ Cardinality(m \ {p}) \in Nat /\ Cardinality(m) = Cardinality(m \ {p}) + One(p, m)
  BY Zenon, <1>1, CardinalityApart
<1>3. One(p, h) \in Nat /\ One(p, w) \in Nat /\ One(p, m) \in Nat
  BY Zenon DEF One
<1>4. /\ Refs(e) = Rest(p, e) + Share(p, e)
      /\ Refs(e) \in Nat /\ Rest(p, e) \in Nat /\ Share(p, e) \in Nat
  BY <1>2, <1>3 DEF Refs, Rest, Share, h, w, m
<1>5. ASSUME Rest(p, e) = 0
      PROVE  h \subseteq {p} /\ w \subseteq {p} /\ m \subseteq {p}
  <2>1. Cardinality(h \ {p}) = 0 /\ Cardinality(w \ {p}) = 0 /\ Cardinality(m \ {p}) = 0
    BY <1>2, <1>5 DEF Rest, h, w, m
  <2>2. h \ {p} \in SUBSET Procs /\ w \ {p} \in SUBSET Procs /\ m \ {p} \in SUBSET Procs
    BY Zenon, <1>1
  <2>3. h \ {p} = {} /\ w \ {p} = {} /\ m \ {p} = {}
    BY Zenon, <2>1, <2>2 DEF Counting
  <2> QED
    BY Zenon, <2>3
<1> QED
  BY Zenon, <1>4, <1>5 DEF h, w, m

(* In a step of p, the references to an entry change by p's share alone. *)
LEMMA RefsStep ==
    ASSUME Counting, NEW p, NEW e, Others(p)
    PROVE  /\ Refs(e) = Rest(p, e) + Share(p, e)
           /\ Refs(e)' = Rest(p, e) + Share(p, e)'
           /\ Refs(e) \in Nat /\ Rest(p, e) \in Nat
           /\ Share(p, e) \in Nat /\ Share(p, e)' \in Nat
<1>1. /\ Holders(e)' \ {p} = Holders(e) \ {p}
      /\ Workers(e)' \ {p} = Workers(e) \ {p}
      /\ Makers(e)' \ {p} = Makers(e) \ {p}
  BY Zenon DEF Others, Holders, Workers, Makers
<1>2. Rest(p, e)' = Rest(p, e)
  BY <1>1, Zenon DEF Rest
<1>3. Refs(e)' = Rest(p, e)' + Share(p, e)' /\ Share(p, e)' \in Nat
  <2> DEFINE h == Holders(e)'
             w == Workers(e)'
             m == Makers(e)'
  <2>1. h \subseteq Procs /\ w \subseteq Procs /\ m \subseteq Procs
    BY Zenon DEF Holders, Workers, Makers
  <2> HIDE DEF h, w, m
  <2>3. /\ Cardinality(h \ {p}) \in Nat /\ Cardinality(h) = Cardinality(h \ {p}) + One(p, h)
        /\ Cardinality(w \ {p}) \in Nat /\ Cardinality(w) = Cardinality(w \ {p}) + One(p, w)
        /\ Cardinality(m \ {p}) \in Nat /\ Cardinality(m) = Cardinality(m \ {p}) + One(p, m)
    BY Zenon, <2>1, CardinalityApart
  <2>4. One(p, h) \in Nat /\ One(p, w) \in Nat /\ One(p, m) \in Nat
    BY Zenon DEF One
  <2> QED
    BY <2>3, <2>4 DEF Refs, Rest, Share, h, w, m
<1> QED
  BY <1>2, <1>3, RefsApart, Zenon

-----------------------------------------------------------------------------
(* What the invariant says in a state. *)

(* Something that is found in the hash table, or that a thread holds or     *)
(* works on, has a reference.                                               *)
LEMMA OwnedCounted ==
    ASSUME Counting, LruInv, NEW e \in alive,
           inavl[e] \/ \E p \in Procs : p \in Holders(e) \/ p \in Workers(e)
    PROVE  refcnt[e] \in Nat \ {0}
<1>1. refcnt[e] = Sentinel(e) + Refs(e) /\ Refs(e) \in Nat
  BY Zenon, RefsApart DEF LruInv, CountsExact
<1>2. CASE inavl[e]
  BY <1>1, <1>2 DEF Sentinel
<1>3. CASE \E p \in Procs : p \in Holders(e) \/ p \in Workers(e)
  <2>1. PICK p \in Procs : p \in Holders(e) \/ p \in Workers(e)
    BY Zenon, <1>3
  <2>2. Refs(e) = Rest(p, e) + Share(p, e) /\ Rest(p, e) \in Nat
    BY Zenon, RefsApart
  <2>3. Share(p, e) \in Nat \ {0}
    BY <2>1 DEF Share, One
  <2> QED
    BY <1>1, <2>2, <2>3 DEF Sentinel
<1> QED
  BY Zenon, <1>2, <1>3

(* The places where a thread is alone with its entry. *)
Exclusive(p) == Making(p) \/ pc[p] \in {"reclaim", "zero", "free"}

(* Nobody else has the entry that a thread is alone with. *)
LEMMA ExclusiveAlone ==
    ASSUME Counting, LruInv, NEW p \in Procs, NEW q \in Procs, p # q, Exclusive(q)
    PROVE  obj[q] \in alive /\ held[p] # obj[q] /\ obj[p] # obj[q]
<1>1. obj[q] \in alive
  <2>1. obj[q] # NoEntry
    BY Zenon DEF LruInv, Shape, ShapeOf, Exclusive, Making, Unreffing
  <2> QED
    BY Zenon, <2>1 DEF LruInv, Allocated
<1>2. CASE Making(q) \/ pc[q] = "reclaim"
  BY <1>1, <1>2, Zenon DEF LruInv, Private, PrivateOf, SecludedOf, EvictingOf, Alone
<1>3. CASE pc[q] \in {"zero", "free"}
  <2>1. /\ refcnt[obj[q]] = 0
        /\ pc[p] \in {"zero", "free"} => obj[p] # obj[q]
    BY Zenon, <1>3 DEF LruInv, Private, PrivateOf, DyingOf
  <2>2. p \notin Holders(obj[q]) /\ p \notin Workers(obj[q])
    BY Zenon, <1>1, <2>1, OwnedCounted
  <2> QED
    BY Zenon, <1>1, <2>1, <2>2 DEF Holders, Workers
<1> QED
  BY Zenon, <1>2, <1>3 DEF Exclusive

(* Whoever finds an entry on a queue that can be reaped, or in the table    *)
(* while nobody evicts it, finds one that no other thread is alone with.    *)
LEMMA QueuedShared ==
    ASSUME Counting, LruInv, NEW e \in Entries, qid[e] \in {"L1", "L2"}
    PROVE  /\ e \in alive /\ refcnt[e] \in Nat \ {0}
           /\ \A q \in Procs : Exclusive(q) => obj[q] # e
<1>1. e \in alive
  BY Zenon DEF LruInv, Allocated
<1>2. refcnt[e] \in Nat \ {0}
  <2>1. inavl[e] \/ \E t \in Threads : held[t] = e
    BY Zenon DEF LruInv, QueuedOwned
  <2>2. inavl[e] \/ \E p \in Procs : p \in Holders(e)
    BY Zenon, <2>1 DEF Holders, Procs
  <2> QED
    BY Zenon, <1>1, <2>2, OwnedCounted
<1>3. \A q \in Procs : Exclusive(q) => obj[q] # e
  BY Zenon, <1>2 DEF LruInv, Private, PrivateOf, SecludedOf, EvictingOf, DyingOf, Exclusive
<1> QED
  BY Zenon, <1>1, <1>2, <1>3

(* The same for an entry in the hash table. *)
LEMMA HashedShared ==
    ASSUME Counting, LruInv, NEW e \in Entries, inavl[e]
    PROVE  /\ e \in alive /\ refcnt[e] \in Nat \ {0}
           /\ \A q \in Procs : Exclusive(q) /\ pc[q] # "reclaim" => obj[q] # e
<1>1. e \in alive
  BY Zenon DEF LruInv, Allocated
<1>2. refcnt[e] \in Nat \ {0}
  BY Zenon, <1>1, OwnedCounted
<1>3. \A q \in Procs : Exclusive(q) /\ pc[q] # "reclaim" => obj[q] # e
  BY Zenon, <1>2 DEF LruInv, Private, PrivateOf, SecludedOf, DyingOf, Exclusive
<1> QED
  BY Zenon, <1>1, <1>2, <1>3

-----------------------------------------------------------------------------
(* A step is the work of one thread p on one entry x: the other threads and *)
(* the other entries keep what they have.  LocalStep draws the conclusion   *)
(* from what the step does to p and x alone.                                *)

Touches(p, x) ==
    /\ Others(p)
    /\ \A t \in Threads \ {p} : want'[t] = want[t]
    /\ \A e \in Entries \ {x} :
         /\ refcnt'[e] = refcnt[e] /\ qid'[e] = qid[e] /\ inavl'[e] = inavl[e]
         /\ e \in alive' <=> e \in alive
         /\ e \in cleaned' <=> e \in cleaned
    /\ {held'[p], obj'[p]} \subseteq {held[p], obj[p], x, NoEntry}
    /\ \A q \in Procs \ {p} : Exclusive(q) => obj[q] # x
    /\ \A q \in Procs \ {p} : pc[q] = "insert" /\ obj[q] = x =>
         inavl'[x] = inavl[x] /\ qid'[x] = qid[x]
    /\ (inavl'[x] => inavl[x]) \/ \A q \in Procs \ {p} : held[q] # x
    /\ x \in alive' \/ x = NoEntry \/ \A q \in Procs \ {p} : held[q] # x /\ obj[q] # x

(* The parts of the invariant that speak of p or of x. *)
LocalShape(p) ==
    /\ ShapeOf(p)
    /\ p \in Threads => WantOf(p)
    /\ scanned = NoLane <=> pc[LruThread] = "idle"
    /\ {held[p], obj[p]} \subseteq alive \cup {NoEntry}
    /\ PrivateOf(p)

LocalEntry(x) ==
    x \in Entries =>
        /\ qid[x] # "none" \/ inavl[x] => x \in alive
        /\ qid[x] \in {"L1", "L2"} =>
             inavl[x] \/ \E t \in Threads : pc[t] = "push" /\ held[t] = x
        /\ qid[x] = "cleanup" /\ x \notin cleaned => \E p \in Procs : WillWipe(p, x)
        /\ x \in alive /\ refcnt[x] = 0 =>
             \E p \in Procs : obj[p] = x /\ pc[p] \in {"zero", "free"}

LocalCount(p, x) ==
    /\ x \in alive' => refcnt'[x] = Sentinel(x)' + Rest(p, x) + Share(p, x)'
    /\ x \in alive /\ refcnt[x] = 0 => refcnt'[x] = 0
    /\ \A e \in Entries \ {x} : Share(p, e)' = Share(p, e)

FlagKept(p) ==
    \A e \in no_cleanup' : Guards(p, e)' \/ (e \in no_cleanup /\ ~Guards(p, e))

LocalProgress(p, x) ==
    /\ pc[p] = "push" => held[p] = x
    /\ pc[p] \in {"zero", "free"} => obj[p] = x
    /\ \A e \in Entries \ {x} : WillWipe(p, e) => WillWipe(p, e)'
    /\ FlagKept(p)

(* The threads that are alone with their entries stay so. *)
LEMMA LocalPrivate ==
    ASSUME Counting, LruInv, NEW p \in Procs, NEW x \in Entries \cup {NoEntry}, Touches(p, x),
           PrivateOf(p)'
    PROVE  Private'
<1> SUFFICES ASSUME NEW q \in Procs \ {p}
             PROVE  PrivateOf(q)'
  BY Zenon DEF Private
<1>1. /\ pc'[q] = pc[q] /\ ret'[q] = ret[q] /\ held'[q] = held[q] /\ obj'[q] = obj[q]
      /\ \A r \in Procs \ {p} : /\ pc'[r] = pc[r] /\ ret'[r] = ret[r]
                                /\ held'[r] = held[r] /\ obj'[r] = obj[r]
  BY Zenon DEF Touches, Others
<1>2. ASSUME Exclusive(q)
      PROVE  /\ held'[p] # obj[q] /\ obj'[p] # obj[q]
             /\ refcnt'[obj[q]] = refcnt[obj[q]]
             /\ qid'[obj[q]] = qid[obj[q]]
             /\ inavl'[obj[q]] = inavl[obj[q]]
  <2>1. obj[q] \in alive /\ held[p] # obj[q] /\ obj[p] # obj[q]
    BY Zenon, <1>2, ExclusiveAlone
  <2>2. obj[q] # x /\ obj[q] # NoEntry /\ obj[q] \in Entries
    BY Zenon, <1>2, <2>1, NoEntryAssumption DEF Touches, LruInv, TypeOK
  <2> QED
    BY Zenon, <2>1, <2>2 DEF Touches
<1>3. Making(q)' <=> Making(q)
  BY <1>1, Zenon DEF Making
<1>4. ASSUME Making(q) \/ pc[q] = "reclaim", Alone(q)
      PROVE  Alone(q)'
  <2>1. held'[p] # obj[q] /\ obj'[p] # obj[q]
    BY Zenon, <1>2, <1>4 DEF Exclusive
  <2> QED
    BY <1>1, <1>4, <2>1, Zenon DEF Alone
<1>5. SecludedOf(q)'
  <2> SUFFICES ASSUME Making(q)
               PROVE  ~inavl'[obj[q]] /\ qid'[obj[q]] = "none" /\ Alone(q)'
    BY Zenon, <1>1, <1>3 DEF SecludedOf
  <2>1. ~inavl[obj[q]] /\ qid[obj[q]] = "none" /\ Alone(q)
    BY Zenon DEF LruInv, Private, PrivateOf, SecludedOf
  <2> QED
    BY Zenon, <1>2, <1>4, <2>1 DEF Exclusive
<1>6. EvictingOf(q)'
  <2> SUFFICES ASSUME pc[q] = "reclaim"
               PROVE  inavl'[obj[q]] /\ qid'[obj[q]] = "none" /\ Alone(q)'
    BY Zenon, <1>1 DEF EvictingOf
  <2>1. inavl[obj[q]] /\ qid[obj[q]] = "none" /\ Alone(q)
    BY Zenon DEF LruInv, Private, PrivateOf, EvictingOf
  <2> QED
    BY Zenon, <1>2, <1>4, <2>1 DEF Exclusive
<1>7. InsertingOf(q)'
  <2> SUFFICES ASSUME pc[q] = "insert"
               PROVE  /\ inavl'[obj[q]] /\ qid'[obj[q]] = "none"
                      /\ \A r \in Procs \ {q} : pc'[r] = "insert" => obj'[r] # obj[q]
    BY Zenon, <1>1 DEF InsertingOf
  <2>1. /\ inavl[obj[q]] /\ qid[obj[q]] = "none"
        /\ \A r \in Procs \ {q} : pc[r] = "insert" => obj[r] # obj[q]
    BY Zenon DEF LruInv, Private, PrivateOf, InsertingOf
  <2>2. inavl'[obj[q]] = inavl[obj[q]] /\ qid'[obj[q]] = qid[obj[q]]
    <3>1. obj[q] \in Entries
      <4>1. obj[q] # NoEntry
        BY Zenon DEF LruInv, Shape, ShapeOf
      <4> QED
        BY Zenon, <4>1 DEF LruInv, TypeOK
    <3> QED
      BY Zenon, <3>1 DEF Touches
  <2>3. pc'[p] = "insert" => obj'[p] # obj[q]
    BY Zenon, <1>1 DEF PrivateOf, InsertingOf
  <2> QED
    BY Zenon, <1>1, <2>1, <2>2, <2>3
<1>8. DyingOf(q)'
  <2> SUFFICES ASSUME pc[q] \in {"zero", "free"}
               PROVE  /\ refcnt'[obj[q]] = 0 /\ ret[q] # "again"
                      /\ pc[q] = "free" => qid'[obj[q]] = "none"
                      /\ \A r \in Procs \ {q} : pc'[r] \in {"zero", "free"} => obj'[r] # obj[q]
    BY Zenon, <1>1 DEF DyingOf
  <2>1. /\ refcnt[obj[q]] = 0 /\ ret[q] # "again"
        /\ pc[q] = "free" => qid[obj[q]] = "none"
        /\ \A r \in Procs \ {q} : pc[r] \in {"zero", "free"} => obj[r] # obj[q]
    BY Zenon DEF LruInv, Private, PrivateOf, DyingOf
  <2>2. /\ obj'[p] # obj[q] /\ refcnt'[obj[q]] = refcnt[obj[q]]
        /\ qid'[obj[q]] = qid[obj[q]]
    BY Zenon, <1>2 DEF Exclusive
  <2> QED
    BY Zenon, <1>1, <2>1, <2>2
<1>9. PushingOf(q)'
  <2> SUFFICES ASSUME pc[q] = "push"
               PROVE  ~inavl'[held[q]]
    BY Zenon, <1>1 DEF PushingOf
  <2>1. ~inavl[held[q]]
    BY Zenon DEF LruInv, Private, PrivateOf, PushingOf
  <2>2. held[q] \in Entries
    <3>1. held[q] # NoEntry
      BY Zenon DEF LruInv, Shape, ShapeOf
    <3> QED
      BY Zenon, <3>1 DEF LruInv, TypeOK
  <2> QED
    BY Zenon, <2>1, <2>2 DEF Touches
<1> QED
  BY Zenon, <1>5, <1>6, <1>7, <1>8, <1>9 DEF PrivateOf

(* The counts stay exact, and a count that is zero stays zero. *)
LEMMA LocalCounts ==
    ASSUME Counting, LruInv, NEW p \in Procs, NEW x \in Entries \cup {NoEntry}, Touches(p, x),
           alive' \subseteq Entries, LocalCount(p, x)
    PROVE  /\ CountsExact'
           /\ \A e \in alive : refcnt[e] = 0 => refcnt'[e] = 0
<1>1. ASSUME NEW e \in alive'
      PROVE  refcnt'[e] = Sentinel(e)' + Refs(e)'
  <2>1. /\ Refs(e) = Rest(p, e) + Share(p, e)
        /\ Refs(e)' = Rest(p, e) + Share(p, e)'
        /\ Rest(p, e) \in Nat /\ Share(p, e)' \in Nat
    BY Zenon, RefsStep DEF Touches
  <2>2. CASE e = x
    <3>1. refcnt'[e] = Sentinel(e)' + Rest(p, e) + Share(p, e)'
      BY <2>2, Zenon DEF LocalCount
    <3>2. Sentinel(e)' \in Nat
      BY Zenon DEF Sentinel
    <3> QED
      BY <2>1, <3>1, <3>2
  <2>3. CASE e # x
    <3>1. e \in alive /\ refcnt'[e] = refcnt[e] /\ inavl'[e] = inavl[e]
      BY <2>3, Zenon DEF Touches
    <3>2. Share(p, e)' = Share(p, e)
      BY <2>3, Zenon DEF LocalCount
    <3>3. refcnt[e] = Sentinel(e) + Refs(e)
      BY <3>1, Zenon DEF LruInv, CountsExact
    <3>4. Sentinel(e)' = Sentinel(e)
      BY Zenon, <3>1 DEF Sentinel
    <3> QED
      BY Zenon, <2>1, <3>1, <3>2, <3>3, <3>4
  <2> QED
    BY Zenon, <2>2, <2>3
<1>2. ASSUME NEW e \in alive, refcnt[e] = 0
      PROVE  refcnt'[e] = 0
  BY Zenon, <1>2 DEF LocalCount, Touches, LruInv, TypeOK
<1> QED
  BY <1>1, <1>2, Zenon DEF CountsExact

(* A step of one thread on one entry keeps the invariant if it keeps what   *)
(* the invariant says of the two.                                           *)
LEMMA LocalStep ==
    ASSUME Counting, LruInv, NEW p \in Procs, NEW x \in Entries \cup {NoEntry}, Touches(p, x),
           TypeOK', Hashed', OnItsQueue', IteratorSafe',
           LocalShape(p)', LocalEntry(x)', LocalCount(p, x), LocalProgress(p, x)
    PROVE  /\ LruInv'
           /\ \A e \in alive : refcnt[e] = 0 => refcnt'[e] = 0
<1>1. \A r \in Procs \ {p} : /\ pc'[r] = pc[r] /\ ret'[r] = ret[r]
                             /\ held'[r] = held[r] /\ obj'[r] = obj[r]
  BY Zenon DEF Touches, Others
<1>2. \A e \in Entries \ {x} :
         /\ refcnt'[e] = refcnt[e] /\ qid'[e] = qid[e] /\ inavl'[e] = inavl[e]
         /\ e \in alive' <=> e \in alive
         /\ e \in cleaned' <=> e \in cleaned
  BY Zenon DEF Touches
<1>3. Private'
  BY Zenon, LocalPrivate DEF LocalShape
<1>4. CountsExact' /\ \A e \in alive : refcnt[e] = 0 => refcnt'[e] = 0
  <2>1. alive' \subseteq Entries
    BY Zenon DEF TypeOK
  <2> QED
    BY Zenon, <2>1, LocalCounts
<1>5. Shape'
  <2>1. ASSUME NEW q \in Procs \ {p}
        PROVE  ShapeOf(q)'
    <3>1. ShapeOf(q)
      BY Zenon DEF LruInv, Shape
    <3> QED
      BY <1>1, <3>1, Zenon DEF ShapeOf
  <2>2. ASSUME NEW t \in Threads \ {p}
        PROVE  WantOf(t)'
    <3>1. WantOf(t)
      BY Zenon DEF LruInv, Shape
    <3>2. pc'[t] = pc[t] /\ ret'[t] = ret[t] /\ want'[t] = want[t]
      BY Zenon, <1>1 DEF Touches, Procs
    <3> QED
      BY <3>1, <3>2, Zenon DEF WantOf
  <2> QED
    BY Zenon, <2>1, <2>2 DEF Shape, LocalShape
<1>6. Allocated'
  <2>1. ASSUME NEW q \in Procs
        PROVE  {held'[q], obj'[q]} \subseteq alive' \cup {NoEntry}
    <3>1. CASE q = p
      BY Zenon, <3>1 DEF LocalShape
    <3>2. CASE q # p
      <4>1. {held[q], obj[q]} \subseteq alive \cup {NoEntry} /\ alive \subseteq Entries
        BY Zenon DEF LruInv, Allocated, TypeOK
      <4>2. \A e \in {held[q], obj[q]} \ {NoEntry} : e \in alive'
        BY Zenon, <1>2, <3>2, <4>1 DEF Touches
      <4> QED
        BY Zenon, <1>1, <3>2, <4>2
    <3> QED
      BY Zenon, <3>1, <3>2
  <2>2. ASSUME NEW e \in Entries, qid'[e] # "none" \/ inavl'[e]
        PROVE  e \in alive'
    <3>1. CASE e = x
      BY Zenon, <2>2, <3>1 DEF LocalEntry
    <3>2. CASE e # x
      BY Zenon, <1>2, <2>2, <3>2 DEF LruInv, Allocated
    <3> QED
      BY Zenon, <3>1, <3>2
  <2> QED
    BY Zenon, <2>1, <2>2 DEF Allocated
<1>7. QueuedOwned'
  <2> SUFFICES ASSUME NEW e \in Entries, qid'[e] \in {"L1", "L2"}, ~inavl'[e]
               PROVE  \E t \in Threads : pc'[t] = "push" /\ held'[t] = e
    BY Zenon DEF QueuedOwned
  <2>1. CASE e = x
    BY Zenon, <2>1 DEF LocalEntry
  <2>2. CASE e # x
    <3>1. PICK t \in Threads : pc[t] = "push" /\ held[t] = e
      BY Zenon, <1>2, <2>2 DEF LruInv, QueuedOwned
    <3>2. t # p
      BY Zenon, <2>2, <3>1 DEF LocalProgress
    <3> QED
      BY Zenon, <1>1, <3>1, <3>2 DEF Procs
  <2> QED
    BY Zenon, <2>1, <2>2
<1>8. ToWipe'
  <2> SUFFICES ASSUME NEW e \in Entries, qid'[e] = "cleanup", e \notin cleaned'
               PROVE  \E q \in Procs : WillWipe(q, e)'
    BY Zenon DEF ToWipe
  <2>1. CASE e = x
    BY Zenon, <2>1 DEF LocalEntry
  <2>2. CASE e # x
    <3>1. PICK q \in Procs : WillWipe(q, e)
      BY Zenon, <1>2, <2>2 DEF LruInv, ToWipe
    <3>2. CASE q = p
      BY <2>2, <3>1, <3>2, Zenon DEF LocalProgress
    <3>3. CASE q # p
      BY Zenon, <1>1, <3>1, <3>3 DEF WillWipe
    <3> QED
      BY Zenon, <3>2, <3>3
  <2> QED
    BY Zenon, <2>1, <2>2
<1>10. Flagged'
  <2> SUFFICES ASSUME NEW e \in no_cleanup', ~Guards(p, e)'
               PROVE  \E q \in Procs : Guards(q, e)'
    BY Zenon DEF Flagged
  <2>1. e \in no_cleanup /\ ~Guards(p, e)
    BY Zenon DEF LocalProgress, FlagKept
  <2>2. PICK q \in Procs : Guards(q, e)
    BY Zenon, <2>1 DEF LruInv, Flagged
  <2>3. q # p
    BY Zenon, <2>1, <2>2
  <2> QED
    BY Zenon, <1>1, <2>2, <2>3 DEF Guards
<1>9. Freeing'
  <2> SUFFICES ASSUME NEW e \in alive', refcnt'[e] = 0
               PROVE  \E q \in Procs : obj'[q] = e /\ pc'[q] \in {"zero", "free"}
    BY Zenon DEF Freeing
  <2>0. e \in Entries
    BY Zenon DEF TypeOK
  <2>1. CASE e = x
    BY Zenon, <2>0, <2>1 DEF LocalEntry
  <2>2. CASE e # x
    <3>1. PICK q \in Procs : obj[q] = e /\ pc[q] \in {"zero", "free"}
      BY ZenonT(30), <1>2, <2>0, <2>2 DEF LruInv, Freeing
    <3>2. q # p
      BY Zenon, <2>2, <3>1 DEF LocalProgress
    <3> QED
      BY Zenon, <1>1, <3>1, <3>2
  <2> QED
    BY Zenon, <2>1, <2>2
<1> QED
  BY Zenon, <1>3, <1>4, <1>5, <1>6, <1>7, <1>8, <1>9, <1>10 DEF LruInv

-----------------------------------------------------------------------------
(* What the steps have in common. *)

(* The invariant holds after the step, and nothing is revived. *)
Kept == LruInv' /\ \A e \in alive : refcnt[e] = 0 => refcnt'[e] = 0

(* The hash table is kept by a step that does not touch it. *)
LEMMA HashedKept ==
    ASSUME Counting, LruInv, UNCHANGED <<key, inavl, table>>
    PROVE  Hashed'
<1>1. key' = key /\ inavl' = inavl /\ table' = table
  BY Zenon
<1> QED
  BY Zenon, <1>1 DEF LruInv, Hashed

(* The share of a thread, from what the thread has and where it is. *)
Weight(h, o, c, r, e) ==
    (IF h = e THEN 1 ELSE 0)
        + (IF o = e /\ c \notin {"zero", "free"} THEN 1 ELSE 0)
        + (IF o = e /\ (c \in {"fresh", "raced"} \/ (c \in {"unref", "wipe", "dec"} /\ r = "again"))
           THEN 1 ELSE 0)

(* The number of references case by case. *)
LEMMA WeightIs ==
    ASSUME NEW h, NEW o, NEW c, NEW r, NEW e
    PROVE  /\ h # e /\ o # e => Weight(h, o, c, r, e) = 0
           /\ h = e /\ o # e => Weight(h, o, c, r, e) = 1
           /\ h # e /\ o = e /\ c \in {"zero", "free"} => Weight(h, o, c, r, e) = 0
           /\ h # e /\ o = e /\ c \in {"fresh", "raced"} => Weight(h, o, c, r, e) = 2
           /\ h # e /\ o = e /\ c \in {"unref", "wipe", "dec"} =>
                Weight(h, o, c, r, e) = IF r = "again" THEN 2 ELSE 1
           /\ h # e /\ o = e /\ c \notin {"zero", "free", "fresh", "raced", "unref", "wipe", "dec"} =>
                Weight(h, o, c, r, e) = 1
  BY DEF Weight

(* Where a thread is tells its share, before the step and after it. *)
LEMMA ShareWeight ==
    ASSUME NEW p \in Procs, NEW e
    PROVE  /\ Share(p, e) = Weight(held[p], obj[p], pc[p], ret[p], e)
           /\ Share(p, e)' = Weight(held'[p], obj'[p], pc'[p], ret'[p], e)
<1>1. /\ p \in Holders(e) <=> held[p] = e
      /\ p \in Workers(e) <=> obj[p] = e /\ pc[p] \notin {"zero", "free"}
      /\ p \in Makers(e) <=> /\ obj[p] = e
                             /\ \/ pc[p] \in {"fresh", "raced"}
                                \/ pc[p] \in {"unref", "wipe", "dec"} /\ ret[p] = "again"
  BY Zenon DEF Holders, Workers, Makers
<1>2. /\ p \in Holders(e)' <=> held'[p] = e
      /\ p \in Workers(e)' <=> obj'[p] = e /\ pc'[p] \notin {"zero", "free"}
      /\ p \in Makers(e)' <=> /\ obj'[p] = e
                              /\ \/ pc'[p] \in {"fresh", "raced"}
                                 \/ pc'[p] \in {"unref", "wipe", "dec"} /\ ret'[p] = "again"
  BY Zenon DEF Holders, Workers, Makers
<1> QED
  BY Zenon, <1>1, <1>2 DEF Share, One, Weight

(* The count of an entry, with the share of one thread apart. *)
LEMMA CountApart ==
    ASSUME Counting, LruInv, NEW p \in Procs, NEW e \in alive
    PROVE  /\ refcnt[e] = Sentinel(e) + Rest(p, e)
                              + Weight(held[p], obj[p], pc[p], ret[p], e)
           /\ Rest(p, e) \in Nat
<1>1. refcnt[e] = Sentinel(e) + Refs(e)
  BY Zenon DEF LruInv, CountsExact
<1>2. Refs(e) = Rest(p, e) + Share(p, e) /\ Rest(p, e) \in Nat /\ Share(p, e) \in Nat
  BY Zenon, RefsApart
<1>3. Sentinel(e) \in Nat
  BY Zenon DEF Sentinel
<1> QED
  BY <1>1, <1>2, <1>3, ShareWeight

(* Between these places a thread keeps its references. *)
LEMMA ShareSame ==
    ASSUME NEW p \in Procs, held'[p] = held[p], obj'[p] = obj[p], ret'[p] = ret[p],
           \/ pc[p] \in {"zero", "free"} /\ pc'[p] \in {"zero", "free"}
           \/ pc[p] \in {"unref", "wipe", "dec"} /\ pc'[p] \in {"unref", "wipe", "dec"}
           \/ /\ pc[p] \notin {"zero", "free", "fresh", "raced", "unref", "wipe", "dec"}
              /\ pc'[p] \notin {"zero", "free", "fresh", "raced", "unref", "wipe", "dec"}
    PROVE  \A e : Share(p, e)' = Share(p, e)
<1> SUFFICES ASSUME NEW e
             PROVE  Share(p, e)' = Share(p, e)
  BY Zenon
<1>1. /\ Share(p, e) = Weight(held[p], obj[p], pc[p], ret[p], e)
      /\ Share(p, e)' = Weight(held'[p], obj'[p], pc'[p], ret'[p], e)
  BY Zenon, ShareWeight
<1>2. Weight(held'[p], obj'[p], pc'[p], ret'[p], e) = Weight(held[p], obj[p], pc'[p], ret[p], e)
  BY Zenon
<1>3. Weight(held[p], obj[p], pc[p], ret[p], e) = Weight(held[p], obj[p], pc'[p], ret[p], e)
  BY DEF Weight
<1> QED
  BY Zenon, <1>1, <1>2, <1>3

(* A thread takes a reference that it counts. *)
LEMMA CountUp ==
    ASSUME NEW p, NEW x, refcnt[x] \in Nat \ {0}, Rest(p, x) \in Nat,
           refcnt[x] = Sentinel(x) + Rest(p, x) + Share(p, x),
           Share(p, x) = 0, Share(p, x)' = 1,
           refcnt'[x] = refcnt[x] + 1, inavl' = inavl,
           \A e \in Entries \ {x} : Share(p, e)' = Share(p, e)
    PROVE  refcnt'[x] # 0 /\ LocalCount(p, x)
<1>1. Sentinel(x)' = Sentinel(x) /\ Sentinel(x) \in Nat
  BY Zenon DEF Sentinel
<1>2. refcnt'[x] = Sentinel(x) + Rest(p, x) + Share(p, x)'
  BY <1>1
<1> QED
  BY <1>1, <1>2 DEF LocalCount

(* Where a thread is, as the invariant has it. *)
LEMMA ThreadState ==
    ASSUME Counting, LruInv, NEW p \in Procs
    PROVE  /\ TypeOK /\ ShapeOf(p) /\ PrivateOf(p)
           /\ p \in Threads => WantOf(p)
           /\ held[p] \in alive \cup {NoEntry} /\ obj[p] \in alive \cup {NoEntry}
           /\ alive \subseteq Entries /\ NoEntry \notin alive
           /\ scanned = NoLane <=> pc[LruThread] = "idle"
  BY Zenon, NoEntryAssumption DEF LruInv, Shape, Private, Allocated, TypeOK

(* The LRU thread is none of the threads that execute requests. *)
LEMMA ThreadIsProc ==
    LruThread \in Procs /\ \A t \in Threads : t \in Procs /\ t # LruThread
  BY Zenon, ThreadsAssumption DEF Procs

(* At most places a thread is alone with nothing. *)
LEMMA SharedPlace ==
    ASSUME NEW p,
           \/ pc'[p] \in {"idle", "adjust", "get", "reap", "latch", "hold", "unguard", "put", "scan"}
           \/ pc'[p] \in {"unref", "wipe", "dec"} /\ ret'[p] \notin {"again", "hold"}
    PROVE  PrivateOf(p)'
  BY Zenon DEF PrivateOf, SecludedOf, EvictingOf, InsertingOf, DyingOf, PushingOf, Making, Unreffing

(* If nobody else has an entry, nobody else has references to it. *)
LEMMA RestNone ==
    ASSUME Counting, NEW p, NEW e, \A q \in Procs \ {p} : held[q] # e /\ obj[q] # e
    PROVE  Rest(p, e) = 0
<1>1. Holders(e) \ {p} = {} /\ Workers(e) \ {p} = {} /\ Makers(e) \ {p} = {}
  BY Zenon DEF Holders, Workers, Makers
<1>2. Cardinality({}) = 0
  BY Zenon DEF Counting
<1> QED
  BY <1>1, <1>2 DEF Rest

(* _mdcache_lru_ref moves an entry within the queues that can be reaped. *)
LEMMA BumpSafe ==
    ASSUME Counting, LruInv, NEW e \in Entries, Bump(e), scanned' = scanned
    PROVE  /\ queue' \in [Lanes \X QueueId -> Seq(Entries)]
           /\ qid' \in [Entries -> QueueId \cup {"none"}]
           /\ glistn' \in Entries \cup {NoEntry}
           /\ OnItsQueue' /\ IteratorSafe'
           /\ \A y \in Entries \ {e} : qid'[y] = qid[y]
           /\ IF qid[e] \in {"L1", "L2"} THEN qid'[e] = "L1" ELSE qid'[e] = qid[e]
<1>1. TypeOK /\ OnItsQueue /\ IteratorSafe
  BY Zenon DEF LruInv
<1>2. CASE qid[e] \in {"L1", "L2"}
  <2>1. Moves(e, "L1")
    BY Zenon, <1>2 DEF Bump, Moves
  <2>2. "L1" \in QueueId \cup {"none"}
    BY Zenon DEF QueueId
  <2>3. /\ queue' \in [Lanes \X QueueId -> Seq(Entries)]
        /\ qid' = [qid EXCEPT ![e] = "L1"]
        /\ glistn' \in Entries \cup {NoEntry}
        /\ OnItsQueue' /\ IteratorSafe'
    BY <1>1, <2>1, <2>2, MovesSafe, Zenon
  <2> QED
    BY Zenon, <1>1, <1>2, <2>2, <2>3 DEF TypeOK
<1>3. CASE qid[e] \notin {"L1", "L2"}
  <2>1. queue' = queue /\ qid' = qid /\ glistn' = glistn
    BY Zenon, <1>3 DEF Bump
  <2>2. OnItsQueue' /\ IteratorSafe'
    BY Zenon, <1>1, <2>1, QueuesKept
  <2> QED
    BY Zenon, <1>1, <1>3, <2>1, <2>2 DEF TypeOK
<1> QED
  BY Zenon, <1>2, <1>3

(* A thread that moves on without changing an entry, a queue or the table,  *)
(* and with the references it had, keeps the invariant.                     *)
LEMMA QuietStep ==
    ASSUME Counting, LruInv, NEW p \in Procs, TypeOK', Others(p),
           \A t \in Threads \ {p} : want'[t] = want[t],
           UNCHANGED <<alive, refcnt, qid, key, inavl, cleaned, queue, table>>, FlagKept(p),
           held'[p] = held[p], obj'[p] = obj[p],
           IteratorSafe', LocalShape(p)',
           pc[p] \notin {"push", "zero", "free"},
           \A e \in Entries : /\ Weight(held'[p], obj'[p], pc'[p], ret'[p], e)
                                   = Weight(held[p], obj[p], pc[p], ret[p], e)
                              /\ WillWipe(p, e) => WillWipe(p, e)'
    PROVE  Kept
<1> DEFINE x == NoEntry
<1>1. /\ alive' = alive /\ refcnt' = refcnt /\ qid' = qid /\ inavl' = inavl
      /\ cleaned' = cleaned /\ queue' = queue
  BY Zenon
<1>2. x \notin Entries /\ x \notin alive /\ x \notin alive'
  BY Zenon, <1>1, NoEntryAssumption DEF LruInv, TypeOK
<1>3. \A q \in Procs \ {p} : Exclusive(q) => obj[q] # x
  BY Zenon, <1>2, ExclusiveAlone
<1>4. \A q \in Procs \ {p} : pc[q] = "insert" => obj[q] # x
  BY Zenon DEF LruInv, Shape, ShapeOf
<1>5. Touches(p, x)
  BY Zenon, <1>1, <1>3, <1>4 DEF Touches
<1>6. LocalEntry(x)'
  BY Zenon, <1>2 DEF LocalEntry
<1>7. LocalCount(p, x)
  BY Zenon, <1>1, <1>2, ShareWeight DEF LocalCount
<1>8. LocalProgress(p, x)
  BY Zenon DEF LocalProgress
<1>9. Hashed' /\ OnItsQueue'
  BY Zenon, <1>1, HashedKept, QueuesSame DEF LruInv
<1> QED
  BY Zenon, <1>5, <1>6, <1>7, <1>8, <1>9, LocalStep DEF Kept

-----------------------------------------------------------------------------
(* Lookups. *)

(* mdcache_find_keyed_reason keeps the invariant. *)
LEMMA FindStep ==
    ASSUME Counting, LruInv, NEW t \in Threads, NEW k \in Keys, NEW scan \in BOOLEAN, Find(t, k, scan)
    PROVE  Kept
<1>1. t \in Procs /\ t # LruThread /\ TypeOK /\ ShapeOf(t) /\ pc[t] = "idle"
  BY Zenon, ThreadsAssumption DEF Procs, LruInv, Shape, Find
<1>2. held[t] = NoEntry /\ obj[t] = NoEntry
  BY Zenon, <1>1 DEF ShapeOf, Unreffing
<1>3. /\ UNCHANGED <<alive, qid, fields, queue, table, iterator, glistn, obj, tries, ret>>
      /\ alive' = alive /\ qid' = qid /\ inavl' = inavl /\ cleaned' = cleaned /\ no_cleanup' = no_cleanup
      /\ obj' = obj /\ ret' = ret /\ scanned' = scanned
  BY Zenon DEF Find, fields, iterator
<1>4. Hashed' /\ OnItsQueue' /\ IteratorSafe'
  BY Zenon, <1>3, HashedKept, QueuesKept DEF LruInv, fields, iterator
<1>5. PICK x \in Entries \cup {NoEntry} : x = table[k]
  BY Zenon DEF LruInv, TypeOK
<1>6. CASE x = NoEntry
  <2>1. /\ pc' = [pc EXCEPT ![t] = "get"]
        /\ want' = [want EXCEPT ![t] = k]
        /\ refcnt' = refcnt /\ held' = held
    BY Zenon, <1>5, <1>6 DEF Find, Goto
  <2>2. TypeOK'
    BY Zenon, <1>1, <1>3, <2>1 DEF TypeOK, Places, fields, iterator
  <2>3. /\ Others(t) /\ \A r \in Threads \ {t} : want'[r] = want[r]
        /\ pc'[LruThread] = pc[LruThread]
    BY Zenon, <1>1, <1>3, <2>1 DEF Others, TypeOK, Procs
  <2>4. LocalShape(t)'
    BY <1>1, <1>2, <1>3, <2>1 DEF TypeOK, LocalShape, ShapeOf, WantOf, Unreffing,
       LruInv, Shape, PrivateOf, SecludedOf, EvictingOf, InsertingOf, DyingOf, PushingOf, Making
  <2>5. /\ pc'[t] = "get" /\ ret'[t] = ret[t] /\ held'[t] = NoEntry /\ obj'[t] = NoEntry
    BY Zenon, <1>1, <1>2, <1>3, <2>1 DEF TypeOK
  <2>6. \A e \in Entries : /\ Weight(held'[t], obj'[t], pc'[t], ret'[t], e)
                                = Weight(held[t], obj[t], pc[t], ret[t], e)
                           /\ WillWipe(t, e) => WillWipe(t, e)'
    BY Zenon, <1>2, <2>5, NoEntryAssumption DEF Weight, WillWipe
  <2>7. FlagKept(t)
    BY Zenon, <1>1, <1>3 DEF FlagKept, Guards, Unreffing
  <2> QED
    BY Zenon, <1>1, <1>2, <1>3, <1>4, <2>1, <2>2, <2>3, <2>4, <2>5, <2>6, <2>7, QuietStep DEF fields
<1>7. CASE x # NoEntry
  <2> DEFINE place == IF scan THEN "hold" ELSE "adjust"
  <2>1. /\ pc' = [pc EXCEPT ![t] = place]
        /\ want' = [want EXCEPT ![t] = IF scan THEN NoKey ELSE k]
        /\ refcnt' = [refcnt EXCEPT ![x] = @ + 1]
        /\ held' = [held EXCEPT ![t] = x]
        /\ Writing(k) = {}
    BY Zenon, <1>5, <1>7 DEF Find, Goto, IncRef, MayRead
  <2>2. TypeOK'
    BY <1>1, <1>3, <1>7, <2>1 DEF TypeOK, Places, fields, iterator
  <2>3. /\ Others(t) /\ \A r \in Threads \ {t} : want'[r] = want[r]
        /\ pc'[LruThread] = pc[LruThread]
    BY Zenon, <1>1, <1>3, <2>1 DEF Others, TypeOK, Procs
  <2>4. /\ pc'[t] = place /\ ret'[t] = ret[t] /\ held'[t] = x /\ obj'[t] = NoEntry
        /\ want'[t] = IF scan THEN NoKey ELSE k
        /\ refcnt'[x] = refcnt[x] + 1 /\ \A e \in Entries \ {x} : refcnt'[e] = refcnt[e]
    BY Zenon, <1>1, <1>2, <1>3, <1>7, <2>1 DEF TypeOK
  <2>5. inavl[x] /\ key[x] = k /\ x \in Entries
    BY Zenon, <1>5, <1>7 DEF LruInv, Hashed
  <2>6. x \in alive /\ refcnt[x] \in Nat \ {0}
    BY Zenon, <2>5, HashedShared
  <2>7. Touches(t, x)
    <3>1. ASSUME NEW q \in Procs \ {t}, Exclusive(q)
          PROVE  obj[q] # x
      <4>1. pc[q] = "reclaim" => q \in Threads
        BY Zenon DEF LruInv, Shape, ShapeOf, Procs, Unreffing
      <4>2. ~(pc[q] = "reclaim" /\ obj[q] = x)
        BY Zenon, <2>1, <2>5, <4>1 DEF Writing
      <4> QED
        BY Zenon, <2>5, <3>1, <4>2, HashedShared
    <3> QED
      BY Zenon, <1>2, <1>3, <2>3, <2>4, <2>6, <3>1 DEF Touches
  <2>8. LocalShape(t)'
    BY ZenonT(30), <1>1, <1>3, <1>7, <2>3, <2>4, <2>6 DEF LocalShape, ShapeOf, WantOf, Unreffing, Looking,
       LruInv, Shape, PrivateOf, SecludedOf, EvictingOf, InsertingOf, DyingOf, PushingOf, Making
  <2>9. LocalEntry(x)'
    <3>1. refcnt[x] + 1 # 0
      BY <2>6
    <3>2. WillWipe(t, x)'
      BY Zenon, <2>4 DEF WillWipe
    <3> QED
      BY Zenon, <1>1, <1>3, <2>4, <2>5, <2>6, <3>1, <3>2 DEF LocalEntry
  <2>10. LocalCount(t, x)
    <3>1. refcnt[x] = Sentinel(x) + Rest(t, x) + Share(t, x) /\ Rest(t, x) \in Nat
      BY Zenon, <1>1, <2>6, CountApart, ShareWeight
    <3>2. \A e : /\ Share(t, e)' = Weight(x, NoEntry, place, ret[t], e)
                 /\ Share(t, e) = Weight(NoEntry, NoEntry, "idle", ret[t], e)
      BY Zenon, <1>1, <1>2, <2>4, ShareWeight
    <3>3. /\ Share(t, x)' = 1 /\ Share(t, x) = 0
          /\ \A e \in Entries \ {x} : Share(t, e)' = Share(t, e)
      BY <2>5, <3>2, NoEntryAssumption DEF Weight
    <3> QED
      BY Zenon, <1>3, <2>4, <2>6, <3>1, <3>3, CountUp
  <2>11. LocalProgress(t, x)
    BY Zenon, <1>3, <1>1, <1>2, NoEntryAssumption DEF LocalProgress, FlagKept, Guards, WillWipe, Unreffing
  <2> QED
    BY Zenon, <1>1, <1>4, <2>2, <2>7, <2>8, <2>9, <2>10, <2>11, LocalStep DEF Kept
<1> QED
  BY Zenon, <1>6, <1>7

(* The second half of a lookup. *)
LEMMA AdjustStep ==
    ASSUME Counting, LruInv, NEW t \in Threads, Adjust(t)
    PROVE  Kept
<1>1. t \in Procs /\ t # LruThread /\ pc[t] = "adjust"
  BY Zenon, ThreadIsProc DEF Adjust
<1>2. /\ TypeOK /\ ShapeOf(t) /\ held[t] \in alive /\ obj[t] = NoEntry
      /\ alive \subseteq Entries /\ NoEntry \notin alive
      /\ scanned = NoLane <=> pc[LruThread] = "idle"
  BY Zenon, <1>1, ThreadState DEF ShapeOf, Unreffing
<1>3. PICK x \in Entries : x = held[t]
  BY Zenon, <1>2
<1>4. /\ alive' = alive /\ refcnt' = refcnt /\ key' = key /\ inavl' = inavl
      /\ cleaned' = cleaned /\ no_cleanup' = no_cleanup /\ table' = table /\ scanned' = scanned /\ workdone' = workdone
      /\ held' = held /\ obj' = obj /\ tries' = tries /\ ret' = ret
      /\ pc' = [pc EXCEPT ![t] = "hold"] /\ want' = [want EXCEPT ![t] = NoKey]
      /\ Bump(x)
  BY Zenon, <1>3 DEF Adjust, Goto, fields, iterator
<1>5. /\ queue' \in [Lanes \X QueueId -> Seq(Entries)]
      /\ qid' \in [Entries -> QueueId \cup {"none"}]
      /\ glistn' \in Entries \cup {NoEntry}
      /\ OnItsQueue' /\ IteratorSafe'
      /\ \A y \in Entries \ {x} : qid'[y] = qid[y]
      /\ IF qid[x] \in {"L1", "L2"} THEN qid'[x] = "L1" ELSE qid'[x] = qid[x]
  BY <1>4, BumpSafe, Zenon
<1>6. TypeOK' /\ Hashed'
  BY Zenon, <1>2, <1>4, <1>5, HashedKept DEF TypeOK, Places
<1>7. /\ pc'[t] = "hold" /\ \A q \in Procs \ {t} : pc'[q] = pc[q]
      /\ \A r \in Threads \ {t} : want'[r] = want[r]
  BY <1>1, <1>2, <1>4, Zenon DEF TypeOK
<1>8. Touches(t, x)
  <2>1. \A q \in Procs \ {t} : Exclusive(q) => obj[q] # x
    BY <1>1, <1>3, ExclusiveAlone, Zenon
  <2>2. \A q \in Procs \ {t} : pc[q] = "insert" /\ obj[q] = x => qid[x] = "none"
    BY Zenon DEF LruInv, Private, PrivateOf, InsertingOf
  <2> QED
    BY Zenon, <1>2, <1>3, <1>4, <1>5, <1>7, <2>1, <2>2 DEF Touches, Others
<1>9. LocalShape(t)'
  <2>1. PrivateOf(t)'
    BY Zenon, <1>7, SharedPlace
  <2> QED
    BY Zenon, <1>1, <1>2, <1>4, <1>7, <2>1, ThreadIsProc DEF LocalShape, ShapeOf, WantOf, Unreffing, Looking
<1>10. LocalEntry(x)'
  <2>1. refcnt[x] # 0
    BY Zenon, <1>1, <1>2, <1>3, OwnedCounted DEF Holders
  <2>2. qid[x] \in {"L1", "L2"} => inavl[x] \/ \E r \in Threads : pc[r] = "push" /\ held[r] = x
    BY Zenon DEF LruInv, QueuedOwned
  <2> QED
    BY Zenon, <1>1, <1>2, <1>3, <1>4, <1>5, <1>7, <2>1, <2>2, ThreadIsProc DEF LocalEntry, WillWipe
<1>11. LocalCount(t, x)
  <2>1. \A e : Share(t, e)' = Share(t, e)
    BY Zenon, <1>1, <1>4, <1>7, ShareSame
  <2>2. refcnt[x] = Sentinel(x) + Rest(t, x) + Share(t, x)
    BY <1>1, <1>2, <1>3, CountApart, ShareWeight, Zenon
  <2> QED
    BY Zenon, <1>4, <2>1, <2>2 DEF LocalCount, Sentinel
<1>12. LocalProgress(t, x)
  BY Zenon, <1>1, <1>4, <1>7 DEF LocalProgress, FlagKept, Guards, WillWipe, Unreffing
<1> QED
  BY <1>1, <1>5, <1>6, <1>8, <1>9, <1>10, <1>11, <1>12, LocalStep, Zenon DEF Kept

(* The loser of a race finds the winner's entry, and keeps its own apart. *)
LEMMA AdjustRacedStep ==
    ASSUME Counting, LruInv, NEW t \in Threads, AdjustRaced(t)
    PROVE  Kept
<1>1. t \in Procs /\ t # LruThread /\ pc[t] = "raced"
  BY Zenon, ThreadIsProc DEF AdjustRaced
<1>2. /\ TypeOK /\ ShapeOf(t) /\ held[t] \in alive /\ obj[t] \in alive
      /\ alive \subseteq Entries /\ NoEntry \notin alive
      /\ scanned = NoLane <=> pc[LruThread] = "idle"
  BY Zenon, <1>1, ThreadState DEF ShapeOf, Unreffing
<1>3. PICK x \in Entries, o \in Entries : x = held[t] /\ o = obj[t]
  BY Zenon, <1>2
<1>4. ~inavl[o] /\ qid[o] = "none" /\ Alone(t) /\ x # o
  BY Zenon, <1>1, <1>3, ThreadState DEF PrivateOf, SecludedOf, Making, Alone
<1>5. /\ alive' = alive /\ refcnt' = refcnt /\ key' = key /\ inavl' = inavl
      /\ cleaned' = cleaned /\ no_cleanup' = no_cleanup /\ table' = table /\ scanned' = scanned /\ workdone' = workdone
      /\ held' = held /\ obj' = obj /\ tries' = tries /\ ret' = [ret EXCEPT ![t] = "again"]
      /\ pc' = [pc EXCEPT ![t] = "unref"] /\ want' = [want EXCEPT ![t] = NoKey]
      /\ Bump(x)
  BY Zenon, <1>3 DEF AdjustRaced, Goto, fields, iterator
<1>6. /\ queue' \in [Lanes \X QueueId -> Seq(Entries)]
      /\ qid' \in [Entries -> QueueId \cup {"none"}]
      /\ glistn' \in Entries \cup {NoEntry}
      /\ OnItsQueue' /\ IteratorSafe'
      /\ \A y \in Entries \ {x} : qid'[y] = qid[y]
      /\ IF qid[x] \in {"L1", "L2"} THEN qid'[x] = "L1" ELSE qid'[x] = qid[x]
  BY <1>5, BumpSafe, Zenon
<1>7. TypeOK' /\ Hashed'
  BY Zenon, <1>2, <1>5, <1>6, HashedKept DEF TypeOK, Places
<1>8. /\ pc'[t] = "unref" /\ ret'[t] = "again"
      /\ \A q \in Procs \ {t} : pc'[q] = pc[q] /\ ret'[q] = ret[q]
      /\ \A r \in Threads \ {t} : want'[r] = want[r]
  BY <1>1, <1>2, <1>5, Zenon DEF TypeOK
<1>9. Touches(t, x)
  <2>1. \A q \in Procs \ {t} : Exclusive(q) => obj[q] # x
    BY <1>1, <1>3, ExclusiveAlone, Zenon
  <2>2. \A q \in Procs \ {t} : pc[q] = "insert" /\ obj[q] = x => qid[x] = "none"
    BY Zenon DEF LruInv, Private, PrivateOf, InsertingOf
  <2> QED
    BY Zenon, <1>2, <1>3, <1>5, <1>6, <1>8, <2>1, <2>2 DEF Touches, Others
<1>10. LocalShape(t)'
  <2>1. Alone(t)'
    BY Zenon, <1>4, <1>5 DEF Alone
  <2>2. PrivateOf(t)'
    BY Zenon, <1>3, <1>4, <1>5, <1>6, <1>8, <2>1
       DEF PrivateOf, SecludedOf, EvictingOf, InsertingOf, DyingOf, PushingOf
  <2> QED
    BY Zenon, <1>1, <1>2, <1>5, <1>8, <2>2, ThreadIsProc DEF LocalShape, ShapeOf, WantOf, Unreffing, Looking
<1>11. LocalEntry(x)'
  <2>1. refcnt[x] # 0
    BY Zenon, <1>1, <1>2, <1>3, OwnedCounted DEF Holders
  <2>2. qid[x] \in {"L1", "L2"} => inavl[x] \/ \E r \in Threads : pc[r] = "push" /\ held[r] = x
    BY Zenon DEF LruInv, QueuedOwned
  <2> QED
    BY ZenonT(30), <1>1, <1>2, <1>3, <1>5, <1>6, <1>8, <2>1, <2>2, ThreadIsProc DEF LocalEntry, WillWipe
<1>12. LocalCount(t, x)
  <2>1. \A e : /\ Share(t, e)' = Weight(x, o, "unref", "again", e)
               /\ Share(t, e) = Weight(x, o, "raced", ret[t], e)
    BY ZenonT(30), <1>1, <1>2, <1>3, <1>5, <1>8, ShareWeight
  <2>2. \A e : Share(t, e)' = Share(t, e)
    BY <2>1 DEF Weight
  <2>3. refcnt[x] = Sentinel(x) + Rest(t, x) + Share(t, x)
    BY <1>1, <1>2, <1>3, CountApart, ShareWeight, Zenon
  <2> QED
    BY Zenon, <1>5, <2>2, <2>3 DEF LocalCount, Sentinel
<1>13. LocalProgress(t, x)
  BY Zenon, <1>1, <1>5, <1>8 DEF LocalProgress, FlagKept, Guards, WillWipe, Unreffing
<1> QED
  BY <1>1, <1>6, <1>7, <1>9, <1>10, <1>11, <1>12, <1>13, LocalStep, Zenon DEF Kept

(* The first of its two references is gone; it puts the second. *)
LEMMA PutAgainStep ==
    ASSUME Counting, LruInv, NEW t \in Threads, PutAgain(t)
    PROVE  Kept
<1>1. t \in Procs /\ t # LruThread /\ pc[t] = "again"
  BY Zenon, ThreadIsProc DEF PutAgain
<1>2. /\ TypeOK /\ ShapeOf(t) /\ held[t] \in alive /\ obj[t] \in alive
      /\ NoEntry \notin alive
      /\ scanned = NoLane <=> pc[LruThread] = "idle"
  BY Zenon, <1>1, ThreadState DEF ShapeOf, Unreffing
<1>3. ~inavl[obj[t]] /\ qid[obj[t]] = "none" /\ Alone(t)
  BY Zenon, <1>1, ThreadState DEF PrivateOf, SecludedOf, Making
<1>4. /\ UNCHANGED <<alive, refcnt, qid, key, inavl, cleaned, no_cleanup, queue, table>>
      /\ alive' = alive /\ qid' = qid /\ inavl' = inavl
      /\ scanned' = scanned /\ workdone' = workdone /\ glistn' = glistn
      /\ held' = held /\ obj' = obj /\ tries' = tries /\ want' = want
      /\ ret' = [ret EXCEPT ![t] = "hold"] /\ pc' = [pc EXCEPT ![t] = "unref"]
  BY Zenon DEF PutAgain, Goto, fields, iterator
<1>5. TypeOK' /\ IteratorSafe'
  BY Zenon, <1>2, <1>4, QueuesKept DEF TypeOK, Places, LruInv
<1>6. /\ pc'[t] = "unref" /\ ret'[t] = "hold"
      /\ \A q \in Procs \ {t} : pc'[q] = pc[q] /\ ret'[q] = ret[q]
  BY <1>1, <1>2, <1>4, Zenon DEF TypeOK
<1>7. LocalShape(t)'
  <2>1. Alone(t)'
    BY Zenon, <1>3, <1>4 DEF Alone
  <2>2. PrivateOf(t)'
    BY Zenon, <1>3, <1>4, <1>6, <2>1
       DEF PrivateOf, SecludedOf, EvictingOf, InsertingOf, DyingOf, PushingOf
  <2> QED
    BY Zenon, <1>1, <1>2, <1>4, <1>6, <2>2, ThreadIsProc DEF LocalShape, ShapeOf, WantOf, Unreffing, Looking
<1>8. \A e \in Entries : /\ Weight(held'[t], obj'[t], pc'[t], ret'[t], e)
                              = Weight(held[t], obj[t], pc[t], ret[t], e)
                         /\ WillWipe(t, e) => WillWipe(t, e)'
  BY Zenon, <1>1, <1>4, <1>6 DEF Weight, WillWipe
<1>9. Others(t)
  BY Zenon, <1>4, <1>6 DEF Others
<1>10. FlagKept(t)
  BY Zenon, <1>1, <1>4 DEF FlagKept, Guards, Unreffing
<1> QED
  BY Zenon, <1>1, <1>4, <1>5, <1>7, <1>8, <1>9, <1>10, QuietStep

-----------------------------------------------------------------------------
(* mdcache_lru_get. *)

(* A new entry is its creator's alone. *)
LEMMA AllocStep ==
    ASSUME Counting, LruInv, NEW t \in Threads, NEW x \in Entries, pc[t] \in {"get", "reap"},
           Alloc(t, x), tries' \in [Threads -> Nat]
    PROVE  Kept
<1>1. t \in Procs /\ t # LruThread /\ x \notin alive
  BY Zenon, ThreadIsProc DEF Alloc
<1>2. /\ TypeOK /\ ShapeOf(t) /\ WantOf(t) /\ held[t] = NoEntry /\ obj[t] = NoEntry
      /\ alive \subseteq Entries /\ NoEntry \notin alive
      /\ scanned = NoLane <=> pc[LruThread] = "idle"
  BY Zenon, <1>1, ThreadState DEF ShapeOf, Unreffing
<1>3. ~inavl[x] /\ qid[x] = "none"
  BY <1>1, Zenon DEF LruInv, Allocated
<1>4. /\ alive' = alive \cup {x} /\ refcnt' = [refcnt EXCEPT ![x] = 2]
      /\ key' = key /\ inavl' = inavl /\ qid' = qid /\ queue' = queue /\ glistn' = glistn
      /\ cleaned' = cleaned /\ no_cleanup' = no_cleanup /\ table' = table /\ scanned' = scanned /\ workdone' = workdone
      /\ held' = held /\ obj' = [obj EXCEPT ![t] = x] /\ ret' = ret
      /\ pc' = [pc EXCEPT ![t] = "fresh"] /\ want' = want
  BY Zenon DEF Alloc, Goto, fields, iterator
<1>5. TypeOK' /\ Hashed' /\ OnItsQueue' /\ IteratorSafe'
  <2>1. TypeOK'
    BY Zenon, <1>2, <1>4 DEF TypeOK, Places
  <2> QED
    BY Zenon, <1>4, <2>1, HashedKept, QueuesKept DEF LruInv
<1>6. /\ pc'[t] = "fresh" /\ obj'[t] = x
      /\ \A q \in Procs \ {t} : pc'[q] = pc[q] /\ obj'[q] = obj[q]
      /\ refcnt'[x] = 2 /\ \A e \in Entries \ {x} : refcnt'[e] = refcnt[e]
  BY <1>1, <1>2, <1>4, Zenon DEF TypeOK
<1>7. \A q \in Procs : held[q] # x /\ obj[q] # x
  BY Zenon, <1>1, ThreadState, NoEntryAssumption
<1>8. Touches(t, x)
  BY Zenon, <1>4, <1>6, <1>7 DEF Touches, Others
<1>9. LocalShape(t)'
  <2>1. Alone(t)'
    BY Zenon, <1>4, <1>6, <1>7 DEF Alone
  <2>2. PrivateOf(t)'
    BY Zenon, <1>3, <1>4, <1>6, <2>1
       DEF PrivateOf, SecludedOf, EvictingOf, InsertingOf, DyingOf, PushingOf
  <2> QED
    BY Zenon, <1>1, <1>2, <1>4, <1>6, <2>2, ThreadIsProc, NoEntryAssumption
       DEF LocalShape, ShapeOf, WantOf, Unreffing, Looking
<1>10. LocalEntry(x)'
  <2>1. refcnt'[x] # 0
    BY <1>6
  <2> QED
    BY Zenon, <2>1, <1>3, <1>4, <1>6 DEF LocalEntry
<1>11. LocalCount(t, x)
  <2>1. Rest(t, x) = 0
    BY Zenon, <1>7, RestNone
  <2>2. /\ Share(t, x)' = Weight(NoEntry, x, "fresh", ret[t], x)
        /\ \A e \in Entries \ {x} : Share(t, e)' = Weight(NoEntry, x, "fresh", ret[t], e)
        /\ \A e : Share(t, e) = Weight(NoEntry, NoEntry, pc[t], ret[t], e)
    BY ZenonT(30), <1>1, <1>2, <1>4, <1>6, ShareWeight
  <2>3. Share(t, x)' = 2
    BY <2>2, NoEntryAssumption DEF Weight
  <2>4. \A e \in Entries \ {x} : Share(t, e)' = Share(t, e)
    BY Zenon, <2>2, NoEntryAssumption DEF Weight
  <2> QED
    <3>1. Sentinel(x)' = 0
      BY Zenon, <1>3, <1>4 DEF Sentinel
    <3>2. 2 = Sentinel(x)' + Rest(t, x) + Share(t, x)'
      BY <2>1, <2>3, <3>1
    <3> QED
      BY Zenon, <1>1, <1>6, <2>4, <3>2 DEF LocalCount
<1>12. LocalProgress(t, x)
  BY Zenon, <1>4, <1>1, <1>2, NoEntryAssumption DEF LocalProgress, FlagKept, Guards, WillWipe, Unreffing
<1> QED
  BY <1>1, <1>5, <1>8, <1>9, <1>10, <1>11, <1>12, LocalStep, Zenon DEF Kept

(* At the high-water mark, or when a lane has nothing to reap, a thread     *)
(* only moves on.                                                           *)
LEMMA SeekStep ==
    ASSUME Counting, LruInv, NEW t \in Threads, GetAtMark(t) \/ ReapNothing(t)
    PROVE  Kept
<1>1. t \in Procs /\ t # LruThread /\ pc[t] \in {"get", "reap"}
  BY Zenon, ThreadIsProc DEF GetAtMark, ReapNothing
<1>2. /\ TypeOK /\ ShapeOf(t) /\ WantOf(t) /\ held[t] = NoEntry /\ obj[t] = NoEntry
      /\ scanned = NoLane <=> pc[LruThread] = "idle"
  BY Zenon, <1>1, ThreadState DEF ShapeOf, Unreffing
<1>3. /\ UNCHANGED <<alive, refcnt, qid, key, inavl, cleaned, no_cleanup, queue, table>>
      /\ alive' = alive /\ qid' = qid
      /\ scanned' = scanned /\ workdone' = workdone /\ glistn' = glistn
      /\ held' = held /\ obj' = obj /\ want' = want /\ ret' = ret
      /\ pc' = [pc EXCEPT ![t] = "reap"]
  <2>1. pc[t] = "reap" => [pc EXCEPT ![t] = "reap"] = pc
    BY Zenon, <1>2 DEF TypeOK
  <2> QED
    BY Zenon, <2>1 DEF GetAtMark, ReapNothing, Goto, fields, iterator
<1>4. tries' \in [Threads -> Nat]
  <2>1. tries \in [Threads -> Nat] /\ tries[t] + 1 \in Nat
    BY <1>2 DEF TypeOK
  <2>2. tries' = [tries EXCEPT ![t] = 0] \/ tries' = [tries EXCEPT ![t] = tries[t] + 1]
    BY Zenon DEF GetAtMark, ReapNothing
  <2> QED
    BY <2>1, <2>2
<1>5. TypeOK' /\ IteratorSafe'
  BY Zenon, <1>2, <1>3, <1>4, QueuesKept DEF TypeOK, Places, LruInv
<1>6. pc'[t] = "reap" /\ \A q \in Procs \ {t} : pc'[q] = pc[q]
  BY <1>1, <1>2, <1>3, Zenon DEF TypeOK
<1>7. LocalShape(t)'
  <2>1. PrivateOf(t)'
    BY Zenon, <1>6, SharedPlace
  <2> QED
    BY Zenon, <1>1, <1>2, <1>3, <1>6, <2>1, ThreadIsProc DEF LocalShape, ShapeOf, WantOf, Unreffing, Looking
<1>8. \A e \in Entries : /\ Weight(held'[t], obj'[t], pc'[t], ret'[t], e)
                              = Weight(held[t], obj[t], pc[t], ret[t], e)
                         /\ WillWipe(t, e) => WillWipe(t, e)'
  BY Zenon, <1>1, <1>2, <1>3, <1>6, NoEntryAssumption DEF Weight, WillWipe
<1>9. Others(t)
  BY Zenon, <1>3, <1>6 DEF Others
<1>10. FlagKept(t)
  BY Zenon, <1>1, <1>3 DEF FlagKept, Guards, Unreffing
<1> QED
  BY Zenon, <1>1, <1>3, <1>5, <1>7, <1>8, <1>9, <1>10, QuietStep

(* lru_reap_impl references an entry that the queue shows to be owned. *)
LEMMA ReapPeekStep ==
    ASSUME Counting, LruInv, NEW t \in Threads, NEW l \in Lanes, ReapPeek(t, l)
    PROVE  Kept
<1>1. t \in Procs /\ t # LruThread /\ pc[t] = "reap"
  BY Zenon, ThreadIsProc DEF ReapPeek
<1>2. /\ TypeOK /\ ShapeOf(t) /\ WantOf(t) /\ held[t] = NoEntry /\ obj[t] = NoEntry
      /\ alive \subseteq Entries /\ NoEntry \notin alive
      /\ scanned = NoLane <=> pc[LruThread] = "idle"
  BY Zenon, <1>1, ThreadState DEF ShapeOf, Unreffing
<1>3. PICK x \in Entries : x = queue[<<l, Reaped(t)>>][1] /\ qid[x] \in {"L1", "L2"}
  <2>1. Reaped(t) \in {"L1", "L2"} /\ Reaped(t) \in QueueId
    BY Zenon DEF Reaped, QueueId
  <2>2. queue[<<l, Reaped(t)>>] # <<>> /\ OnItsQueue
    BY Zenon DEF ReapPeek, LruInv
  <2> QED
    BY <1>2, <2>1, <2>2, HeadOfList
<1>4. /\ x \in alive /\ refcnt[x] \in Nat \ {0}
      /\ \A q \in Procs : Exclusive(q) => obj[q] # x
  BY <1>3, QueuedShared, Zenon
<1>5. PICK place \in {"latch", "unref"} : pc' = [pc EXCEPT ![t] = place]
  BY Zenon DEF ReapPeek, Goto
<1>6. /\ alive' = alive /\ refcnt' = [refcnt EXCEPT ![x] = refcnt[x] + 1]
      /\ key' = key /\ inavl' = inavl /\ qid' = qid /\ queue' = queue /\ glistn' = glistn
      /\ cleaned' = cleaned /\ no_cleanup' = no_cleanup /\ table' = table /\ scanned' = scanned /\ workdone' = workdone
      /\ held' = held /\ obj' = [obj EXCEPT ![t] = x] /\ ret' = [ret EXCEPT ![t] = "reap"]
      /\ want' = want /\ tries' = [tries EXCEPT ![t] = tries[t] + 1]
  BY Zenon, <1>3 DEF ReapPeek, IncRef, fields, iterator
<1>7. TypeOK' /\ Hashed' /\ OnItsQueue' /\ IteratorSafe'
  <2>1. tries[t] + 1 \in Nat /\ refcnt[x] + 1 \in Nat
    BY <1>2, <1>4 DEF TypeOK
  <2>2. TypeOK'
    BY Zenon, <1>2, <1>5, <1>6, <2>1 DEF TypeOK, Places
  <2> QED
    BY Zenon, <1>6, <2>2, HashedKept, QueuesKept DEF LruInv
<1>8. /\ pc'[t] = place /\ obj'[t] = x /\ ret'[t] = "reap"
      /\ \A q \in Procs \ {t} : pc'[q] = pc[q] /\ obj'[q] = obj[q] /\ ret'[q] = ret[q]
      /\ refcnt'[x] = refcnt[x] + 1 /\ \A e \in Entries \ {x} : refcnt'[e] = refcnt[e]
  BY <1>1, <1>2, <1>5, <1>6, Zenon DEF TypeOK
<1>9. Touches(t, x)
  BY Zenon, <1>4, <1>6, <1>8 DEF Touches, Others
<1>10. LocalShape(t)'
  <2>1. PrivateOf(t)'
    BY Zenon, <1>8, SharedPlace
  <2> QED
    BY Zenon, <1>1, <1>2, <1>4, <1>6, <1>8, <2>1, ThreadIsProc
       DEF LocalShape, ShapeOf, WantOf, Unreffing, Looking
<1>11. LocalEntry(x)'
  <2>1. inavl[x] \/ \E r \in Threads : pc[r] = "push" /\ held[r] = x
    BY <1>3, Zenon DEF LruInv, QueuedOwned
  <2>2. refcnt'[x] # 0
    BY <1>4, <1>8
  <2> QED
    BY ZenonT(30), <1>1, <1>3, <1>4, <1>6, <1>8, <2>1, <2>2, ThreadIsProc DEF LocalEntry
<1>12. LocalCount(t, x)
  <2>1. /\ \A e : Share(t, e)' = Weight(NoEntry, x, place, "reap", e)
        /\ \A e : Share(t, e) = Weight(NoEntry, NoEntry, "reap", ret[t], e)
    BY ZenonT(30), <1>1, <1>2, <1>6, <1>8, ShareWeight
  <2>2. Share(t, x)' = 1 /\ Share(t, x) = 0 /\ \A e \in Entries \ {x} : Share(t, e)' = Share(t, e)
    BY <1>5, <2>1, NoEntryAssumption DEF Weight
  <2>3. refcnt[x] = Sentinel(x) + Rest(t, x) + Share(t, x) /\ Rest(t, x) \in Nat
    BY <1>1, <1>4, CountApart, ShareWeight, Zenon
  <2> QED
    BY Zenon, <1>4, <1>6, <1>8, <2>2, <2>3, CountUp
<1>13. LocalProgress(t, x)
  BY Zenon, <1>6, <1>1, <1>2, NoEntryAssumption DEF LocalProgress, FlagKept, Guards, WillWipe, Unreffing
<1> QED
  BY <1>1, <1>7, <1>9, <1>10, <1>11, <1>12, <1>13, LocalStep, Zenon DEF Kept

(* Under the latch, an entry with two references is the reaper's alone. *)
LEMMA ReapLatchedStep ==
    ASSUME Counting, LruInv, NEW t \in Threads, ReapLatched(t)
    PROVE  Kept
<1>1. t \in Procs /\ t # LruThread /\ pc[t] = "latch"
  BY Zenon, ThreadIsProc DEF ReapLatched
<1>2. /\ TypeOK /\ ShapeOf(t) /\ WantOf(t) /\ held[t] = NoEntry /\ obj[t] \in alive
      /\ alive \subseteq Entries /\ NoEntry \notin alive
      /\ scanned = NoLane <=> pc[LruThread] = "idle"
  BY Zenon, <1>1, ThreadState DEF ShapeOf, Unreffing
<1>3. PICK x \in Entries : x = obj[t]
  BY Zenon, <1>2
<1>4. qid[x] \in {"L1", "L2"} /\ refcnt[x] = 2 /\ inavl[x]
  BY Zenon, <1>3 DEF ReapLatched, Reclaimable
<1>5. /\ alive' = alive /\ refcnt' = refcnt
      /\ key' = key /\ inavl' = inavl /\ OffQueue(x)
      /\ cleaned' = cleaned /\ no_cleanup' = no_cleanup /\ table' = table /\ scanned' = scanned /\ workdone' = workdone
      /\ held' = held /\ obj' = obj /\ ret' = ret /\ pc' = [pc EXCEPT ![t] = "reclaim"]
      /\ want' = want /\ tries' = [tries EXCEPT ![t] = 0]
  BY Zenon, <1>3 DEF ReapLatched, Goto, fields, iterator
<1>6. /\ queue' \in [Lanes \X QueueId -> Seq(Entries)]
      /\ qid' = [qid EXCEPT ![x] = "none"]
      /\ glistn' \in Entries \cup {NoEntry}
      /\ OnItsQueue' /\ IteratorSafe'
  BY Zenon, <1>5, MovesSafe DEF Moves, LruInv
<1>7. TypeOK' /\ Hashed'
  BY Zenon, <1>2, <1>5, <1>6, HashedKept DEF TypeOK, Places
<1>8. /\ pc'[t] = "reclaim" /\ \A q \in Procs \ {t} : pc'[q] = pc[q]
      /\ qid'[x] = "none" /\ \A e \in Entries \ {x} : qid'[e] = qid[e]
  BY <1>1, <1>2, <1>5, <1>6, Zenon DEF TypeOK
<1>9. /\ refcnt[x] = Sentinel(x) + Rest(t, x) + Weight(NoEntry, x, "latch", ret[t], x)
      /\ Rest(t, x) \in Nat
  BY Zenon, <1>1, <1>2, <1>3, CountApart
<1>10. \A q \in Procs \ {t} : held[q] # x /\ obj[q] # x
  <2>1. Rest(t, x) = 0
    BY <1>2, <1>3, <1>4, <1>9 DEF Sentinel, Weight
  <2>2. Holders(x) \subseteq {t} /\ Workers(x) \subseteq {t}
    BY <2>1, RefsApart, Zenon
  <2>3. \A q \in Procs : pc[q] \in {"zero", "free"} => obj[q] # x
    BY Zenon, <1>4, QueuedShared DEF Exclusive
  <2> QED
    BY Zenon, <2>2, <2>3 DEF Holders, Workers
<1>11. Touches(t, x)
  BY Zenon, <1>2, <1>3, <1>5, <1>8, <1>10 DEF Touches, Others
<1>12. LocalShape(t)'
  <2>1. Alone(t)'
    BY Zenon, <1>2, <1>3, <1>5, <1>10 DEF Alone
  <2>2. PrivateOf(t)'
    BY Zenon, <1>3, <1>4, <1>5, <1>8, <2>1
       DEF PrivateOf, SecludedOf, EvictingOf, InsertingOf, DyingOf, PushingOf, Making, Unreffing
  <2> QED
    BY Zenon, <1>1, <1>2, <1>5, <1>8, <2>2, ThreadIsProc DEF LocalShape, ShapeOf, WantOf, Unreffing, Looking
<1>13. LocalEntry(x)'
  BY <1>2, <1>3, <1>4, <1>5, <1>8 DEF LocalEntry
<1>14. LocalCount(t, x)
  <2>1. \A e : Share(t, e)' = Share(t, e)
    BY Zenon, <1>1, <1>5, <1>8, ShareSame
  <2>2. refcnt[x] = Sentinel(x) + Rest(t, x) + Share(t, x)
    BY <1>1, <1>2, <1>3, CountApart, ShareWeight, Zenon
  <2> QED
    BY Zenon, <1>5, <2>1, <2>2 DEF LocalCount, Sentinel
<1>15. LocalProgress(t, x)
  BY Zenon, <1>1, <1>5, <1>8 DEF LocalProgress, FlagKept, Guards, WillWipe, Unreffing
<1> QED
  BY <1>1, <1>6, <1>7, <1>11, <1>12, <1>13, <1>14, <1>15, LocalStep, Zenon DEF Kept

(* The entry is used after all: the reaper drops its reference. *)
LEMMA ReapRefusedStep ==
    ASSUME Counting, LruInv, NEW t \in Threads, ReapRefused(t)
    PROVE  Kept
<1>1. t \in Procs /\ t # LruThread /\ pc[t] = "latch"
  BY Zenon, ThreadIsProc DEF ReapRefused
<1>2. /\ TypeOK /\ ShapeOf(t) /\ WantOf(t) /\ held[t] = NoEntry /\ obj[t] \in alive
      /\ NoEntry \notin alive /\ ret[t] = "reap"
      /\ scanned = NoLane <=> pc[LruThread] = "idle"
  BY Zenon, <1>1, ThreadState DEF ShapeOf, Unreffing
<1>3. /\ UNCHANGED <<alive, refcnt, qid, key, inavl, cleaned, no_cleanup, queue, table>>
      /\ alive' = alive /\ qid' = qid
      /\ scanned' = scanned /\ workdone' = workdone /\ glistn' = glistn
      /\ held' = held /\ obj' = obj /\ tries' = tries /\ want' = want /\ ret' = ret
      /\ pc' = [pc EXCEPT ![t] = "unref"]
  BY Zenon DEF ReapRefused, Goto, fields, iterator
<1>4. TypeOK' /\ IteratorSafe'
  BY Zenon, <1>2, <1>3, QueuesKept DEF TypeOK, Places, LruInv
<1>5. pc'[t] = "unref" /\ \A q \in Procs \ {t} : pc'[q] = pc[q]
  BY <1>1, <1>2, <1>3, Zenon DEF TypeOK
<1>6. LocalShape(t)'
  <2>1. PrivateOf(t)'
    BY Zenon, <1>2, <1>3, <1>5, SharedPlace
  <2> QED
    BY Zenon, <1>1, <1>2, <1>3, <1>5, <2>1, ThreadIsProc DEF LocalShape, ShapeOf, WantOf, Unreffing, Looking
<1>7. \A e \in Entries : /\ Weight(held'[t], obj'[t], pc'[t], ret'[t], e)
                              = Weight(held[t], obj[t], pc[t], ret[t], e)
                         /\ WillWipe(t, e) => WillWipe(t, e)'
  BY Zenon, <1>1, <1>2, <1>3, <1>5 DEF Weight, WillWipe
<1>8. Others(t)
  BY Zenon, <1>3, <1>5 DEF Others
<1>9. FlagKept(t)
  BY Zenon, <1>1, <1>3 DEF FlagKept, Guards, Unreffing
<1> QED
  BY Zenon, <1>1, <1>3, <1>4, <1>6, <1>7, <1>8, <1>9, QuietStep

(* An entry that leaves the hash table is the only one that the table       *)
(* forgets.                                                                 *)
LEMMA UnhashHashed ==
    ASSUME Counting, LruInv, NEW x \in Entries, inavl[x], Unhash(x), key' = key
    PROVE  Hashed' /\ table' \in [Keys -> Entries \cup {NoEntry}]
<1>1. /\ key[x] \in Keys /\ table[key[x]] = x
      /\ \A e \in Entries : inavl[e] => key[e] \in Keys /\ table[key[e]] = e
      /\ \A k \in Keys : table[k] # NoEntry => inavl[table[k]] /\ key[table[k]] = k
  BY Zenon DEF LruInv, Hashed
<1>2. /\ table \in [Keys -> Entries \cup {NoEntry}]
      /\ inavl \in [Entries -> BOOLEAN]
  BY Zenon DEF LruInv, TypeOK
<1>3. /\ table' = [table EXCEPT ![key[x]] = NoEntry]
      /\ inavl' = [inavl EXCEPT ![x] = FALSE]
  BY Zenon DEF Unhash
<1>4. ASSUME NEW e \in Entries, inavl'[e]
      PROVE  key'[e] \in Keys /\ table'[key'[e]] = e
  <2>1. e # x /\ inavl[e]
    BY Zenon, <1>2, <1>3, <1>4
  <2>2. key[e] # key[x]
    BY Zenon, <1>1, <2>1
  <2> QED
    BY Zenon, <1>1, <1>2, <1>3, <2>1, <2>2
<1>5. ASSUME NEW k \in Keys, table'[k] # NoEntry
      PROVE  inavl'[table'[k]] /\ key'[table'[k]] = k
  <2>1. k # key[x] /\ table'[k] = table[k] /\ table[k] \in Entries
    BY Zenon, <1>2, <1>3, <1>5
  <2>2. table[k] # x
    BY Zenon, <1>1, <1>5, <2>1
  <2> QED
    BY Zenon, <1>1, <1>2, <1>3, <1>5, <2>1, <2>2
<1>6. table' \in [Keys -> Entries \cup {NoEntry}]
  BY Zenon, <1>2, <1>3
<1> QED
  BY <1>4, <1>5, <1>6, Zenon DEF Hashed

(* The reaper takes the entry out of the hash table. *)
LEMMA ReclaimStep ==
    ASSUME Counting, LruInv, NEW t \in Threads, Reclaim(t)
    PROVE  Kept
<1>1. t \in Procs /\ t # LruThread /\ pc[t] = "reclaim"
  BY Zenon, ThreadIsProc DEF Reclaim
<1>2. /\ TypeOK /\ ShapeOf(t) /\ WantOf(t) /\ held[t] = NoEntry /\ obj[t] \in alive
      /\ alive \subseteq Entries /\ NoEntry \notin alive
      /\ scanned = NoLane <=> pc[LruThread] = "idle"
  BY Zenon, <1>1, ThreadState DEF ShapeOf, Unreffing
<1>3. PICK x \in Entries : x = obj[t]
  BY Zenon, <1>2
<1>4. inavl[x] /\ qid[x] = "none" /\ \A q \in Procs \ {t} : held[q] # x /\ obj[q] # x
  BY Zenon, <1>1, <1>3, ThreadState DEF PrivateOf, EvictingOf, Alone
<1>5. /\ Unhash(x) /\ key' = key /\ inavl' = [inavl EXCEPT ![x] = FALSE]
      /\ refcnt' = [refcnt EXCEPT ![x] = refcnt[x] - 1]
      /\ alive' = alive /\ qid' = qid /\ queue' = queue /\ glistn' = glistn
      /\ cleaned' = cleaned /\ no_cleanup' = no_cleanup /\ scanned' = scanned /\ workdone' = workdone
      /\ held' = held /\ obj' = obj /\ ret' = ret /\ pc' = [pc EXCEPT ![t] = "recycle"]
      /\ want' = want /\ tries' = tries
  BY Zenon, <1>3 DEF Reclaim, Goto, iterator, Unhash, DecRef
<1>6. Hashed' /\ table' \in [Keys -> Entries \cup {NoEntry}] /\ OnItsQueue' /\ IteratorSafe'
  BY Zenon, <1>4, <1>5, UnhashHashed, QueuesKept DEF LruInv
<1>7. refcnt[x] = 2 /\ Rest(t, x) = 0
  <2>1. Rest(t, x) = 0
    BY Zenon, <1>4, RestNone
  <2>2. refcnt[x] = Sentinel(x) + Rest(t, x) + Weight(NoEntry, x, "reclaim", ret[t], x)
    BY Zenon, <1>1, <1>2, <1>3, CountApart
  <2> QED
    BY <1>2, <1>3, <1>4, <2>1, <2>2 DEF Sentinel, Weight
<1>8. TypeOK'
  <2>1. refcnt[x] - 1 \in Nat
    BY SMTT(30), <1>7
  <2> QED
    BY <1>2, <1>5, <1>6, <2>1, Zenon DEF TypeOK, Places
<1>9. /\ pc'[t] = "recycle" /\ \A q \in Procs \ {t} : pc'[q] = pc[q]
      /\ ~inavl'[x] /\ refcnt'[x] = 1
      /\ \A e \in Entries \ {x} : inavl'[e] = inavl[e] /\ refcnt'[e] = refcnt[e]
  BY <1>1, <1>2, <1>5, <1>7 DEF TypeOK
<1>10. Touches(t, x)
  BY Zenon, <1>2, <1>3, <1>4, <1>5, <1>9 DEF Touches, Others
<1>11. LocalShape(t)'
  <2>1. Alone(t)'
    BY Zenon, <1>2, <1>3, <1>4, <1>5 DEF Alone
  <2>2. PrivateOf(t)'
    BY Zenon, <1>3, <1>4, <1>5, <1>9, <2>1
       DEF PrivateOf, SecludedOf, EvictingOf, InsertingOf, DyingOf, PushingOf
  <2> QED
    BY Zenon, <1>1, <1>2, <1>5, <1>9, <2>2, ThreadIsProc DEF LocalShape, ShapeOf, WantOf, Unreffing, Looking
<1>12. LocalEntry(x)'
  <2>1. refcnt'[x] # 0
    BY <1>9
  <2> QED
    BY Zenon, <2>1, <1>4, <1>5, <1>9 DEF LocalEntry
<1>13. LocalCount(t, x)
  <2>1. \A e : /\ Share(t, e)' = Weight(NoEntry, x, "recycle", ret[t], e)
               /\ Share(t, e) = Weight(NoEntry, x, "reclaim", ret[t], e)
    BY ZenonT(30), <1>1, <1>2, <1>3, <1>5, <1>9, ShareWeight
  <2>2. Share(t, x)' = 1 /\ \A e : Share(t, e)' = Share(t, e)
    BY <2>1, NoEntryAssumption DEF Weight
  <2> QED
    BY <1>7, <1>9, <2>2 DEF LocalCount, Sentinel
<1>14. LocalProgress(t, x)
  BY Zenon, <1>1, <1>5, <1>9 DEF LocalProgress, FlagKept, Guards, WillWipe, Unreffing
<1> QED
  BY <1>1, <1>6, <1>8, <1>10, <1>11, <1>12, <1>13, <1>14, LocalStep, Zenon DEF Kept

(* The reaped entry becomes a new one, with two references. *)
LEMMA RecycleStep ==
    ASSUME Counting, LruInv, NEW t \in Threads, Recycle(t)
    PROVE  Kept
<1>1. t \in Procs /\ t # LruThread /\ pc[t] = "recycle"
  BY Zenon, ThreadIsProc DEF Recycle
<1>2. /\ TypeOK /\ ShapeOf(t) /\ WantOf(t) /\ held[t] = NoEntry /\ obj[t] \in alive
      /\ alive \subseteq Entries /\ NoEntry \notin alive
      /\ scanned = NoLane <=> pc[LruThread] = "idle"
  BY Zenon, <1>1, ThreadState DEF ShapeOf, Unreffing
<1>3. PICK x \in Entries : x = obj[t]
  BY Zenon, <1>2
<1>4. ~inavl[x] /\ qid[x] = "none" /\ \A q \in Procs \ {t} : held[q] # x /\ obj[q] # x
  BY Zenon, <1>1, <1>3, ThreadState DEF PrivateOf, SecludedOf, Alone, Making
<1>5. /\ refcnt' = [refcnt EXCEPT ![x] = 2]
      /\ alive' = alive /\ qid' = qid /\ key' = key /\ inavl' = inavl /\ table' = table
      /\ queue' = queue /\ glistn' = glistn
      /\ cleaned' = cleaned /\ no_cleanup' = no_cleanup /\ scanned' = scanned /\ workdone' = workdone
      /\ held' = held /\ obj' = obj /\ ret' = ret /\ pc' = [pc EXCEPT ![t] = "fresh"]
      /\ want' = want /\ tries' = tries
  BY Zenon, <1>3 DEF Recycle, Goto, iterator, fields
<1>6. TypeOK' /\ Hashed' /\ OnItsQueue' /\ IteratorSafe'
  <2>1. TypeOK'
    BY Zenon, <1>2, <1>5 DEF TypeOK, Places
  <2> QED
    BY Zenon, <1>5, <2>1, HashedKept, QueuesKept DEF LruInv
<1>7. refcnt[x] = 1 /\ Rest(t, x) = 0
  <2>1. Rest(t, x) = 0
    BY Zenon, <1>4, RestNone
  <2>2. refcnt[x] = Sentinel(x) + Rest(t, x) + Weight(NoEntry, x, "recycle", ret[t], x)
    BY Zenon, <1>1, <1>2, <1>3, CountApart
  <2> QED
    BY <1>2, <1>3, <1>4, <2>1, <2>2 DEF Sentinel, Weight
<1>8. /\ pc'[t] = "fresh" /\ \A q \in Procs \ {t} : pc'[q] = pc[q]
      /\ refcnt'[x] = 2 /\ \A e \in Entries \ {x} : refcnt'[e] = refcnt[e]
  BY <1>1, <1>2, <1>5, Zenon DEF TypeOK
<1>9. Touches(t, x)
  BY Zenon, <1>2, <1>3, <1>4, <1>5, <1>8 DEF Touches, Others
<1>10. LocalShape(t)'
  <2>1. Alone(t)'
    BY Zenon, <1>2, <1>3, <1>4, <1>5 DEF Alone
  <2>2. PrivateOf(t)'
    BY Zenon, <1>3, <1>4, <1>5, <1>8, <2>1
       DEF PrivateOf, SecludedOf, EvictingOf, InsertingOf, DyingOf, PushingOf
  <2> QED
    BY Zenon, <1>1, <1>2, <1>5, <1>8, <2>2, ThreadIsProc DEF LocalShape, ShapeOf, WantOf, Unreffing, Looking
<1>11. LocalEntry(x)'
  <2>1. refcnt'[x] # 0
    BY <1>8
  <2> QED
    BY Zenon, <2>1, <1>4, <1>5, <1>8 DEF LocalEntry
<1>12. LocalCount(t, x)
  <2>1. \A e : /\ Share(t, e)' = Weight(NoEntry, x, "fresh", ret[t], e)
               /\ Share(t, e) = Weight(NoEntry, x, "recycle", ret[t], e)
    BY ZenonT(30), <1>1, <1>2, <1>3, <1>5, <1>8, ShareWeight
  <2>2. Share(t, x)' = 2 /\ \A e \in Entries \ {x} : Share(t, e)' = Share(t, e)
    BY <2>1, NoEntryAssumption DEF Weight
  <2> QED
    BY <1>4, <1>5, <1>7, <1>8, <2>2 DEF LocalCount, Sentinel
<1>13. LocalProgress(t, x)
  BY Zenon, <1>1, <1>5, <1>8 DEF LocalProgress, FlagKept, Guards, WillWipe, Unreffing
<1> QED
  BY <1>1, <1>6, <1>9, <1>10, <1>11, <1>12, <1>13, LocalStep, Zenon DEF Kept

-----------------------------------------------------------------------------
(* The second half of mdcache_new_entry. *)

(* The new entry enters the hash table under a key that is free. *)
LEMMA HashStep ==
    ASSUME Counting, LruInv, NEW t \in Threads, Hash(t)
    PROVE  Kept
<1>1. t \in Procs /\ t # LruThread /\ pc[t] = "fresh"
  BY Zenon, ThreadIsProc DEF Hash
<1>2. /\ TypeOK /\ ShapeOf(t) /\ held[t] = NoEntry /\ obj[t] \in alive
      /\ want[t] \in Keys
      /\ alive \subseteq Entries /\ NoEntry \notin alive
      /\ scanned = NoLane <=> pc[LruThread] = "idle"
  BY Zenon, <1>1, ThreadState DEF ShapeOf, Unreffing, WantOf, Looking
<1>3. PICK x \in Entries, k \in Keys : x = obj[t] /\ k = want[t] /\ table[k] = NoEntry
  BY Zenon, <1>2 DEF Hash, NoWinner
<1>4. ~inavl[x] /\ qid[x] = "none" /\ \A q \in Procs \ {t} : held[q] # x /\ obj[q] # x
  BY Zenon, <1>1, <1>3, ThreadState DEF PrivateOf, SecludedOf, Alone, Making
<1>5. /\ refcnt' = refcnt /\ alive' = alive /\ qid' = qid /\ key' = [key EXCEPT ![x] = k]
      /\ inavl' = [inavl EXCEPT ![x] = TRUE] /\ table' = [table EXCEPT ![k] = x]
      /\ queue' = queue /\ glistn' = glistn
      /\ cleaned' = cleaned /\ no_cleanup' = no_cleanup /\ scanned' = scanned /\ workdone' = workdone
      /\ held' = held /\ obj' = obj /\ ret' = ret /\ pc' = [pc EXCEPT ![t] = "insert"]
      /\ want' = [want EXCEPT ![t] = NoKey] /\ tries' = tries
  BY Zenon, <1>3 DEF Hash, Goto, iterator
<1>6. TypeOK' /\ OnItsQueue' /\ IteratorSafe'
  <2>1. TypeOK'
    BY <1>2, <1>5, Zenon DEF TypeOK, Places
  <2> QED
    BY Zenon, <1>5, <2>1, QueuesKept DEF LruInv
<1>7. /\ pc'[t] = "insert" /\ \A q \in Procs \ {t} : pc'[q] = pc[q]
      /\ inavl'[x] /\ key'[x] = k /\ table'[k] = x
      /\ \A e \in Entries \ {x} : inavl'[e] = inavl[e] /\ key'[e] = key[e]
      /\ \A j \in Keys \ {k} : table'[j] = table[j]
      /\ \A r \in Threads \ {t} : want'[r] = want[r]
  BY <1>1, <1>2, <1>5, Zenon DEF TypeOK
<1>8. Hashed'
  <2>1. /\ \A e \in Entries : inavl[e] => key[e] \in Keys /\ table[key[e]] = e
        /\ \A j \in Keys : table[j] # NoEntry => inavl[table[j]] /\ key[table[j]] = j
    BY Zenon DEF LruInv, Hashed
  <2>2. ASSUME NEW e \in Entries, inavl'[e]
        PROVE  key'[e] \in Keys /\ table'[key'[e]] = e
    BY <1>3, <1>7, <2>1, <2>2, NoEntryAssumption
  <2>3. ASSUME NEW j \in Keys, table'[j] # NoEntry
        PROVE  inavl'[table'[j]] /\ key'[table'[j]] = j
    <3>1. CASE j = k
      BY Zenon, <1>7, <3>1
    <3>2. CASE j # k
      <4>1. table'[j] = table[j] /\ table[j] \in Entries /\ inavl[table[j]] /\ key[table[j]] = j
        BY <1>2, <1>7, <2>1, <2>3, <3>2 DEF TypeOK
      <4> QED
        BY Zenon, <1>4, <1>7, <4>1
    <3> QED
      BY Zenon, <3>1, <3>2
  <2> QED
    BY <2>2, <2>3, Zenon DEF Hashed
<1>9. Touches(t, x)
  BY Zenon, <1>2, <1>3, <1>4, <1>5, <1>7 DEF Touches, Others
<1>10. LocalShape(t)'
  <2>1. PrivateOf(t)'
    BY Zenon, <1>3, <1>4, <1>5, <1>7
       DEF PrivateOf, SecludedOf, EvictingOf, InsertingOf, DyingOf, PushingOf, Making, Unreffing
  <2> QED
    BY Zenon, <1>1, <1>2, <1>5, <1>7, <2>1, ThreadIsProc DEF LocalShape, ShapeOf, WantOf, Unreffing, Looking
<1>11. LocalCount(t, x)
  <2>1. \A e : /\ Share(t, e)' = Weight(NoEntry, x, "insert", ret[t], e)
               /\ Share(t, e) = Weight(NoEntry, x, "fresh", ret[t], e)
    <3>1. /\ held[t] = NoEntry /\ obj[t] = x /\ pc[t] = "fresh"
          /\ held'[t] = NoEntry /\ obj'[t] = x /\ pc'[t] = "insert" /\ ret'[t] = ret[t]
      BY Zenon, <1>1, <1>2, <1>3, <1>5, <1>7
    <3> QED
      BY Zenon, <1>1, <3>1, ShareWeight
  <2>2. /\ Share(t, x)' = 1 /\ Share(t, x) = 2
        /\ \A e \in Entries \ {x} : Share(t, e)' = Share(t, e)
    BY <2>1, NoEntryAssumption DEF Weight
  <2>3. refcnt[x] = Sentinel(x) + Rest(t, x) + Share(t, x) /\ Rest(t, x) \in Nat
    BY <1>1, <1>2, <1>3, CountApart, ShareWeight, Zenon
  <2>4. Sentinel(x) = 0 /\ Sentinel(x)' = 1 /\ refcnt'[x] = refcnt[x]
    BY Zenon, <1>4, <1>5, <1>7 DEF Sentinel
  <2>5. refcnt'[x] = Sentinel(x)' + Rest(t, x) + Share(t, x)'
    BY <2>2, <2>3, <2>4
  <2> QED
    BY Zenon, <2>2, <2>4, <2>5 DEF LocalCount
<1>12. LocalEntry(x)'
  <2>1. refcnt[x] # 0
    BY Zenon, <1>1, <1>2, <1>3, OwnedCounted DEF Workers
  <2> QED
    BY Zenon, <1>2, <1>3, <1>4, <1>5, <1>7, <2>1 DEF LocalEntry
<1>13. LocalProgress(t, x)
  BY Zenon, <1>1, <1>5, <1>7 DEF LocalProgress, FlagKept, Guards, WillWipe, Unreffing
<1> QED
  BY <1>1, <1>6, <1>8, <1>9, <1>10, <1>11, <1>12, <1>13, LocalStep, Zenon DEF Kept

(* Another entry has the key: it is referenced, as in a lookup. *)
LEMMA LoseRaceStep ==
    ASSUME Counting, LruInv, NEW t \in Threads, LoseRace(t)
    PROVE  Kept
<1>1. t \in Procs /\ t # LruThread /\ pc[t] = "fresh"
  BY Zenon, ThreadIsProc DEF LoseRace
<1>2. /\ TypeOK /\ ShapeOf(t) /\ held[t] = NoEntry /\ obj[t] \in alive
      /\ want[t] \in Keys
      /\ alive \subseteq Entries /\ NoEntry \notin alive
      /\ scanned = NoLane <=> pc[LruThread] = "idle"
  BY Zenon, <1>1, ThreadState DEF ShapeOf, Unreffing, WantOf, Looking
<1>3. PICK k \in Keys, x \in Entries : k = want[t] /\ x = table[k]
  BY Zenon, <1>2 DEF LoseRace, NoWinner, TypeOK
<1>4. PICK o \in Entries : o = obj[t]
  BY Zenon, <1>2
<1>5. ~inavl[o] /\ qid[o] = "none" /\ \A q \in Procs \ {t} : held[q] # o /\ obj[q] # o
  BY Zenon, <1>1, <1>4, ThreadState DEF PrivateOf, SecludedOf, Alone, Making
<1>6. inavl[x] /\ key[x] = k /\ x # o
  BY Zenon, <1>3, <1>5, NoEntryAssumption DEF LruInv, Hashed
<1>7. x \in alive /\ refcnt[x] \in Nat \ {0}
  BY <1>6, HashedShared, Zenon
<1>8. /\ refcnt' = [refcnt EXCEPT ![x] = @ + 1]
      /\ alive' = alive /\ qid' = qid /\ key' = key /\ inavl' = inavl /\ table' = table
      /\ queue' = queue /\ glistn' = glistn
      /\ cleaned' = cleaned /\ no_cleanup' = no_cleanup /\ scanned' = scanned /\ workdone' = workdone
      /\ held' = [held EXCEPT ![t] = x] /\ obj' = obj /\ ret' = ret
      /\ pc' = [pc EXCEPT ![t] = "raced"] /\ want' = want /\ tries' = tries
      /\ Writing(k) = {}
  BY Zenon, <1>3 DEF LoseRace, Goto, iterator, fields, IncRef, MayWrite
<1>9. TypeOK' /\ Hashed' /\ OnItsQueue' /\ IteratorSafe'
  <2>1. TypeOK'
    <3>1. refcnt[x] + 1 \in Nat
      BY <1>7
    <3> QED
      BY <1>2, <1>8, <3>1, Zenon DEF TypeOK, Places
  <2> QED
    BY Zenon, <1>8, <2>1, HashedKept, QueuesKept DEF LruInv
<1>10. /\ pc'[t] = "raced" /\ held'[t] = x
       /\ \A q \in Procs \ {t} : pc'[q] = pc[q] /\ held'[q] = held[q]
       /\ refcnt'[x] = refcnt[x] + 1 /\ \A e \in Entries \ {x} : refcnt'[e] = refcnt[e]
  BY <1>1, <1>2, <1>8, Zenon DEF TypeOK
<1>11. Touches(t, x)
  <2>1. ASSUME NEW q \in Procs \ {t}, Exclusive(q)
        PROVE  obj[q] # x
    <3>1. pc[q] = "reclaim" => q \in Threads
      BY Zenon DEF LruInv, Shape, ShapeOf, Procs, Unreffing
    <3>2. ~(pc[q] = "reclaim" /\ obj[q] = x)
      BY Zenon, <1>6, <1>8, <3>1 DEF Writing
    <3> QED
      BY Zenon, <1>6, <2>1, <3>2, HashedShared
  <2> QED
    BY Zenon, <1>2, <1>7, <1>8, <1>10, <2>1 DEF Touches, Others
<1>12. LocalShape(t)'
  <2>1. Alone(t)'
    BY ZenonT(30), <1>2, <1>4, <1>5, <1>6, <1>8, <1>10 DEF Alone
  <2>2. PrivateOf(t)'
    BY Zenon, <1>4, <1>5, <1>8, <1>10, <2>1
       DEF PrivateOf, SecludedOf, EvictingOf, InsertingOf, DyingOf, PushingOf
  <2> QED
    BY ZenonT(30), <1>1, <1>2, <1>7, <1>8, <1>10, <2>2, ThreadIsProc DEF LocalShape, ShapeOf, WantOf, Unreffing, Looking
<1>13. LocalEntry(x)'
  <2>1. refcnt'[x] # 0
    BY <1>7, <1>10
  <2>2. WillWipe(t, x)'
    BY Zenon, <1>10 DEF WillWipe
  <2> QED
    BY Zenon, <1>1, <1>6, <1>7, <1>8, <2>1, <2>2 DEF LocalEntry
<1>14. LocalCount(t, x)
  <2>1. \A e : /\ Share(t, e)' = Weight(x, o, "raced", ret[t], e)
               /\ Share(t, e) = Weight(NoEntry, o, "fresh", ret[t], e)
    BY Zenon, <1>1, <1>2, <1>4, <1>8, <1>10, ShareWeight
  <2>2. /\ Share(t, x)' = 1 /\ Share(t, x) = 0
        /\ \A e \in Entries \ {x} : Share(t, e)' = Share(t, e)
    BY <1>6, <2>1, NoEntryAssumption DEF Weight
  <2>3. refcnt[x] = Sentinel(x) + Rest(t, x) + Share(t, x) /\ Rest(t, x) \in Nat
    BY <1>1, <1>7, CountApart, ShareWeight, Zenon
  <2> QED
    BY Zenon, <1>7, <1>8, <1>10, <2>2, <2>3, CountUp
<1>15. LocalProgress(t, x)
  BY Zenon, <1>1, <1>2, <1>8, <1>10, NoEntryAssumption DEF LocalProgress, FlagKept, Guards, WillWipe, Unreffing
<1> QED
  BY <1>1, <1>9, <1>11, <1>12, <1>13, <1>14, <1>15, LocalStep, Zenon DEF Kept

(* mdcache_lru_insert: the entry is on a queue from now on. *)
LEMMA LruInsertStep ==
    ASSUME Counting, LruInv, NEW t \in Threads, NEW scan \in BOOLEAN, LruInsert(t, scan)
    PROVE  Kept
<1>1. t \in Procs /\ t # LruThread /\ pc[t] = "insert"
  BY Zenon, ThreadIsProc DEF LruInsert
<1>2. /\ TypeOK /\ ShapeOf(t) /\ held[t] = NoEntry /\ obj[t] \in alive
      /\ alive \subseteq Entries /\ NoEntry \notin alive
      /\ scanned = NoLane <=> pc[LruThread] = "idle"
  BY Zenon, <1>1, ThreadState DEF ShapeOf, Unreffing
<1>3. PICK x \in Entries : x = obj[t]
  BY Zenon, <1>2
<1>4. PICK id \in {"L1", "L2"} : id = IF scan THEN "L2" ELSE "L1"
  BY Zenon
<1>5. /\ inavl[x] /\ qid[x] = "none"
      /\ \A q \in Procs \ {t} : pc[q] = "insert" => obj[q] # x
  BY Zenon, <1>1, <1>3, ThreadState DEF PrivateOf, InsertingOf
<1>6. /\ refcnt' = refcnt /\ alive' = alive /\ key' = key /\ inavl' = inavl /\ table' = table
      /\ cleaned' = cleaned /\ no_cleanup' = no_cleanup /\ scanned' = scanned /\ workdone' = workdone
      /\ held' = [held EXCEPT ![t] = x] /\ obj' = [obj EXCEPT ![t] = NoEntry] /\ ret' = ret
      /\ pc' = [pc EXCEPT ![t] = "hold"] /\ want' = want /\ tries' = tries
      /\ Moves(x, id)
  BY Zenon, <1>3, <1>4 DEF LruInsert, Goto, iterator, fields, Moves
<1>7. /\ queue' \in [Lanes \X QueueId -> Seq(Entries)]
      /\ qid' = [qid EXCEPT ![x] = id]
      /\ glistn' \in Entries \cup {NoEntry}
      /\ OnItsQueue' /\ IteratorSafe'
  BY Zenon, <1>6, MovesSafe DEF QueueId, LruInv
<1>8. TypeOK' /\ Hashed'
  <2>1. id \in QueueId
    BY Zenon DEF QueueId
  <2> QED
    BY Zenon, <1>2, <1>6, <1>7, <2>1, HashedKept DEF TypeOK, Places
<1>9. /\ pc'[t] = "hold" /\ held'[t] = x /\ obj'[t] = NoEntry
      /\ \A q \in Procs \ {t} : pc'[q] = pc[q] /\ held'[q] = held[q] /\ obj'[q] = obj[q]
      /\ qid'[x] = id /\ \A e \in Entries \ {x} : qid'[e] = qid[e]
  BY <1>1, <1>2, <1>6, <1>7, Zenon DEF TypeOK
<1>10. Touches(t, x)
  <2>1. \A q \in Procs \ {t} : Exclusive(q) => obj[q] # x
    BY <1>1, <1>3, ExclusiveAlone, Zenon
  <2> QED
    BY Zenon, <1>2, <1>3, <1>5, <1>6, <1>9, <2>1 DEF Touches, Others
<1>11. LocalShape(t)'
  <2>1. PrivateOf(t)'
    BY Zenon, <1>9, SharedPlace
  <2> QED
    BY Zenon, <1>1, <1>2, <1>3, <1>6, <1>9, <2>1, ThreadIsProc DEF LocalShape, ShapeOf, WantOf, Unreffing, Looking
<1>12. LocalEntry(x)'
  <2>1. refcnt[x] # 0
    BY Zenon, <1>2, <1>3, <1>5, OwnedCounted
  <2> QED
    BY Zenon, <1>2, <1>3, <1>5, <1>6, <1>9, <2>1 DEF LocalEntry
<1>13. LocalCount(t, x)
  <2>1. \A e : /\ Share(t, e)' = Weight(x, NoEntry, "hold", ret[t], e)
               /\ Share(t, e) = Weight(NoEntry, x, "insert", ret[t], e)
    <3>1. /\ held[t] = NoEntry /\ obj[t] = x /\ pc[t] = "insert"
          /\ held'[t] = x /\ obj'[t] = NoEntry /\ pc'[t] = "hold" /\ ret'[t] = ret[t]
      BY Zenon, <1>1, <1>2, <1>3, <1>6, <1>9
    <3> QED
      BY Zenon, <1>1, <3>1, ShareWeight
  <2>2. \A e \in Entries : Share(t, e)' = Share(t, e)
    BY <2>1, NoEntryAssumption DEF Weight
  <2>3. refcnt[x] = Sentinel(x) + Rest(t, x) + Share(t, x) /\ Rest(t, x) \in Nat
    BY <1>1, <1>2, <1>3, CountApart, ShareWeight, Zenon
  <2> QED
    BY Zenon, <1>6, <2>2, <2>3 DEF LocalCount, Sentinel
<1>14. LocalProgress(t, x)
  BY Zenon, <1>6, <1>1, <1>2, <1>3, <1>9, NoEntryAssumption DEF LocalProgress, FlagKept, Guards, WillWipe, Unreffing
<1> QED
  BY <1>1, <1>7, <1>8, <1>10, <1>11, <1>12, <1>13, <1>14, LocalStep, Zenon DEF Kept

-----------------------------------------------------------------------------
(* _mdcache_kill_entry and mdcache_put. *)

(* cih_remove_checked: the entry is not hashed any more, if it was. *)
LEMMA KillStep ==
    ASSUME Counting, LruInv, NEW t \in Threads, Kill(t)
    PROVE  Kept
<1>1. t \in Procs /\ t # LruThread /\ pc[t] = "hold"
  BY Zenon, ThreadIsProc DEF Kill
<1>2. /\ TypeOK /\ ShapeOf(t) /\ held[t] \in alive /\ obj[t] = NoEntry
      /\ alive \subseteq Entries /\ NoEntry \notin alive
      /\ scanned = NoLane <=> pc[LruThread] = "idle"
  BY Zenon, <1>1, ThreadState DEF ShapeOf, Unreffing
<1>3. PICK x \in Entries : x = held[t]
  BY Zenon, <1>2
<1>4. /\ alive' = alive /\ qid' = qid /\ key' = key /\ cleaned' = cleaned /\ no_cleanup' = no_cleanup
      /\ queue' = queue /\ glistn' = glistn /\ scanned' = scanned /\ workdone' = workdone
      /\ want' = want /\ held' = held /\ obj' = obj /\ tries' = tries /\ ret' = ret
      /\ pc' = [pc EXCEPT ![t] = "push"]
      /\ qid[x] # "none"
      /\ IF inavl[x] THEN Unhash(x) ELSE table' = table /\ inavl' = inavl /\ refcnt' = refcnt
  BY Zenon, <1>3 DEF Kill, Goto, iterator
<1>5. refcnt[x] = Sentinel(x) + Rest(t, x) + 1 /\ Rest(t, x) \in Nat
  <2>1. /\ refcnt[x] = Sentinel(x) + Rest(t, x) + Weight(x, NoEntry, "hold", ret[t], x)
        /\ Rest(t, x) \in Nat
    BY <1>1, <1>2, <1>3, CountApart, Zenon
  <2> QED
    BY <2>1, NoEntryAssumption DEF Weight, Sentinel
<1>6. /\ inavl' \in [Entries -> BOOLEAN] /\ refcnt' \in [Entries -> Nat]
      /\ ~inavl'[x] /\ refcnt'[x] = Rest(t, x) + 1
      /\ \A e \in Entries \ {x} : inavl'[e] = inavl[e] /\ refcnt'[e] = refcnt[e]
      /\ Hashed' /\ table' \in [Keys -> Entries \cup {NoEntry}]
  <2>1. CASE inavl[x]
    <3>1. inavl' = [inavl EXCEPT ![x] = FALSE] /\ refcnt' = [refcnt EXCEPT ![x] = @ - 1]
      BY Zenon, <1>4, <2>1 DEF Unhash, DecRef
    <3>2. Hashed' /\ table' \in [Keys -> Entries \cup {NoEntry}]
      BY Zenon, <1>4, <2>1, UnhashHashed
    <3>3. refcnt[x] - 1 = Rest(t, x) + 1 /\ refcnt[x] - 1 \in Nat
      BY <1>5, <2>1 DEF Sentinel
    <3> QED
      BY <1>2, <3>1, <3>2, <3>3, Zenon DEF TypeOK
  <2>2. CASE ~inavl[x]
    <3>1. refcnt[x] = Rest(t, x) + 1
      BY <1>5, <2>2 DEF Sentinel
    <3>2. Hashed'
      BY Zenon, <1>4, <2>2, HashedKept
    <3> QED
      BY Zenon, <1>2, <1>4, <2>2, <3>1, <3>2 DEF TypeOK
  <2> QED
    BY Zenon, <2>1, <2>2
<1>7. TypeOK' /\ OnItsQueue' /\ IteratorSafe'
  <2>1. TypeOK'
    BY <1>2, <1>4, <1>6, Zenon DEF TypeOK, Places
  <2> QED
    BY Zenon, <1>4, <2>1, QueuesKept DEF LruInv
<1>8. pc'[t] = "push" /\ \A q \in Procs \ {t} : pc'[q] = pc[q]
  BY <1>1, <1>2, <1>4, Zenon DEF TypeOK
<1>9. Touches(t, x)
  <2>1. \A q \in Procs \ {t} : Exclusive(q) => obj[q] # x
    BY <1>1, <1>3, ExclusiveAlone, Zenon
  <2>2. \A q \in Procs \ {t} : ~(pc[q] = "insert" /\ obj[q] = x)
    BY Zenon, <1>4 DEF LruInv, Private, PrivateOf, InsertingOf
  <2> QED
    BY Zenon, <1>2, <1>3, <1>4, <1>6, <1>8, <2>1, <2>2 DEF Touches, Others
<1>10. LocalShape(t)'
  <2>1. PrivateOf(t)'
    BY Zenon, <1>3, <1>4, <1>6, <1>8
       DEF PrivateOf, SecludedOf, EvictingOf, InsertingOf, DyingOf, PushingOf, Making, Unreffing
  <2> QED
    BY Zenon, <1>1, <1>2, <1>4, <1>8, <2>1, ThreadIsProc DEF LocalShape, ShapeOf, WantOf, Unreffing, Looking
<1>11. LocalEntry(x)'
  <2>1. refcnt'[x] # 0
    BY <1>5, <1>6
  <2> QED
    BY Zenon, <1>1, <1>2, <1>3, <1>4, <1>8, <2>1 DEF LocalEntry, WillWipe
<1>12. LocalCount(t, x)
  <2>1. \A e : /\ Share(t, e)' = Weight(x, NoEntry, "push", ret[t], e)
               /\ Share(t, e) = Weight(x, NoEntry, "hold", ret[t], e)
    BY Zenon, <1>1, <1>2, <1>3, <1>4, <1>8, ShareWeight
  <2>2. Share(t, x)' = 1 /\ \A e \in Entries : Share(t, e)' = Share(t, e)
    BY <2>1, NoEntryAssumption DEF Weight
  <2> QED
    BY <1>5, <1>6, <2>2 DEF LocalCount, Sentinel
<1>13. LocalProgress(t, x)
  BY Zenon, <1>1, <1>2, <1>4, <1>8 DEF LocalProgress, FlagKept, Guards, WillWipe, Unreffing
<1> QED
  BY <1>1, <1>6, <1>7, <1>9, <1>10, <1>11, <1>12, <1>13, LocalStep, Zenon DEF Kept

(* mdcache_lru_cleanup_push: the entry can not be reaped any more. *)
LEMMA CleanupPushStep ==
    ASSUME Counting, LruInv, NEW t \in Threads, CleanupPush(t)
    PROVE  Kept
<1>1. t \in Procs /\ t # LruThread /\ pc[t] = "push"
  BY Zenon, ThreadIsProc DEF CleanupPush
<1>2. /\ TypeOK /\ ShapeOf(t) /\ held[t] \in alive /\ obj[t] = NoEntry
      /\ alive \subseteq Entries /\ NoEntry \notin alive
      /\ scanned = NoLane <=> pc[LruThread] = "idle"
  BY Zenon, <1>1, ThreadState DEF ShapeOf, Unreffing
<1>3. PICK x \in Entries : x = held[t]
  BY Zenon, <1>2
<1>4. /\ alive' = alive /\ refcnt' = refcnt /\ key' = key /\ inavl' = inavl
      /\ cleaned' = cleaned /\ no_cleanup' = no_cleanup /\ table' = table /\ scanned' = scanned /\ workdone' = workdone
      /\ want' = want /\ held' = held /\ obj' = obj /\ tries' = tries /\ ret' = ret
      /\ pc' = [pc EXCEPT ![t] = "put"]
      /\ IF qid[x] = "cleanup"
         THEN queue' = queue /\ qid' = qid /\ glistn' = glistn
         ELSE ToLru(x, "cleanup")
  BY Zenon, <1>3 DEF CleanupPush, Goto, iterator, fields
<1>5. /\ queue' \in [Lanes \X QueueId -> Seq(Entries)]
      /\ qid' \in [Entries -> QueueId \cup {"none"}]
      /\ glistn' \in Entries \cup {NoEntry}
      /\ OnItsQueue' /\ IteratorSafe'
      /\ qid'[x] = "cleanup" /\ \A e \in Entries \ {x} : qid'[e] = qid[e]
  <2>1. CASE qid[x] = "cleanup"
    <3>1. queue' = queue /\ qid' = qid /\ glistn' = glistn
      BY Zenon, <1>4, <2>1
    <3>2. OnItsQueue' /\ IteratorSafe'
      BY Zenon, <1>4, <3>1, QueuesKept DEF LruInv
    <3> QED
      BY Zenon, <1>2, <2>1, <3>1, <3>2 DEF TypeOK
  <2>2. CASE qid[x] # "cleanup"
    <3>1. "cleanup" \in QueueId \cup {"none"} /\ Moves(x, "cleanup")
      BY Zenon, <1>4, <2>2 DEF Moves, QueueId
    <3>2. /\ queue' \in [Lanes \X QueueId -> Seq(Entries)]
          /\ qid' = [qid EXCEPT ![x] = "cleanup"]
          /\ glistn' \in Entries \cup {NoEntry}
          /\ OnItsQueue' /\ IteratorSafe'
      BY <1>4, <3>1, MovesSafe, Zenon DEF LruInv
    <3> QED
      BY Zenon, <1>2, <3>1, <3>2 DEF TypeOK
  <2> QED
    BY Zenon, <2>1, <2>2
<1>6. TypeOK' /\ Hashed'
  BY <1>2, <1>4, <1>5, HashedKept, Zenon DEF TypeOK, Places
<1>7. pc'[t] = "put" /\ \A q \in Procs \ {t} : pc'[q] = pc[q]
  BY <1>1, <1>2, <1>4, Zenon DEF TypeOK
<1>8. Touches(t, x)
  <2>1. \A q \in Procs \ {t} : Exclusive(q) => obj[q] # x
    BY <1>1, <1>3, ExclusiveAlone, Zenon
  <2>2. \A q \in Procs \ {t} : ~(pc[q] = "insert" /\ obj[q] = x)
    BY Zenon, <1>1, <1>3 DEF LruInv, Private, PrivateOf, InsertingOf, PushingOf
  <2> QED
    BY Zenon, <1>2, <1>3, <1>4, <1>5, <1>7, <2>1, <2>2 DEF Touches, Others
<1>9. LocalShape(t)'
  <2>1. PrivateOf(t)'
    BY Zenon, <1>7, SharedPlace
  <2> QED
    BY Zenon, <1>1, <1>2, <1>4, <1>7, <2>1, ThreadIsProc DEF LocalShape, ShapeOf, WantOf, Unreffing, Looking
<1>10. LocalEntry(x)'
  <2>1. refcnt[x] # 0
    BY Zenon, <1>1, <1>2, <1>3, OwnedCounted DEF Holders
  <2> QED
    BY Zenon, <1>1, <1>2, <1>3, <1>4, <1>5, <1>7, <2>1 DEF LocalEntry, WillWipe
<1>11. LocalCount(t, x)
  <2>1. \A e : Share(t, e)' = Share(t, e)
    BY Zenon, <1>1, <1>4, <1>7, ShareSame
  <2>2. refcnt[x] = Sentinel(x) + Rest(t, x) + Share(t, x)
    BY <1>1, <1>2, <1>3, CountApart, ShareWeight, Zenon
  <2> QED
    BY ZenonT(30), <1>4, <2>1, <2>2 DEF LocalCount, Sentinel
<1>12. LocalProgress(t, x)
  BY Zenon, <1>1, <1>2, <1>3, <1>4, <1>7 DEF LocalProgress, FlagKept, Guards, WillWipe, Unreffing
<1> QED
  BY <1>1, <1>5, <1>6, <1>8, <1>9, <1>10, <1>11, <1>12, LocalStep, Zenon DEF Kept

(* mdcache_put: the caller's reference becomes the one that is dropped. *)
LEMMA PutStep ==
    ASSUME Counting, LruInv, NEW t \in Threads, Put(t)
    PROVE  Kept
<1>1. t \in Procs /\ t # LruThread /\ pc[t] \in {"hold", "put"}
  BY Zenon, ThreadIsProc DEF Put
<1>2. /\ TypeOK /\ ShapeOf(t) /\ held[t] \in alive /\ obj[t] = NoEntry
      /\ alive \subseteq Entries /\ NoEntry \notin alive
      /\ scanned = NoLane <=> pc[LruThread] = "idle"
  BY Zenon, <1>1, ThreadState DEF ShapeOf, Unreffing
<1>3. PICK x \in Entries : x = held[t]
  BY Zenon, <1>2
<1>4. /\ alive' = alive /\ refcnt' = refcnt /\ key' = key /\ inavl' = inavl
      /\ cleaned' = cleaned /\ no_cleanup' = no_cleanup /\ table' = table /\ scanned' = scanned /\ workdone' = workdone
      /\ queue' = queue /\ qid' = qid /\ glistn' = glistn
      /\ want' = want /\ held' = [held EXCEPT ![t] = NoEntry] /\ obj' = [obj EXCEPT ![t] = x]
      /\ tries' = tries /\ ret' = [ret EXCEPT ![t] = "idle"]
      /\ pc' = [pc EXCEPT ![t] = "unref"]
  BY Zenon, <1>3 DEF Put, Goto, iterator, fields
<1>5. TypeOK' /\ Hashed' /\ OnItsQueue' /\ IteratorSafe'
  <2>1. TypeOK'
    BY <1>2, <1>4, Zenon DEF TypeOK, Places
  <2> QED
    BY Zenon, <1>4, <2>1, HashedKept, QueuesKept DEF LruInv
<1>6. /\ pc'[t] = "unref" /\ held'[t] = NoEntry /\ obj'[t] = x /\ ret'[t] = "idle"
      /\ \A q \in Procs \ {t} : /\ pc'[q] = pc[q] /\ held'[q] = held[q]
                                /\ obj'[q] = obj[q] /\ ret'[q] = ret[q]
  BY <1>1, <1>2, <1>4, Zenon DEF TypeOK
<1>7. Touches(t, x)
  <2>1. \A q \in Procs \ {t} : Exclusive(q) => obj[q] # x
    BY <1>1, <1>3, ExclusiveAlone, Zenon
  <2> QED
    BY Zenon, <1>2, <1>3, <1>4, <1>6, <2>1 DEF Touches, Others
<1>8. LocalShape(t)'
  <2>1. PrivateOf(t)'
    BY Zenon, <1>6, SharedPlace
  <2> QED
    BY ZenonT(30), <1>1, <1>2, <1>3, <1>4, <1>6, <2>1, ThreadIsProc DEF LocalShape, ShapeOf, WantOf, Unreffing, Looking
<1>9. LocalEntry(x)'
  <2>1. refcnt[x] # 0
    BY Zenon, <1>1, <1>2, <1>3, OwnedCounted DEF Holders
  <2>2. qid[x] \in {"L1", "L2"} => inavl[x] \/ \E r \in Threads \ {t} : pc[r] = "push" /\ held[r] = x
    BY Zenon, <1>1 DEF LruInv, QueuedOwned
  <2> QED
    <3>1. qid'[x] \in {"L1", "L2"} =>
            inavl'[x] \/ \E r \in Threads : pc'[r] = "push" /\ held'[r] = x
      BY Zenon, <1>4, <1>6, <2>2, ThreadIsProc
    <3>2. WillWipe(t, x)'
      BY Zenon, <1>6 DEF WillWipe
    <3> QED
      BY Zenon, <1>1, <1>2, <1>3, <1>4, <2>1, <3>1, <3>2 DEF LocalEntry
<1>10. LocalCount(t, x)
  <2>1. \A e \in Entries : Share(t, e)' = Share(t, e)
    <3>1. \A e : /\ Share(t, e)' = Weight(NoEntry, x, "unref", "idle", e)
                 /\ Share(t, e) = Weight(x, NoEntry, pc[t], ret[t], e)
      BY ZenonT(30), <1>1, <1>2, <1>3, <1>6, ShareWeight
    <3> QED
      BY <1>1, <3>1, NoEntryAssumption DEF Weight
  <2>2. refcnt[x] = Sentinel(x) + Rest(t, x) + Share(t, x)
    BY <1>1, <1>2, <1>3, CountApart, ShareWeight, Zenon
  <2> QED
    BY Zenon, <1>4, <2>1, <2>2 DEF LocalCount, Sentinel
<1>11. LocalProgress(t, x)
  BY Zenon, <1>4, <1>1, <1>2, <1>3, <1>6, NoEntryAssumption DEF LocalProgress, FlagKept, Guards, WillWipe, Unreffing
<1> QED
  BY <1>1, <1>5, <1>7, <1>8, <1>9, <1>10, <1>11, LocalStep, Zenon DEF Kept

-----------------------------------------------------------------------------
(* no_cleanup. *)

(* The entry is flagged by a thread that holds it, and that drops another   *)
(* reference to it.                                                         *)
LEMMA GuardStep ==
    ASSUME Counting, LruInv, NEW t \in Threads, Guard(t)
    PROVE  Kept
<1>1. t \in Procs /\ t # LruThread /\ pc[t] = "hold"
  BY Zenon, ThreadIsProc DEF Guard
<1>2. /\ TypeOK /\ ShapeOf(t) /\ held[t] \in alive /\ obj[t] = NoEntry
      /\ alive \subseteq Entries /\ NoEntry \notin alive
      /\ scanned = NoLane <=> pc[LruThread] = "idle"
  BY Zenon, <1>1, ThreadState DEF ShapeOf, Unreffing
<1>3. PICK x \in Entries : x = held[t]
  BY Zenon, <1>2
<1>4. /\ refcnt' = [refcnt EXCEPT ![x] = @ + 1] /\ no_cleanup' = no_cleanup \cup {x}
      /\ alive' = alive /\ key' = key /\ inavl' = inavl /\ cleaned' = cleaned
      /\ table' = table /\ scanned' = scanned /\ workdone' = workdone
      /\ queue' = queue /\ qid' = qid /\ glistn' = glistn
      /\ want' = want /\ held' = held /\ obj' = [obj EXCEPT ![t] = x]
      /\ tries' = tries /\ ret' = [ret EXCEPT ![t] = "unguard"]
      /\ pc' = [pc EXCEPT ![t] = "unref"]
  BY Zenon, <1>3 DEF Guard, IncRef, Goto, iterator
<1>5. refcnt[x] \in Nat \ {0}
  BY Zenon, <1>1, <1>2, <1>3, OwnedCounted DEF Holders
<1>6. TypeOK' /\ Hashed' /\ OnItsQueue' /\ IteratorSafe'
  <2>1. refcnt[x] + 1 \in Nat
    BY <1>5
  <2>2. no_cleanup' \subseteq Entries
    BY Zenon, <1>2, <1>4 DEF TypeOK
  <2>3. TypeOK'
    BY <1>2, <1>4, <2>1, <2>2, Zenon DEF TypeOK, Places
  <2> QED
    BY Zenon, <1>4, <2>3, HashedKept, QueuesKept DEF LruInv
<1>7. /\ pc'[t] = "unref" /\ held'[t] = x /\ obj'[t] = x /\ ret'[t] = "unguard"
      /\ refcnt'[x] = refcnt[x] + 1 /\ \A e \in Entries \ {x} : refcnt'[e] = refcnt[e]
      /\ \A q \in Procs \ {t} : /\ pc'[q] = pc[q] /\ held'[q] = held[q]
                                /\ obj'[q] = obj[q] /\ ret'[q] = ret[q]
  BY <1>1, <1>2, <1>3, <1>4, Zenon DEF TypeOK
<1>8. Touches(t, x)
  <2>1. \A q \in Procs \ {t} : Exclusive(q) => obj[q] # x
    BY <1>1, <1>3, ExclusiveAlone, Zenon
  <2> QED
    BY Zenon, <1>2, <1>3, <1>4, <1>7, <2>1 DEF Touches, Others
<1>9. LocalShape(t)'
  <2>1. PrivateOf(t)'
    BY Zenon, <1>7, SharedPlace
  <2> QED
    <3>1. WantOf(t)'
      BY Zenon, <1>7 DEF WantOf, Unreffing, Looking
    <3>2. ShapeOf(t)'
      BY Zenon, <1>1, <1>2, <1>3, <1>7 DEF ShapeOf, Unreffing
    <3> QED
      BY Zenon, <1>1, <1>2, <1>3, <1>4, <1>7, <2>1, <3>1, <3>2, ThreadIsProc DEF LocalShape
<1>10. refcnt'[x] # 0 /\ LocalCount(t, x)
  <2>1. \A e : /\ Share(t, e)' = Weight(x, x, "unref", "unguard", e)
               /\ Share(t, e) = Weight(x, NoEntry, "hold", ret[t], e)
    BY ZenonT(30), <1>1, <1>2, <1>3, <1>7, ShareWeight
  <2>2. \A e \in Entries \ {x} : Share(t, e)' = Share(t, e)
    BY <2>1, NoEntryAssumption DEF Weight
  <2>3. Share(t, x) = 1 /\ Share(t, x)' = 2
    BY <2>1, NoEntryAssumption DEF Weight
  <2>4. refcnt[x] = Sentinel(x) + Rest(t, x) + Share(t, x) /\ Rest(t, x) \in Nat
    BY <1>1, <1>2, <1>3, CountApart, ShareWeight, Zenon
  <2>5. Sentinel(x)' = Sentinel(x) /\ Sentinel(x) \in Nat
    BY Zenon, <1>4 DEF Sentinel
  <2>6. refcnt'[x] # 0 /\ refcnt'[x] = Sentinel(x)' + Rest(t, x) + Share(t, x)'
    BY <1>5, <1>7, <2>3, <2>4, <2>5
  <2> QED
    BY Zenon, <1>5, <2>2, <2>6 DEF LocalCount
<1>11. LocalEntry(x)'
  <2>1. qid[x] \in {"L1", "L2"} => inavl[x] \/ \E r \in Threads \ {t} : pc[r] = "push" /\ held[r] = x
    BY Zenon, <1>1 DEF LruInv, QueuedOwned
  <2>2. qid'[x] \in {"L1", "L2"} =>
          inavl'[x] \/ \E r \in Threads : pc'[r] = "push" /\ held'[r] = x
    BY Zenon, <1>4, <1>7, <2>1, ThreadIsProc
  <2>3. WillWipe(t, x)'
    BY Zenon, <1>7 DEF WillWipe
  <2> QED
    BY Zenon, <1>1, <1>2, <1>3, <1>4, <1>10, <2>2, <2>3 DEF LocalEntry
<1>12. LocalProgress(t, x)
  BY Zenon, <1>1, <1>2, <1>3, <1>4, <1>7, NoEntryAssumption DEF LocalProgress, FlagKept, Guards, WillWipe, Unreffing
<1> QED
  BY <1>1, <1>6, <1>8, <1>9, <1>10, <1>11, <1>12, LocalStep, Zenon DEF Kept

(* The flag is taken off by the thread that has set it. *)
LEMMA UnguardStep ==
    ASSUME Counting, LruInv, NEW t \in Threads, Unguard(t)
    PROVE  Kept
<1>1. t \in Procs /\ t # LruThread /\ pc[t] = "unguard"
  BY Zenon, ThreadIsProc DEF Unguard
<1>2. /\ TypeOK /\ ShapeOf(t) /\ WantOf(t) /\ held[t] \in alive /\ obj[t] = NoEntry
      /\ NoEntry \notin alive
      /\ scanned = NoLane <=> pc[LruThread] = "idle"
  BY Zenon, <1>1, ThreadState DEF ShapeOf, Unreffing
<1>3. /\ UNCHANGED <<alive, refcnt, qid, key, inavl, cleaned, queue, table>>
      /\ alive' = alive /\ qid' = qid /\ no_cleanup' = no_cleanup \ {held[t]}
      /\ scanned' = scanned /\ workdone' = workdone /\ glistn' = glistn
      /\ held' = held /\ obj' = obj /\ tries' = tries /\ want' = want /\ ret' = ret
      /\ pc' = [pc EXCEPT ![t] = "hold"]
  BY Zenon DEF Unguard, Goto, iterator
<1>4. TypeOK' /\ IteratorSafe'
  <2>1. no_cleanup' \subseteq Entries
    BY Zenon, <1>2, <1>3 DEF TypeOK
  <2> QED
    BY Zenon, <1>2, <1>3, <2>1, QueuesKept DEF TypeOK, Places, LruInv
<1>5. pc'[t] = "hold" /\ \A q \in Procs \ {t} : pc'[q] = pc[q]
  BY <1>1, <1>2, <1>3, Zenon DEF TypeOK
<1>6. LocalShape(t)'
  <2>1. PrivateOf(t)'
    BY Zenon, <1>5, SharedPlace
  <2> QED
    BY Zenon, <1>1, <1>2, <1>3, <1>5, <2>1, ThreadIsProc DEF LocalShape, ShapeOf, WantOf, Unreffing, Looking
<1>7. \A e \in Entries : /\ Weight(held'[t], obj'[t], pc'[t], ret'[t], e)
                              = Weight(held[t], obj[t], pc[t], ret[t], e)
                         /\ WillWipe(t, e) => WillWipe(t, e)'
  BY Zenon, <1>1, <1>2, <1>3, <1>5 DEF Weight, WillWipe
<1>8. Others(t)
  BY Zenon, <1>3, <1>5 DEF Others
<1>9. FlagKept(t)
  BY Zenon, <1>3 DEF FlagKept, Guards
<1> QED
  BY Zenon, <1>1, <1>3, <1>4, <1>6, <1>7, <1>8, <1>9, QuietStep

-----------------------------------------------------------------------------
(* _mdcache_lru_unref. *)

(* An entry with no_cleanup is not looked at; who has set the flag holds it. *)
LEMMA UnrefCheckStep ==
    ASSUME Counting, LruInv, NEW p \in Procs, UnrefCheck(p)
    PROVE  Kept
<1>1. pc[p] = "unref"
  BY Zenon DEF UnrefCheck
<1>2. /\ TypeOK /\ ShapeOf(p) /\ PrivateOf(p)
      /\ p \in Threads => WantOf(p)
      /\ obj[p] \in alive /\ held[p] \in alive \cup {NoEntry}
      /\ alive \subseteq Entries /\ NoEntry \notin alive
      /\ scanned = NoLane <=> pc[LruThread] = "idle"
  BY Zenon, <1>1, ThreadState DEF ShapeOf, Unreffing
<1>3. PICK x \in Entries : x = obj[p]
  BY Zenon, <1>2
<1>4. /\ alive' = alive /\ refcnt' = refcnt /\ key' = key /\ inavl' = inavl
      /\ cleaned' = cleaned /\ no_cleanup' = no_cleanup
      /\ table' = table /\ scanned' = scanned /\ workdone' = workdone
      /\ queue' = queue /\ qid' = qid /\ glistn' = glistn
      /\ want' = want /\ held' = held /\ obj' = obj /\ tries' = tries /\ ret' = ret
      /\ pc' = [pc EXCEPT ![p] = IF x \in no_cleanup THEN "dec" ELSE "wipe"]
  BY Zenon, <1>3 DEF UnrefCheck, Goto, iterator, fields
<1>5. TypeOK' /\ Hashed' /\ OnItsQueue' /\ IteratorSafe'
  <2>1. TypeOK'
    BY <1>2, <1>4, Zenon DEF TypeOK, Places
  <2> QED
    BY Zenon, <1>4, <2>1, HashedKept, QueuesKept DEF LruInv
<1>6. /\ pc'[p] = IF x \in no_cleanup THEN "dec" ELSE "wipe"
      /\ pc'[p] \in {"dec", "wipe"} /\ \A q \in Procs \ {p} : pc'[q] = pc[q]
  BY <1>2, <1>4, Zenon DEF TypeOK
<1>7. Touches(p, x)
  <2>1. \A q \in Procs \ {p} : Exclusive(q) => obj[q] # x
    BY <1>3, ExclusiveAlone, Zenon
  <2> QED
    BY Zenon, <1>2, <1>3, <1>4, <1>6, <2>1 DEF Touches, Others
<1>8. LocalShape(p)'
  <2>1. Alone(p) => Alone(p)'
    BY Zenon, <1>4 DEF Alone
  <2>2. PrivateOf(p)'
    BY Zenon, <1>1, <1>2, <1>4, <1>6, <2>1
       DEF PrivateOf, SecludedOf, EvictingOf, InsertingOf, DyingOf, PushingOf, Making, Unreffing
  <2> QED
    BY Zenon, <1>1, <1>2, <1>4, <1>6, <2>2, ThreadIsProc DEF LocalShape, ShapeOf, WantOf, Unreffing, Looking
<1>9. LocalEntry(x)'
  <2>1. refcnt[x] # 0
    BY Zenon, <1>1, <1>2, <1>3, OwnedCounted DEF Workers
  <2>2. qid[x] \in {"L1", "L2"} => inavl[x] \/ \E r \in Threads \ {p} : pc[r] = "push" /\ held[r] = x
    BY Zenon, <1>1 DEF LruInv, QueuedOwned
  <2>3. \E q \in Procs : WillWipe(q, x)'
    <3>1. CASE x \in no_cleanup
      BY Zenon, <1>4, <3>1 DEF LruInv, Flagged, Guards, WillWipe
    <3>2. CASE x \notin no_cleanup
      <4>1. pc'[p] = "wipe" /\ obj'[p] = x
        BY Zenon, <1>3, <1>4, <1>6, <3>2
      <4> QED
        BY Zenon, <4>1 DEF WillWipe
    <3> QED
      BY Zenon, <3>1, <3>2
  <2> QED
    BY Zenon, <1>2, <1>3, <1>4, <1>6, <2>1, <2>2, <2>3, ThreadIsProc DEF LocalEntry
<1>10. LocalCount(p, x)
  <2>1. \A e \in Entries : Share(p, e)' = Share(p, e)
    BY Zenon, <1>1, <1>4, <1>6, ShareSame
  <2>2. refcnt[x] = Sentinel(x) + Rest(p, x) + Share(p, x)
    BY <1>2, <1>3, CountApart, ShareWeight, Zenon
  <2> QED
    BY Zenon, <1>4, <2>1, <2>2 DEF LocalCount, Sentinel
<1>11. LocalProgress(p, x)
  BY Zenon, <1>1, <1>3, <1>4, <1>6 DEF LocalProgress, FlagKept, Guards, WillWipe, Unreffing
<1> QED
  BY <1>5, <1>7, <1>8, <1>9, <1>10, <1>11, LocalStep, Zenon DEF Kept

(* The first thread to drop a reference of a killed entry wipes it. *)
LEMMA UnrefWipeStep ==
    ASSUME Counting, LruInv, NEW p \in Procs, UnrefWipe(p)
    PROVE  Kept
<1>1. pc[p] = "wipe"
  BY Zenon DEF UnrefWipe
<1>2. /\ TypeOK /\ ShapeOf(p) /\ PrivateOf(p)
      /\ p \in Threads => WantOf(p)
      /\ obj[p] \in alive /\ held[p] \in alive \cup {NoEntry}
      /\ alive \subseteq Entries /\ NoEntry \notin alive
      /\ scanned = NoLane <=> pc[LruThread] = "idle"
  BY Zenon, <1>1, ThreadState DEF ShapeOf, Unreffing
<1>3. PICK x \in Entries : x = obj[p]
  BY Zenon, <1>2
<1>4. /\ alive' = alive /\ refcnt' = refcnt /\ key' = key /\ inavl' = inavl
      /\ table' = table /\ scanned' = scanned /\ workdone' = workdone
      /\ queue' = queue /\ qid' = qid /\ glistn' = glistn
      /\ want' = want /\ held' = held /\ obj' = obj /\ tries' = tries /\ ret' = ret
      /\ pc' = [pc EXCEPT ![p] = "dec"]
      /\ no_cleanup' = no_cleanup
      /\ cleaned' = IF qid[x] = "cleanup" /\ x \notin cleaned THEN cleaned \cup {x} ELSE cleaned
  BY Zenon, <1>3 DEF UnrefWipe, WipedBy, Goto, iterator
<1>5. TypeOK' /\ Hashed' /\ OnItsQueue' /\ IteratorSafe'
  <2>1. TypeOK'
    <3>1. cleaned' \subseteq Entries
      BY Zenon, <1>2, <1>4 DEF TypeOK
    <3> QED
      BY <1>2, <1>4, <3>1, Zenon DEF TypeOK, Places
  <2> QED
    BY Zenon, <1>4, <2>1, HashedKept, QueuesKept DEF LruInv
<1>6. pc'[p] = "dec" /\ \A q \in Procs \ {p} : pc'[q] = pc[q]
  BY <1>2, <1>4, Zenon DEF TypeOK
<1>7. Touches(p, x)
  <2>1. \A q \in Procs \ {p} : Exclusive(q) => obj[q] # x
    BY <1>3, ExclusiveAlone, Zenon
  <2> QED
    BY Zenon, <1>2, <1>3, <1>4, <1>6, <2>1 DEF Touches, Others
<1>8. LocalShape(p)'
  <2>1. Alone(p) => Alone(p)'
    BY Zenon, <1>4 DEF Alone
  <2>2. PrivateOf(p)'
    BY Zenon, <1>1, <1>2, <1>4, <1>6, <2>1
       DEF PrivateOf, SecludedOf, EvictingOf, InsertingOf, DyingOf, PushingOf, Making, Unreffing
  <2> QED
    BY Zenon, <1>1, <1>2, <1>4, <1>6, <2>2, ThreadIsProc DEF LocalShape, ShapeOf, WantOf, Unreffing, Looking
<1>9. LocalEntry(x)'
  <2>1. refcnt[x] # 0
    BY Zenon, <1>1, <1>2, <1>3, OwnedCounted DEF Workers
  <2>2. qid[x] \in {"L1", "L2"} => inavl[x] \/ \E r \in Threads \ {p} : pc[r] = "push" /\ held[r] = x
    BY Zenon, <1>1 DEF LruInv, QueuedOwned
  <2> QED
    BY Zenon, <1>2, <1>3, <1>4, <1>6, <2>1, <2>2, ThreadIsProc DEF LocalEntry
<1>10. LocalCount(p, x)
  <2>1. \A e \in Entries : Share(p, e)' = Share(p, e)
    BY Zenon, <1>1, <1>4, <1>6, ShareSame
  <2>2. refcnt[x] = Sentinel(x) + Rest(p, x) + Share(p, x)
    BY <1>2, <1>3, CountApart, ShareWeight, Zenon
  <2> QED
    BY Zenon, <1>4, <2>1, <2>2 DEF LocalCount, Sentinel
<1>11. LocalProgress(p, x)
  BY Zenon, <1>1, <1>3, <1>4, <1>6 DEF LocalProgress, FlagKept, Guards, WillWipe, Unreffing
<1> QED
  BY <1>5, <1>7, <1>8, <1>9, <1>10, <1>11, LocalStep, Zenon DEF Kept

(* A thread that drops a reference to an entry holds another one to it only *)
(* if it has set no_cleanup.                                                *)
LEMMA UnreffingState ==
    ASSUME Counting, LruInv, NEW p \in Procs, pc[p] \in Unreffing
    PROVE  /\ obj[p] \in alive
           /\ ret[p] # "unguard" => held[p] # obj[p]
           /\ ret[p] = "unguard" => held[p] = obj[p]
<1>1. obj[p] \in alive /\ NoEntry \notin alive
  BY Zenon, ThreadState DEF ShapeOf
<1>2. CASE ret[p] \in {"again", "hold"}
  BY Zenon, <1>1, <1>2, ThreadState DEF PrivateOf, SecludedOf, Making, Alone
<1>3. CASE ret[p] \notin {"again", "hold"}
  <2>1. pc[p] \notin {"adjust", "raced", "again", "hold", "unguard", "push", "put"}
    BY Zenon DEF Unreffing
  <2> QED
    BY Zenon, <1>1, <1>3, <2>1, ThreadState DEF ShapeOf
<1> QED
  BY Zenon, <1>1, <1>2, <1>3

(* _mdcache_lru_unref returns to where the reference was dropped. *)
LEMMA ReturnShape ==
    ASSUME Counting, LruInv, NEW p \in Procs, pc[p] \in Unreffing, pc'[p] = ret[p],
           obj'[p] = IF ret[p] = "again" THEN obj[p] ELSE NoEntry,
           p # LruThread => pc'[LruThread] = pc[LruThread],
           held' = held, ret' = ret, want' = want, scanned' = scanned
    PROVE  /\ ShapeOf(p)'
           /\ p \in Threads => WantOf(p)'
           /\ scanned' = NoLane <=> pc'[LruThread] = "idle"
<1>1. /\ ShapeOf(p)
      /\ p \in Threads => WantOf(p)
      /\ scanned = NoLane <=> pc[LruThread] = "idle"
      /\ obj[p] \in alive /\ NoEntry \notin alive
      /\ ret[p] \in {"idle", "again", "hold", "unguard", "reap", "scan"}
  BY Zenon, ThreadState DEF ShapeOf, TypeOK
<1>2. ShapeOf(p)'
  BY Zenon, <1>1 DEF ShapeOf, Unreffing
<1>3. p \in Threads => WantOf(p)'
  BY Zenon, <1>1 DEF WantOf, Unreffing, Looking
<1>4. scanned' = NoLane <=> pc'[LruThread] = "idle"
  BY Zenon, <1>1 DEF ShapeOf, Unreffing
<1> QED
  BY Zenon, <1>2, <1>3, <1>4

(* The counter is decremented; whoever brings it to zero is alone. *)
LEMMA UnrefDecStep ==
    ASSUME Counting, LruInv, NEW p \in Procs, UnrefDec(p)
    PROVE  Kept
<1>1. pc[p] = "dec" /\ pc[p] \in Unreffing
  BY Zenon DEF UnrefDec, Unreffing
<1>2. /\ TypeOK /\ ShapeOf(p) /\ PrivateOf(p)
      /\ p \in Threads => WantOf(p)
      /\ obj[p] \in alive /\ held[p] \in alive \cup {NoEntry}
      /\ ret[p] # "unguard" => held[p] # obj[p]
      /\ ret[p] = "unguard" => held[p] = obj[p]
      /\ alive \subseteq Entries /\ NoEntry \notin alive
      /\ scanned = NoLane <=> pc[LruThread] = "idle"
  BY Zenon, <1>1, ThreadState, UnreffingState
<1>3. PICK x \in Entries : x = obj[p]
  BY Zenon, <1>2
<1>4. /\ refcnt' = [refcnt EXCEPT ![x] = @ - 1]
      /\ alive' = alive /\ key' = key /\ inavl' = inavl /\ cleaned' = cleaned /\ no_cleanup' = no_cleanup
      /\ table' = table /\ scanned' = scanned /\ workdone' = workdone
      /\ queue' = queue /\ qid' = qid /\ glistn' = glistn
      /\ want' = want /\ held' = held /\ tries' = tries /\ ret' = ret
      /\ IF refcnt[x] = 1
         THEN pc' = [pc EXCEPT ![p] = "zero"] /\ obj' = obj
         ELSE /\ pc' = [pc EXCEPT ![p] = ret[p]]
              /\ obj' = [obj EXCEPT ![p] = IF ret[p] = "again" THEN x ELSE NoEntry]
  BY Zenon, <1>3 DEF UnrefDec, Return, DecRef, Goto, iterator, fields
<1>5. /\ refcnt[x] = Sentinel(x) + Rest(p, x) + Share(p, x) /\ Rest(p, x) \in Nat
      /\ Share(p, x) = IF ret[p] \in {"again", "unguard"} THEN 2 ELSE 1
      /\ Sentinel(x) \in {0, 1} /\ refcnt[x] \in Nat \ {0}
  <2>1. refcnt[x] = Sentinel(x) + Rest(p, x) + Share(p, x) /\ Rest(p, x) \in Nat
    BY <1>2, <1>3, CountApart, ShareWeight, ZenonT(30)
  <2>2. Share(p, x) = IF ret[p] \in {"again", "unguard"} THEN 2 ELSE 1
    <3>1. /\ Share(p, x) = Weight(held[p], x, "dec", ret[p], x)
          /\ ret[p] # "unguard" => held[p] # x
          /\ ret[p] = "unguard" => held[p] = x
      BY ZenonT(30), <1>1, <1>2, <1>3, ShareWeight
    <3> QED
      BY <3>1 DEF Weight
  <2>3. Sentinel(x) \in {0, 1}
    BY Zenon DEF Sentinel
  <2> QED
    BY <2>1, <2>2, <2>3
<1>6. TypeOK' /\ Hashed' /\ OnItsQueue' /\ IteratorSafe'
  <2>1. refcnt[x] - 1 \in Nat
    BY <1>5
  <2>2. pc' \in [Procs -> Places] /\ obj' \in [Procs -> Entries \cup {NoEntry}]
    <3>1. /\ pc \in [Procs -> Places] /\ obj \in [Procs -> Entries \cup {NoEntry}]
          /\ ret[p] \in Places /\ "zero" \in Places
      BY Zenon, <1>2 DEF TypeOK, Places
    <3>2. CASE refcnt[x] = 1
      BY <1>4, <3>1, <3>2, Zenon
    <3>3. CASE refcnt[x] # 1
      BY <1>4, <3>1, <3>3, Zenon
    <3> QED
      BY Zenon, <3>2, <3>3
  <2>3. TypeOK'
    BY <1>2, <1>4, <2>1, <2>2, Zenon DEF TypeOK
  <2> QED
    BY Zenon, <1>4, <2>3, HashedKept, QueuesKept DEF LruInv
<1>7. /\ refcnt'[x] = refcnt[x] - 1 /\ \A e \in Entries \ {x} : refcnt'[e] = refcnt[e]
      /\ \A q \in Procs \ {p} : pc'[q] = pc[q] /\ obj'[q] = obj[q]
  BY Zenon, <1>2, <1>4 DEF TypeOK
<1>8. /\ refcnt[x] = 1 => pc'[p] = "zero" /\ obj'[p] = x
      /\ refcnt[x] # 1 => /\ pc'[p] = ret[p]
                          /\ obj'[p] = IF ret[p] = "again" THEN x ELSE NoEntry
  BY Zenon, <1>2, <1>3, <1>4 DEF TypeOK
<1>9. Touches(p, x)
  <2>1. \A q \in Procs \ {p} : Exclusive(q) => obj[q] # x
    BY <1>3, ExclusiveAlone, Zenon
  <2> QED
    BY Zenon, <1>2, <1>3, <1>4, <1>7, <1>8, <2>1 DEF Touches, Others
<1>10. LocalProgress(p, x)
  <2>1. FlagKept(p)
    BY Zenon, <1>1, <1>4, <1>8 DEF FlagKept, Guards, Unreffing
  <2> QED
    BY Zenon, <1>1, <1>3, <1>4, <2>1 DEF LocalProgress, WillWipe
<1>11. /\ qid[x] \in {"L1", "L2"} => inavl[x] \/ \E r \in Threads \ {p} : pc[r] = "push" /\ held[r] = x
       /\ qid[x] = "cleanup" /\ x \notin cleaned =>
            \E q \in Procs : held[q] = x \/ (q # p /\ obj[q] = x /\ WillWipe(q, x))
  BY ZenonT(30), <1>1, <1>2, <1>3, ThreadIsProc DEF LruInv, QueuedOwned, ToWipe, WillWipe
<1>12. LocalCount(p, x)
  <2>1. \A e : Share(p, e) = Weight(held[p], x, "dec", ret[p], e)
    BY Zenon, <1>1, <1>3, ShareWeight
  <2>2. /\ \A e \in Entries \ {x} : Share(p, e)' = Share(p, e)
        /\ Share(p, x)' = Share(p, x) - 1
    <3>1. CASE refcnt[x] = 1
      <4>1. \A e : Share(p, e)' = Weight(held[p], x, "zero", ret[p], e)
        BY ZenonT(30), <1>4, <1>8, <3>1, ShareWeight
      <4>2. ret[p] # "again"
        BY <1>5, <3>1
      <4> QED
        BY <1>2, <1>3, <2>1, <4>1, <4>2 DEF Weight
    <3>2. CASE refcnt[x] # 1 /\ ret[p] = "again"
      <4>1. \A e : Share(p, e)' = Weight(held[p], x, "again", "again", e)
        <5>1. held'[p] = held[p] /\ obj'[p] = x /\ pc'[p] = "again" /\ ret'[p] = "again"
          BY Zenon, <1>4, <1>8, <3>2
        <5> QED
          BY Zenon, <5>1, ShareWeight
      <4> QED
        BY <1>2, <1>3, <2>1, <3>2, <4>1 DEF Weight
    <3>3. CASE refcnt[x] # 1 /\ ret[p] # "again"
      <4>1. \A e : Share(p, e)' = Weight(held[p], NoEntry, ret[p], ret[p], e)
        BY ZenonT(30), <1>4, <1>8, <3>3, ShareWeight
      <4> QED
        BY <1>2, <1>3, <2>1, <3>3, <4>1, NoEntryAssumption DEF Weight
    <3> QED
      BY Zenon, <3>1, <3>2, <3>3
  <2>3. Sentinel(x)' = Sentinel(x)
    BY Zenon, <1>4 DEF Sentinel
  <2> QED
    <3>1. refcnt'[x] = Sentinel(x)' + Rest(p, x) + Share(p, x)'
      BY <1>5, <1>7, <2>2, <2>3
    <3> QED
      BY Zenon, <1>5, <2>2, <3>1 DEF LocalCount
<1>13. CASE refcnt[x] = 1
  <2>1. /\ ret[p] \notin {"again", "unguard"} /\ ~inavl[x]
        /\ Holders(x) \subseteq {p} /\ Workers(x) \subseteq {p}
    BY <1>5, <1>13, RefsApart DEF Sentinel
  <2>0. held[p] # x
    BY Zenon, <1>2, <1>3, <2>1
  <2>2. \A q \in Procs \ {p} : held[q] # x /\ (obj[q] = x => pc[q] \in {"zero", "free"})
    BY Zenon, <2>1 DEF Holders, Workers
  <2>3. \A q \in Procs \ {p} : obj[q] # x
    BY Zenon, <1>3, <2>2, ExclusiveAlone DEF Exclusive
  <2>4. LocalShape(p)'
    <3>1. Alone(p) => Alone(p)'
      BY ZenonT(30), <1>4, <1>13 DEF Alone
    <3>2. refcnt'[x] = 0
      BY <1>7, <1>13
    <3>3. PrivateOf(p)'
      BY ZenonT(30), <1>1, <1>2, <1>3, <1>4, <1>7, <1>8, <1>13, <2>1, <2>3, <3>1, <3>2
         DEF PrivateOf, SecludedOf, EvictingOf, InsertingOf, DyingOf, PushingOf, Making, Unreffing
    <3> QED
      BY Zenon, <1>1, <1>2, <1>3, <1>4, <1>7, <1>8, <1>13, <2>1, <3>3, ThreadIsProc
         DEF LocalShape, ShapeOf, WantOf, Unreffing, Looking
  <2>5. LocalEntry(x)'
    BY ZenonT(30), <1>2, <1>3, <1>4, <1>8, <1>11, <1>13, <2>0, <2>1, <2>2, <2>3, ThreadIsProc DEF LocalEntry
  <2> QED
    BY <1>6, <1>9, <1>10, <1>12, <2>4, <2>5, LocalStep, ZenonT(30) DEF Kept
<1>14. CASE refcnt[x] # 1
  <2>1. refcnt'[x] # 0
    BY <1>5, <1>7, <1>14
  <2>2. LocalShape(p)'
    <3>1. /\ ShapeOf(p)'
          /\ p \in Threads => WantOf(p)'
          /\ scanned' = NoLane <=> pc'[LruThread] = "idle"
      BY Zenon, <1>1, <1>3, <1>4, <1>7, <1>8, <1>14, ThreadIsProc, ReturnShape
    <3>2. PrivateOf(p)'
      <4>1. CASE ret[p] = "again"
        <5>1. obj' = obj
          BY Zenon, <1>2, <1>3, <1>4, <1>14, <4>1 DEF TypeOK
        <5>2. Alone(p) => Alone(p)'
          BY Zenon, <1>4, <5>1 DEF Alone
        <5> QED
          BY Zenon, <1>1, <1>2, <1>3, <1>4, <1>8, <1>14, <4>1, <5>1, <5>2
             DEF PrivateOf, SecludedOf, EvictingOf, InsertingOf, DyingOf, PushingOf, Making, Unreffing
      <4>2. CASE ret[p] # "again"
        BY Zenon, <1>2, <1>8, <1>14, <4>2, SharedPlace DEF TypeOK
      <4> QED
        BY Zenon, <4>1, <4>2
    <3> QED
      BY Zenon, <1>2, <1>3, <1>4, <1>8, <1>14, <3>1, <3>2 DEF LocalShape
  <2>3. LocalEntry(x)'
    BY Zenon, <1>2, <1>3, <1>4, <1>7, <1>11, <2>1, ThreadIsProc DEF LocalEntry, WillWipe
  <2> QED
    BY <1>6, <1>9, <1>10, <1>12, <2>2, <2>3, LocalStep, ZenonT(30) DEF Kept
<1> QED
  BY Zenon, <1>13, <1>14

(* The counter that came to zero stays there: the entry leaves its queue. *)
LEMMA UnrefZeroStep ==
    ASSUME Counting, LruInv, NEW p \in Procs, UnrefZero(p)
    PROVE  Kept
<1>1. pc[p] = "zero"
  BY Zenon DEF UnrefZero
<1>2. /\ TypeOK /\ ShapeOf(p) /\ PrivateOf(p)
      /\ p \in Threads => WantOf(p)
      /\ obj[p] \in alive /\ held[p] \in alive \cup {NoEntry}
      /\ alive \subseteq Entries /\ NoEntry \notin alive
      /\ scanned = NoLane <=> pc[LruThread] = "idle"
  BY Zenon, <1>1, ThreadState DEF ShapeOf, Unreffing
<1>3. PICK x \in Entries : x = obj[p]
  BY Zenon, <1>2
<1>4. refcnt[x] = 0 /\ \A q \in Procs \ {p} : held[q] # x /\ obj[q] # x
  <2>1. refcnt[x] = 0
    BY ZenonT(30), <1>1, <1>2, <1>3 DEF PrivateOf, DyingOf
  <2> QED
    BY Zenon, <1>1, <1>3, <2>1, ExclusiveAlone DEF Exclusive
<1>5. /\ alive' = alive /\ refcnt' = refcnt /\ key' = key /\ inavl' = inavl
      /\ cleaned' = cleaned /\ no_cleanup' = no_cleanup /\ table' = table /\ scanned' = scanned /\ workdone' = workdone
      /\ want' = want /\ held' = held /\ obj' = obj /\ tries' = tries /\ ret' = ret
      /\ pc' = [pc EXCEPT ![p] = "free"]
      /\ Moves(x, "none")
  <2>1. ~(refcnt[obj[p]] > 0)
    BY <1>3, <1>4
  <2> QED
    BY Zenon, <1>3, <2>1 DEF UnrefZero, Goto, iterator, fields, Moves
<1>6. /\ queue' \in [Lanes \X QueueId -> Seq(Entries)]
      /\ qid' = [qid EXCEPT ![x] = "none"]
      /\ glistn' \in Entries \cup {NoEntry}
      /\ OnItsQueue' /\ IteratorSafe'
  BY Zenon, <1>5, MovesSafe DEF LruInv
<1>7. TypeOK' /\ Hashed'
  BY <1>2, <1>5, <1>6, HashedKept, Zenon DEF TypeOK, Places
<1>8. /\ pc'[p] = "free" /\ \A q \in Procs \ {p} : pc'[q] = pc[q]
      /\ qid'[x] = "none" /\ \A e \in Entries \ {x} : qid'[e] = qid[e]
  BY <1>2, <1>5, <1>6, Zenon DEF TypeOK
<1>9. Touches(p, x)
  BY Zenon, <1>2, <1>3, <1>4, <1>5, <1>8 DEF Touches, Others
<1>10. LocalShape(p)'
  <2>1. Alone(p) => Alone(p)'
    BY Zenon, <1>5 DEF Alone
  <2>2. PrivateOf(p)'
    BY Zenon, <1>1, <1>2, <1>3, <1>4, <1>5, <1>8, <2>1
       DEF PrivateOf, SecludedOf, EvictingOf, InsertingOf, DyingOf, PushingOf, Making, Unreffing
  <2> QED
    BY Zenon, <1>1, <1>2, <1>5, <1>8, <2>2, ThreadIsProc DEF LocalShape, ShapeOf, WantOf, Unreffing, Looking
<1>11. LocalEntry(x)'
  BY Zenon, <1>2, <1>3, <1>5, <1>8 DEF LocalEntry
<1>12. LocalCount(p, x)
  <2>1. \A e \in Entries : Share(p, e)' = Share(p, e)
    BY Zenon, <1>1, <1>5, <1>8, ShareSame
  <2>2. refcnt[x] = Sentinel(x) + Rest(p, x) + Share(p, x)
    BY <1>2, <1>3, CountApart, ShareWeight, Zenon
  <2> QED
    BY ZenonT(30), <1>5, <2>1, <2>2 DEF LocalCount, Sentinel
<1>13. LocalProgress(p, x)
  BY Zenon, <1>1, <1>3, <1>5, <1>8 DEF LocalProgress, FlagKept, Guards, WillWipe, Unreffing
<1> QED
  BY <1>6, <1>7, <1>9, <1>10, <1>11, <1>12, <1>13, LocalStep, Zenon DEF Kept

(* The memory is freed: nobody knows of the entry any more. *)
LEMMA FreeStep ==
    ASSUME Counting, LruInv, NEW p \in Procs, Free(p)
    PROVE  Kept
<1>1. pc[p] = "free" /\ pc[p] \in Unreffing
  BY Zenon DEF Free, Unreffing
<1>2. /\ TypeOK /\ ShapeOf(p) /\ PrivateOf(p)
      /\ obj[p] \in alive /\ held[p] \in alive \cup {NoEntry}
      /\ alive \subseteq Entries /\ NoEntry \notin alive
  BY Zenon, <1>1, ThreadState, UnreffingState
<1>3. PICK x \in Entries : x = obj[p]
  BY Zenon, <1>2
<1>4. /\ refcnt[x] = 0 /\ qid[x] = "none" /\ ~inavl[x] /\ ret[p] # "again"
      /\ held[p] # x /\ \A q \in Procs \ {p} : held[q] # x /\ obj[q] # x
  <2>1. refcnt[x] = 0 /\ qid[x] = "none" /\ ret[p] # "again"
    BY Zenon, <1>1, <1>2, <1>3 DEF PrivateOf, DyingOf
  <2>2. ~inavl[x] /\ held[p] # x
    BY Zenon, <1>2, <1>3, <2>1, OwnedCounted DEF Holders
  <2> QED
    BY Zenon, <1>1, <1>3, <2>1, <2>2, ExclusiveAlone DEF Exclusive
<1>5. /\ alive' = alive \ {x} /\ cleaned' = cleaned \ {x} /\ no_cleanup' = no_cleanup
      /\ key' = [key EXCEPT ![x] = NoKey]
      /\ refcnt' = refcnt /\ inavl' = inavl
      /\ table' = table /\ scanned' = scanned /\ workdone' = workdone
      /\ queue' = queue /\ qid' = qid /\ glistn' = glistn
      /\ want' = want /\ held' = held /\ tries' = tries /\ ret' = ret
      /\ pc' = [pc EXCEPT ![p] = ret[p]] /\ obj' = [obj EXCEPT ![p] = NoEntry]
  BY Zenon, <1>3, <1>4 DEF Free, Return, Goto, iterator
<1>6. TypeOK' /\ OnItsQueue' /\ IteratorSafe'
  <2>1. ret[p] \in Places
    BY Zenon, <1>2 DEF TypeOK, Places
  <2>2. alive' \subseteq Entries /\ cleaned' \subseteq Entries
    BY Zenon, <1>2, <1>5 DEF TypeOK
  <2>3. TypeOK'
    BY <1>2, <1>5, <2>1, <2>2, Zenon DEF TypeOK
  <2> QED
    BY Zenon, <1>5, <2>3, QueuesKept DEF LruInv
<1>7. /\ pc'[p] = ret[p] /\ obj'[p] = NoEntry
      /\ \A q \in Procs \ {p} : pc'[q] = pc[q] /\ obj'[q] = obj[q]
      /\ \A e \in Entries \ {x} : key'[e] = key[e]
  BY <1>2, <1>5, Zenon DEF TypeOK
<1>8. Hashed'
  <2>1. \A k \in Keys : table[k] # NoEntry => table[k] \in Entries \ {x}
    <3>1. \A k \in Keys : table[k] \in Entries \cup {NoEntry}
      BY Zenon, <1>2 DEF TypeOK
    <3>2. \A k \in Keys : table[k] # NoEntry => inavl[table[k]]
      BY Zenon DEF LruInv, Hashed
    <3> QED
      BY Zenon, <1>4, <3>1, <3>2
  <2> QED
    BY ZenonT(30), <1>4, <1>5, <1>7, <2>1 DEF LruInv, Hashed
<1>9. Touches(p, x)
  BY Zenon, <1>2, <1>3, <1>4, <1>5, <1>7 DEF Touches, Others
<1>10. LocalShape(p)'
  <2>1. /\ ShapeOf(p)'
        /\ p \in Threads => WantOf(p)'
        /\ scanned' = NoLane <=> pc'[LruThread] = "idle"
    BY Zenon, <1>1, <1>4, <1>5, <1>7, ThreadIsProc, ReturnShape
  <2>2. PrivateOf(p)'
    BY Zenon, <1>2, <1>4, <1>7, SharedPlace DEF TypeOK
  <2> QED
    BY Zenon, <1>2, <1>3, <1>4, <1>5, <1>7, <2>1, <2>2 DEF LocalShape
<1>11. LocalEntry(x)'
  BY Zenon, <1>4, <1>5 DEF LocalEntry
<1>12. LocalCount(p, x)
  <2>1. \A e \in Entries \ {x} : Share(p, e)' = Share(p, e)
    <3>1. \A e : /\ Share(p, e)' = Weight(held[p], NoEntry, ret[p], ret[p], e)
                 /\ Share(p, e) = Weight(held[p], x, "free", ret[p], e)
      BY ZenonT(30), <1>1, <1>3, <1>5, <1>7, ShareWeight
    <3> QED
      BY <3>1, NoEntryAssumption DEF Weight
  <2> QED
    BY Zenon, <1>5, <2>1 DEF LocalCount
<1>13. LocalProgress(p, x)
  <2>1. FlagKept(p)
    BY Zenon, <1>1, <1>5, <1>7 DEF FlagKept, Guards, Unreffing
  <2> QED
    BY Zenon, <1>1, <1>3, <1>5, <2>1 DEF LocalProgress, WillWipe
<1> QED
  BY <1>6, <1>8, <1>9, <1>10, <1>11, <1>12, <1>13, LocalStep, Zenon DEF Kept

-----------------------------------------------------------------------------
(* lru_run_lane. *)

(* The iterator starts at the head of L1. *)
LEMMA LaneStartStep ==
    ASSUME Counting, LruInv, NEW l \in Lanes, LaneStart(l)
    PROVE  Kept
<1> DEFINE p == LruThread
<1>1. p \in Procs /\ p \notin Threads /\ pc[p] = "idle"
  BY Zenon, ThreadIsProc, ThreadsAssumption DEF LaneStart
<1>2. /\ TypeOK /\ OnItsQueue /\ ShapeOf(p) /\ held[p] = NoEntry /\ obj[p] = NoEntry
      /\ ret[p] = "scan"
  BY Zenon, <1>1, ThreadState DEF ShapeOf, Unreffing, LruInv
<1>3. PICK f : f = First(queue[<<l, "L1">>])
  BY Zenon
<1>4. f \in Entries \cup {NoEntry} /\ (f # NoEntry => qid[f] = "L1" /\ LaneOf[f] = l)
  <2>1. "L1" \in QueueId
    BY Zenon DEF QueueId
  <2>2. CASE queue[<<l, "L1">>] = <<>>
    BY Zenon, <1>3, <2>2 DEF First
  <2>3. CASE queue[<<l, "L1">>] # <<>>
    BY Zenon, <1>2, <1>3, <2>1, <2>3, HeadOfList DEF First
  <2> QED
    BY Zenon, <2>2, <2>3
<1>5. /\ UNCHANGED <<alive, refcnt, qid, key, inavl, cleaned, no_cleanup, queue, table>>
      /\ workdone' = workdone /\ want' = want /\ held' = held /\ obj' = obj
      /\ tries' = tries /\ ret' = ret
      /\ scanned' = l /\ glistn' = f /\ pc' = [pc EXCEPT ![p] = "scan"]
  BY Zenon, <1>3 DEF LaneStart, Goto, fields
<1>6. qid' = qid /\ IteratorSafe'
  BY Zenon, <1>4, <1>5 DEF IteratorSafe
<1>7. TypeOK'
  BY <1>2, <1>4, <1>5, Zenon DEF TypeOK, Places
<1>8. pc'[p] = "scan" /\ \A q \in Procs \ {p} : pc'[q] = pc[q]
  BY <1>1, <1>2, <1>5, Zenon DEF TypeOK
<1>9. LocalShape(p)'
  <2>1. PrivateOf(p)'
    BY Zenon, <1>8, SharedPlace
  <2> QED
    BY Zenon, <1>1, <1>2, <1>5, <1>8, <2>1, LanesAssumption DEF LocalShape, ShapeOf, Unreffing
<1>10. Others(p)
  BY Zenon, <1>5, <1>8 DEF Others
<1>11. \A e \in Entries : /\ Weight(held'[p], obj'[p], pc'[p], ret'[p], e)
                               = Weight(held[p], obj[p], pc[p], ret[p], e)
                          /\ WillWipe(p, e) => WillWipe(p, e)'
  BY Zenon, <1>2, <1>5, NoEntryAssumption DEF Weight, WillWipe
<1>12. FlagKept(p)
  BY Zenon, <1>1, <1>2, <1>5 DEF FlagKept, Guards, Unreffing
<1> QED
  BY Zenon, <1>1, <1>5, <1>6, <1>7, <1>9, <1>10, <1>11, <1>12, QuietStep

(* The lane is done. *)
LEMMA LaneEndStep ==
    ASSUME Counting, LruInv, LaneEnd
    PROVE  Kept
<1> DEFINE p == LruThread
<1>1. p \in Procs /\ p \notin Threads /\ pc[p] = "scan"
  BY Zenon, ThreadIsProc, ThreadsAssumption DEF LaneEnd
<1>2. /\ TypeOK /\ ShapeOf(p) /\ held[p] = NoEntry /\ obj[p] = NoEntry
      /\ ret[p] = "scan"
  BY Zenon, <1>1, ThreadState DEF ShapeOf, Unreffing
<1>3. /\ UNCHANGED <<alive, refcnt, qid, key, inavl, cleaned, no_cleanup, queue, table>>
      /\ workdone' = 0 /\ want' = want /\ held' = held /\ obj' = obj
      /\ tries' = tries /\ ret' = ret
      /\ scanned' = NoLane /\ glistn' = NoEntry /\ pc' = [pc EXCEPT ![p] = "idle"]
  BY Zenon DEF LaneEnd, Goto, fields
<1>4. IteratorSafe'
  BY Zenon, <1>3 DEF IteratorSafe
<1>5. TypeOK'
  BY Zenon, <1>2, <1>3 DEF TypeOK, Places
<1>6. pc'[p] = "idle" /\ \A q \in Procs \ {p} : pc'[q] = pc[q]
  BY <1>1, <1>2, <1>3, Zenon DEF TypeOK
<1>7. LocalShape(p)'
  <2>1. PrivateOf(p)'
    BY Zenon, <1>6, SharedPlace
  <2> QED
    BY Zenon, <1>1, <1>2, <1>3, <1>6, <2>1 DEF LocalShape, ShapeOf, Unreffing
<1>8. Others(p)
  BY Zenon, <1>3, <1>6 DEF Others
<1>9. \A e \in Entries : /\ Weight(held'[p], obj'[p], pc'[p], ret'[p], e)
                              = Weight(held[p], obj[p], pc[p], ret[p], e)
                         /\ WillWipe(p, e) => WillWipe(p, e)'
  BY Zenon, <1>2, <1>3, NoEntryAssumption DEF Weight, WillWipe
<1>10. FlagKept(p)
  BY Zenon, <1>1, <1>3 DEF FlagKept, Guards, Unreffing
<1> QED
  BY Zenon, <1>1, <1>3, <1>4, <1>5, <1>7, <1>8, <1>9, <1>10, QuietStep

(* The iterator moves on past an entry. *)
LEMMA LaneSkipStep ==
    ASSUME Counting, LruInv, LaneSkip
    PROVE  Kept
<1> DEFINE p == LruThread
<1>1. p \in Procs /\ p \notin Threads /\ pc[p] = "scan"
  BY Zenon, ThreadIsProc, ThreadsAssumption DEF LaneSkip
<1>2. /\ TypeOK /\ OnItsQueue /\ ShapeOf(p) /\ held[p] = NoEntry /\ obj[p] = NoEntry
      /\ ret[p] = "scan" /\ scanned # NoLane
  BY Zenon, <1>1, ThreadState DEF ShapeOf, Unreffing, LruInv
<1>3. PICK x \in Entries : x = glistn
  BY Zenon, <1>2 DEF LaneSkip, TypeOK
<1>4. qid[x] = "L1" /\ LaneOf[x] = scanned
  BY Zenon, <1>2, <1>3, NoEntryAssumption DEF LruInv, IteratorSafe
<1>5. PICK f : f = Following(queue[<<LaneOf[x], "L1">>], x)
  BY Zenon
<1>6. f # NoEntry => f \in Entries \ {x} /\ qid[f] = "L1" /\ LaneOf[f] = LaneOf[x]
  BY Zenon, <1>2, <1>4, <1>5, FollowingOnL1
<1>7. /\ UNCHANGED <<alive, refcnt, qid, key, inavl, cleaned, no_cleanup, queue, table>>
      /\ workdone' = workdone /\ want' = want /\ held' = held /\ obj' = obj
      /\ tries' = tries /\ ret' = ret
      /\ scanned' = scanned /\ glistn' = f /\ pc' = pc
  BY Zenon, <1>3, <1>4, <1>5 DEF LaneSkip, fields, iterator
<1>8. IteratorSafe'
  BY Zenon, <1>4, <1>6, <1>7 DEF IteratorSafe
<1>9. TypeOK'
  <2>1. f \in Entries \cup {NoEntry}
    BY Zenon, <1>6
  <2> QED
    BY Zenon, <1>2, <1>7, <2>1 DEF TypeOK, Places
<1>10. LocalShape(p)'
  <2>1. PrivateOf(p)'
    BY Zenon, <1>1, <1>7, SharedPlace
  <2> QED
    BY Zenon, <1>1, <1>2, <1>7, <2>1 DEF LocalShape, ShapeOf, Unreffing
<1>11. Others(p)
  BY Zenon, <1>7 DEF Others
<1>12. \A e \in Entries : /\ Weight(held'[p], obj'[p], pc'[p], ret'[p], e)
                               = Weight(held[p], obj[p], pc[p], ret[p], e)
                          /\ WillWipe(p, e) => WillWipe(p, e)'
  BY Zenon, <1>2, <1>7, NoEntryAssumption DEF WillWipe
<1>13. FlagKept(p)
  BY Zenon, <1>1, <1>7 DEF FlagKept, Guards, Unreffing
<1> QED
  BY Zenon, <1>1, <1>7, <1>8, <1>9, <1>10, <1>11, <1>12, <1>13, QuietStep

(* The iterator moves on before the entry is demoted to L2. *)
LEMMA LaneStepStep ==
    ASSUME Counting, LruInv, LaneStep
    PROVE  Kept
<1>1. PICK p \in Procs : p = LruThread
  BY Zenon, ThreadIsProc
<1>2. p \notin Threads /\ pc[p] = "scan"
  BY Zenon, <1>1, ThreadsAssumption DEF LaneStep
<1>3. /\ TypeOK /\ OnItsQueue /\ ShapeOf(p) /\ held[p] = NoEntry /\ obj[p] = NoEntry
      /\ ret[p] = "scan" /\ scanned # NoLane
      /\ alive \subseteq Entries /\ NoEntry \notin alive
  BY Zenon, <1>1, <1>2, ThreadState DEF ShapeOf, Unreffing, LruInv
<1>4. PICK x \in Entries : x = glistn
  BY Zenon, <1>3 DEF LaneStep, TypeOK
<1>5. qid[x] = "L1" /\ LaneOf[x] = scanned
  BY Zenon, <1>3, <1>4, NoEntryAssumption DEF LruInv, IteratorSafe
<1>6. /\ x \in alive /\ refcnt[x] \in Nat \ {0}
      /\ \A q \in Procs : Exclusive(q) => obj[q] # x
      /\ inavl[x] \/ \E r \in Threads : pc[r] = "push" /\ held[r] = x
  BY Zenon, <1>5, QueuedShared DEF LruInv, QueuedOwned
<1>7. PICK f : f = Following(queue[<<LaneOf[x], "L1">>], x)
  BY Zenon
<1>8. f # NoEntry => f \in Entries \ {x} /\ qid[f] = "L1" /\ LaneOf[f] = LaneOf[x]
  BY Zenon, <1>3, <1>5, <1>7, FollowingOnL1
<1>9. /\ refcnt' = [refcnt EXCEPT ![x] = @ + 1]
      /\ alive' = alive /\ key' = key /\ inavl' = inavl /\ cleaned' = cleaned /\ no_cleanup' = no_cleanup
      /\ table' = table /\ scanned' = scanned /\ workdone' = workdone + 1
      /\ want' = want /\ held' = held /\ tries' = tries /\ ret' = ret
      /\ obj' = [obj EXCEPT ![p] = x] /\ pc' = [pc EXCEPT ![p] = "unref"]
      /\ glistn' = f
  BY Zenon, <1>1, <1>4, <1>5, <1>7 DEF LaneStep, IncRef, Goto, fields
<1>10. /\ queue' \in [Lanes \X QueueId -> Seq(Entries)] /\ OnItsQueue'
       /\ qid' \in [Entries -> QueueId \cup {"none"}]
       /\ qid'[x] \in {"L1", "L2"} /\ \A e \in Entries \ {x} : qid'[e] = qid[e]
  <2>1. CASE queue' = queue /\ qid' = qid
    <3>1. OnItsQueue'
      BY Zenon, <1>3, <2>1, QueuesSame
    <3> QED
      BY ZenonT(30), <1>3, <1>5, <2>1, <3>1 DEF TypeOK
  <2>2. CASE /\ queue' = [Dequeued(x) EXCEPT ![<<LaneOf[x], "L2">>] = Append(@, x)]
             /\ qid' = [qid EXCEPT ![x] = "L2"]
    <3>1. "L2" \in QueueId
      BY Zenon DEF QueueId
    <3>2. queue' \in [Lanes \X QueueId -> Seq(Entries)] /\ OnItsQueue'
      BY <1>3, <2>2, <3>1, EnqueuedLists, Zenon
    <3> QED
      BY Zenon, <1>3, <2>2, <3>1, <3>2 DEF TypeOK
  <2> QED
    BY Zenon, <1>4, <1>5, <2>1, <2>2 DEF LaneStep
<1>11. IteratorSafe'
  BY Zenon, <1>5, <1>8, <1>9, <1>10 DEF IteratorSafe
<1>12. TypeOK' /\ Hashed'
  <2>1. refcnt[x] + 1 \in Nat /\ workdone + 1 \in Nat /\ f \in Entries \cup {NoEntry}
    BY <1>3, <1>6, <1>8 DEF TypeOK
  <2> QED
    BY <1>3, <1>9, <1>10, <2>1, HashedKept, Zenon DEF TypeOK, Places
<1>13. /\ pc'[p] = "unref" /\ obj'[p] = x
       /\ \A q \in Procs \ {p} : pc'[q] = pc[q] /\ obj'[q] = obj[q]
       /\ refcnt'[x] = refcnt[x] + 1 /\ \A e \in Entries \ {x} : refcnt'[e] = refcnt[e]
  BY <1>3, <1>9, Zenon DEF TypeOK
<1>14. Touches(p, x)
  <2>1. \A q \in Procs \ {p} : ~(pc[q] = "insert" /\ obj[q] = x)
    BY Zenon, <1>5 DEF LruInv, Private, PrivateOf, InsertingOf
  <2> QED
    BY Zenon, <1>3, <1>6, <1>9, <1>10, <1>13, <2>1 DEF Touches, Others
<1>15. LocalShape(p)'
  <2>1. PrivateOf(p)'
    BY Zenon, <1>3, <1>9, <1>13, SharedPlace
  <2> QED
    BY Zenon, <1>1, <1>2, <1>3, <1>6, <1>9, <1>13, <2>1 DEF LocalShape, ShapeOf, Unreffing
<1>16. LocalEntry(x)'
  <2>1. refcnt'[x] # 0
    BY <1>6, <1>13
  <2> QED
    BY Zenon, <1>2, <1>6, <1>9, <1>10, <1>13, <2>1, ThreadIsProc DEF LocalEntry
<1>17. LocalCount(p, x)
  <2>1. \A e : /\ Share(p, e)' = Weight(NoEntry, x, "unref", "scan", e)
               /\ Share(p, e) = Weight(NoEntry, NoEntry, "scan", "scan", e)
    BY Zenon, <1>2, <1>3, <1>9, <1>13, ShareWeight
  <2>2. /\ Share(p, x)' = 1 /\ Share(p, x) = 0
        /\ \A e \in Entries \ {x} : Share(p, e)' = Share(p, e)
    BY <2>1, NoEntryAssumption DEF Weight
  <2>3. refcnt[x] = Sentinel(x) + Rest(p, x) + Share(p, x) /\ Rest(p, x) \in Nat
    BY <1>6, CountApart, ShareWeight, Zenon
  <2> QED
    BY Zenon, <1>6, <1>9, <1>13, <2>2, <2>3, CountUp
<1>18. LocalProgress(p, x)
  BY Zenon, <1>2, <1>3, <1>9, NoEntryAssumption DEF LocalProgress, FlagKept, Guards, WillWipe, Unreffing
<1> QED
  BY <1>10, <1>11, <1>12, <1>14, <1>15, <1>16, <1>17, <1>18, LocalStep, Zenon DEF Kept

-----------------------------------------------------------------------------
(* The invariant is inductive. *)

(* The cache starts empty, and the threads idle. *)
LEMMA LruInit == Init => LruInv
<1> SUFFICES ASSUME Init
             PROVE  LruInv
  BY Zenon
<1>1. alive = {} /\ cleaned = {} /\ no_cleanup = {} /\ scanned = NoLane /\ glistn = NoEntry /\ workdone = 0
  BY Zenon DEF Init
<1>2. /\ \A e \in Entries : refcnt[e] = 0 /\ qid[e] = "none" /\ key[e] = NoKey /\ ~inavl[e]
      /\ \A k \in Keys : table[k] = NoEntry
      /\ \A p \in Procs : pc[p] = "idle" /\ held[p] = NoEntry /\ obj[p] = NoEntry
      /\ \A p \in Procs : ret[p] = IF p = LruThread THEN "scan" ELSE "idle"
      /\ \A l \in Lanes, id \in QueueId : queue[<<l, id>>] = <<>>
  BY Zenon DEF Init
<1>3. TypeOK
  <2>1. queue \in [Lanes \X QueueId -> Seq(Entries)]
    BY DEF Init
  <2>2. /\ refcnt \in [Entries -> Nat] /\ qid \in [Entries -> QueueId \cup {"none"}]
        /\ key \in [Entries -> Keys \cup {NoKey}] /\ inavl \in [Entries -> BOOLEAN]
        /\ table \in [Keys -> Entries \cup {NoEntry}]
    BY Zenon DEF Init
  <2>3. /\ pc \in [Procs -> Places] /\ want \in [Threads -> Keys \cup {NoKey}]
        /\ held \in [Procs -> Entries \cup {NoEntry}]
        /\ obj \in [Procs -> Entries \cup {NoEntry}]
        /\ tries \in [Threads -> Nat]
        /\ ret \in [Procs -> {"idle", "again", "hold", "unguard", "reap", "scan"}]
    BY Zenon DEF Init, Places
  <2> QED
    BY Zenon, <1>1, <2>1, <2>2, <2>3 DEF TypeOK
<1>4. Shape
  BY Zenon, <1>1, <1>2, ThreadIsProc DEF Shape, ShapeOf, WantOf, Unreffing, Looking
<1>5. Allocated /\ Hashed /\ CountsExact /\ QueuedOwned /\ ToWipe /\ Flagged /\ Freeing /\ IteratorSafe
  BY Zenon, <1>1, <1>2 DEF Allocated, Hashed, CountsExact, QueuedOwned, ToWipe, Flagged, Freeing, IteratorSafe
<1>6. Private
  BY Zenon, <1>2 DEF Private, PrivateOf, SecludedOf, EvictingOf, InsertingOf, DyingOf, PushingOf,
              Making, Unreffing
<1>7. OnItsQueue
  <2>1. \A i : i \notin 1 .. Len(<<>>)
    OBVIOUS
  <2> QED
    BY Zenon, <1>2, <2>1 DEF OnItsQueue, QueueId
<1> QED
  BY Zenon, <1>3, <1>4, <1>5, <1>6, <1>7 DEF LruInv

(* A step that changes nothing keeps the invariant. *)
LEMMA LruStutter ==
    ASSUME Counting, LruInv, UNCHANGED vars
    PROVE  Kept
<1>1. /\ alive' = alive /\ refcnt' = refcnt /\ qid' = qid /\ key' = key /\ inavl' = inavl
      /\ cleaned' = cleaned /\ no_cleanup' = no_cleanup /\ queue' = queue /\ table' = table /\ scanned' = scanned
      /\ glistn' = glistn /\ workdone' = workdone /\ pc' = pc /\ want' = want
      /\ held' = held /\ obj' = obj /\ tries' = tries /\ ret' = ret
  BY Zenon DEF vars
<1>2. TypeOK'
  BY Zenon, <1>1 DEF LruInv, TypeOK
<1>3. Shape'
  BY Zenon, <1>1 DEF LruInv, Shape, ShapeOf, WantOf
<1>4. Allocated' /\ Hashed' /\ QueuedOwned' /\ Freeing' /\ OnItsQueue' /\ IteratorSafe'
  <2>1. Allocated' /\ Hashed' /\ QueuedOwned' /\ Freeing'
    BY Zenon, <1>1 DEF LruInv, Allocated, Hashed, QueuedOwned, Freeing
  <2>2. OnItsQueue' /\ IteratorSafe'
    BY Zenon, <1>1, QueuesKept DEF LruInv
  <2> QED
    BY Zenon, <2>1, <2>2
<1>5. CountsExact'
  BY Zenon, <1>1 DEF LruInv, CountsExact, Sentinel, Refs, Holders, Workers, Makers
<1>6. Private'
  BY ZenonT(30), <1>1 DEF LruInv, Private, PrivateOf, SecludedOf, EvictingOf, InsertingOf, DyingOf, PushingOf,
              Making, Alone
<1>7. ToWipe' /\ Flagged'
  <2>1. ToWipe'
    BY Zenon, <1>1 DEF LruInv, ToWipe, WillWipe
  <2>2. Flagged'
    BY Zenon, <1>1 DEF LruInv, Flagged, Guards
  <2> QED
    BY Zenon, <2>1, <2>2
<1> QED
  BY Zenon, <1>1, <1>2, <1>3, <1>4, <1>5, <1>6, <1>7 DEF LruInv, Kept

(* Whatever a thread does between its first and its last reference. *)
LEMMA WorkStep ==
    ASSUME Counting, LruInv, NEW t \in Threads, Work(t)
    PROVE  Kept
<1>1. tries \in [Threads -> Nat]
  BY Zenon DEF LruInv, TypeOK
<1>2. ASSUME NEW e \in Entries, GetBelowMark(t, e)
      PROVE  Kept
  BY Zenon, <1>1, <1>2, AllocStep DEF GetBelowMark
<1>3. ASSUME NEW e \in Entries, ReapFails(t, e)
      PROVE  Kept
  <2>1. tries' \in [Threads -> Nat]
    BY Zenon, <1>1, <1>3 DEF ReapFails
  <2> QED
    BY Zenon, <1>3, <2>1, AllocStep DEF ReapFails
<1> QED
  BY <1>2, <1>3, AdjustStep, AdjustRacedStep, PutAgainStep, SeekStep, ReapPeekStep,
     ReapLatchedStep, ReapRefusedStep, ReclaimStep, RecycleStep, HashStep, LoseRaceStep,
     LruInsertStep, CleanupPushStep, UnguardStep, PutStep, Zenon DEF Work

(* Every step keeps the invariant. *)
LEMMA LruNext ==
    ASSUME Counting, LruInv, [Next]_vars
    PROVE  Kept
<1>1. ASSUME NEW p \in Procs, Unref(p)
      PROVE  Kept
  BY <1>1, UnrefCheckStep, UnrefWipeStep, UnrefDecStep, UnrefZeroStep, FreeStep, Zenon DEF Unref
<1> QED
  BY <1>1, FindStep, WorkStep, KillStep, GuardStep, LaneStartStep, LaneEndStep, LaneStepStep,
     LaneSkipStep, LruStutter, Zenon DEF Next

-----------------------------------------------------------------------------
(* The references are counted in finite sets. *)

FS == INSTANCE FiniteSetTheorems

LEMMA SameSets ==
    ASSUME NEW S
    PROVE  (FS!IsFiniteSet(S) <=> IsFiniteSet(S)) /\ FS!Cardinality(S) = Cardinality(S)
  BY Zenon DEF IsFiniteSet, FS!IsFiniteSet, Cardinality, FS!Cardinality

(* There are finitely many threads. *)
LEMMA ProcsFinite == FS!IsFiniteSet(Procs)
  BY Zenon, ThreadsAssumption, SameSets, FS!FS_AddElement DEF Procs

(* What the counting of references uses of Cardinality. *)
LEMMA LruCounting == Counting
<1>1. Cardinality({}) = 0
  BY Zenon, SameSets, FS!FS_EmptySet
<1>2. ASSUME NEW S \in SUBSET Procs
      PROVE  /\ Cardinality(S) \in Nat
             /\ Cardinality(S) = 0 => S = {}
             /\ \A p : Cardinality(S) = Cardinality(S \ {p}) + One(p, S)
  <2>1. FS!IsFiniteSet(S)
    BY Zenon, ProcsFinite, FS!FS_Subset
  <2>2. Cardinality(S) \in Nat /\ (Cardinality(S) = 0 => S = {})
    BY Zenon, <2>1, SameSets, FS!FS_CardinalityType, FS!FS_EmptySet
  <2>3. ASSUME NEW p
        PROVE  Cardinality(S) = Cardinality(S \ {p}) + One(p, S)
    <3>1. Cardinality(S \ {p}) = IF p \in S THEN Cardinality(S) - 1 ELSE Cardinality(S)
      BY Zenon, <2>1, SameSets, FS!FS_RemoveElement
    <3> QED
      BY <2>2, <3>1 DEF One
  <2> QED
    BY Zenon, <2>2, <2>3
<1> QED
  BY Zenon, <1>1, <1>2 DEF Counting

-----------------------------------------------------------------------------
(* The theorems. *)

(* An entry that nobody owns is one whose counter is zero. *)
UnownedIsZero == \A e \in alive : Unowned(e) <=> refcnt[e] = 0

(* The counter tells whether an entry is owned. *)
LEMMA LruUnowned == LruInv => UnownedIsZero
<1> SUFFICES ASSUME LruInv, NEW e \in alive
             PROVE  Unowned(e) <=> refcnt[e] = 0
  BY Zenon DEF UnownedIsZero
<1>1. ASSUME Unowned(e)
      PROVE  refcnt[e] = 0
  <2>1. ~inavl[e] /\ Holders(e) = {} /\ Workers(e) = {} /\ Makers(e) = {}
    BY Zenon, <1>1 DEF Unowned, Workers, Makers
  <2> QED
    BY <2>1, LruCounting DEF Counting, LruInv, CountsExact, Sentinel, Refs
<1>2. ASSUME refcnt[e] = 0
      PROVE  Unowned(e)
  <2>1. ~inavl[e] /\ \A p \in Procs : p \notin Holders(e) /\ p \notin Workers(e)
    BY Zenon, <1>2, OwnedCounted, LruCounting
  <2> QED
    BY Zenon, <2>1 DEF Unowned, Holders, Workers
<1> QED
  BY Zenon, <1>1, <1>2

(* The number of references is the sum that RefcntExact writes out. *)
LEMMA LruRefcnt == LruInv => RefcntExact
<1> SUFFICES ASSUME LruInv, NEW e \in alive
             PROVE  refcnt[e] = (IF inavl[e] THEN 1 ELSE 0) + Cardinality(Holders(e))
                                    + Cardinality(Workers(e)) + Cardinality(Makers(e))
  BY Zenon DEF RefcntExact
<1>1. /\ Cardinality(Holders(e)) \in Nat /\ Cardinality(Workers(e)) \in Nat
      /\ Cardinality(Makers(e)) \in Nat
  BY Zenon, LruCounting DEF Counting, Holders, Workers, Makers
<1>2. refcnt[e] = Sentinel(e) + (Cardinality(Holders(e)) + Cardinality(Workers(e))
                                     + Cardinality(Makers(e)))
  BY Zenon DEF LruInv, CountsExact, Refs
<1> QED
  BY <1>1, <1>2 DEF Sentinel

(* What leads to an entry leads to one that is allocated. *)
LEMMA LruDangling == LruInv => NoDangling
<1> SUFFICES ASSUME LruInv
             PROVE  NoDangling
  BY Zenon
<1>1. TypeOK /\ OnItsQueue
  BY Zenon DEF LruInv
<1>2. ASSUME NEW q \in Lanes \X QueueId, NEW i \in 1 .. Len(queue[q])
      PROVE  queue[q][i] \in alive
  <2>1. PICK l \in Lanes, id \in QueueId : q = <<l, id>>
    OBVIOUS
  <2>2. PICK s \in Seq(Entries) : s = queue[q]
    BY Zenon, <1>1 DEF TypeOK
  <2>3. s[i] \in Entries /\ On(s[i], s)
    BY <1>2, <2>2 DEF On
  <2>4. qid[s[i]] = id
    BY <1>1, <2>1, <2>2, <2>3, ListsOf
  <2>5. id # "none"
    BY Zenon DEF QueueId
  <2> QED
    BY Zenon, <2>2, <2>3, <2>4, <2>5 DEF LruInv, Allocated
<1>3. ASSUME NEW k \in Keys, table[k] # NoEntry
      PROVE  table[k] \in alive
  BY <1>1, <1>3 DEF LruInv, Hashed, Allocated, TypeOK
<1>4. \A p \in Procs : {held[p], obj[p]} \subseteq alive \cup {NoEntry}
  BY Zenon DEF LruInv, Allocated
<1>5. ASSUME NEW p \in Procs, pc[p] = "free"
      PROVE  qid[obj[p]] = "none" /\ Unowned(obj[p])
  <2>1. refcnt[obj[p]] = 0 /\ qid[obj[p]] = "none"
    BY Zenon, <1>5, ThreadState, LruCounting DEF PrivateOf, DyingOf
  <2>2. obj[p] \in alive
    BY Zenon, <1>5, UnreffingState, LruCounting DEF Unreffing
  <2> QED
    BY Zenon, <2>1, <2>2, LruUnowned DEF UnownedIsZero
<1> QED
  BY Zenon, <1>2, <1>3, <1>4, <1>5 DEF NoDangling

(* Whoever could still wipe an entry has a reference to it. *)
LEMMA LruWiped == LruInv => WipedBeforeFreed
<1> SUFFICES ASSUME LruInv, NEW p \in Procs, pc[p] = "zero", qid[obj[p]] = "cleanup",
                    obj[p] \notin cleaned
             PROVE  FALSE
  BY Zenon DEF WipedBeforeFreed
<1>1. PICK e \in alive : e = obj[p]
  BY Zenon, UnreffingState, LruCounting DEF Unreffing
<1>2. refcnt[e] = 0
  BY Zenon, <1>1, ThreadState, LruCounting DEF PrivateOf, DyingOf
<1>3. PICK q \in Procs : WillWipe(q, e)
  BY Zenon, <1>1 DEF LruInv, ToWipe, TypeOK
<1>4. q \in Holders(e) \/ q \in Workers(e)
  BY Zenon, <1>3 DEF WillWipe, Holders, Workers
<1> QED
  BY Zenon, <1>2, <1>4, OwnedCounted, LruCounting

(* The thread that frees an entry is the only one that has it. *)
LEMMA LruLeak == LruInv => NoLeak
<1> SUFFICES ASSUME LruInv, NEW e \in alive, Unowned(e)
             PROVE  \E p \in Procs : /\ obj[p] = e /\ pc[p] \in {"zero", "free"}
                                     /\ \A r \in Procs \ {p} : obj[r] # e /\ held[r] # e
  BY Zenon DEF NoLeak
<1>1. refcnt[e] = 0
  BY Zenon, LruUnowned DEF UnownedIsZero
<1>2. PICK p \in Procs : obj[p] = e /\ pc[p] \in {"zero", "free"}
  BY Zenon, <1>1 DEF LruInv, Freeing
<1> QED
  BY Zenon, <1>2, ExclusiveAlone, LruCounting DEF Exclusive

(* The inductive invariant holds in every state. *)
THEOREM LruInvariant == Spec => []LruInv
<1>1. LruInv /\ [Next]_vars => LruInv'
  BY Zenon, LruNext, LruCounting DEF Kept
<1> QED
  BY <1>1, LruInit, PTL DEF Spec

(* The entries' fields, the queues and the threads' places have their types, *)
(* with any number of threads and entries.                                   *)
THEOREM LruTypeOK == Spec => []TypeOK
<1>1. LruInv => TypeOK
  BY Zenon DEF LruInv
<1> QED
  BY <1>1, LruInvariant, PTL

(* The counter of an entry is the number of references owned, however       *)
(* lookups, kills, reaps, puts and the LRU thread interleave.               *)
THEOREM LruRefcntExact == Spec => []RefcntExact
  BY LruRefcnt, LruInvariant, PTL

(* No queue, key or thread leads to freed memory, and an entry that is being *)
(* freed is owned by nobody.                                                 *)
THEOREM LruNoDangling == Spec => []NoDangling
  BY LruDangling, LruInvariant, PTL

(* An entry is on the one list that its qid names, once, whichever of the   *)
(* reaper, the LRU thread, a lookup, a kill and a free moves it.            *)
THEOREM LruOnItsQueue == Spec => []OnItsQueue
<1>1. LruInv => OnItsQueue
  BY Zenon DEF LruInv
<1> QED
  BY <1>1, LruInvariant, PTL

(* The iterator of lru_run_lane stays on the list that it follows while the *)
(* lane lock is released.                                                   *)
THEOREM LruIteratorSafe == Spec => []IteratorSafe
<1>1. LruInv => IteratorSafe
  BY Zenon DEF LruInv
<1> QED
  BY <1>1, LruInvariant, PTL

(* A killed entry has been wiped when its last reference is gone. *)
THEOREM LruWipedBeforeFreed == Spec => []WipedBeforeFreed
  BY LruWiped, LruInvariant, PTL

(* An entry that nobody owns is about to be freed, by exactly one thread. *)
THEOREM LruNoLeak == Spec => []NoLeak
  BY LruLeak, LruInvariant, PTL

(* No step references an entry that nobody owns. *)
THEOREM LruNoResurrection == Spec => NoResurrection
<1> DEFINE Step == \A e \in alive \cap alive' : Unowned(e) => Unowned(e)'
           Quiet == \A e \in alive : refcnt[e] = 0 => refcnt'[e] = 0
<1>1. LruInv /\ [Next]_vars => LruInv' /\ Quiet
  BY Zenon, LruNext, LruCounting DEF Kept
<1>2. UnownedIsZero /\ UnownedIsZero' /\ Quiet => Step
  BY Zenon DEF UnownedIsZero
<1>3. Spec => [][Step]_vars
  <2> HIDE DEF Step, Quiet
  <2> QED
    BY <1>1, <1>2, LruUnowned, LruInvariant, PTL DEF Spec
<1> QED
  BY Zenon, <1>3 DEF NoResurrection

=============================================================================
