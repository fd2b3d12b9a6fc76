------------------------- MODULE LockManagerProofs --------------------------
(***************************************************************************)
(* Proofs about LockManager, for any set of threads, paths and requests.   *)
(*                                                                         *)
(* Exclusion is not inductive: could_lock consults the table only, so one  *)
(* also needs that the table matches the handles.  The inductive invariant *)
(* is the conjunction of the two and of type correctness.                  *)
(***************************************************************************)
EXTENDS LockManager, FiniteSetTheorems, TLAPS

LockInv == TypeOK /\ TableMatchesHandles /\ Exclusion

(* The elements of a sequence over S are in S. *)
LEMMA SeqElement ==
    ASSUME NEW S, NEW s \in Seq(S), NEW i \in DOMAIN s
    PROVE  s[i] \in S
  OBVIOUS

(* Cleaning an acceptable array gives a well-formed cleaned request. *)
LEMMA CleanRequestType ==
    ASSUME NEW files \in Requests, CanClean(files)
    PROVE  clean_paths(files) \in CleanRequest
<1> DEFINE clean(i) == Normalize[files[i].path]
           D == {clean(i) : i \in DOMAIN files}
<1>1. files \in Seq([path : RawPath, write_lock : BOOLEAN])
  BY Zenon, RequestsAssumption
<1>2. \A i \in DOMAIN files : files[i] \in [path : RawPath, write_lock : BOOLEAN]
  BY Zenon, <1>1, SeqElement
<1>3. \A i \in DOMAIN files : clean(i) \in Path
  BY <1>2, NormalizeAssumption DEF CanClean
<1>4. D \in SUBSET Path
  BY <1>3
<1>5. clean_paths(files) \in [D -> BOOLEAN]
  BY DEF clean_paths
<1> QED
  BY Zenon, <1>4, <1>5 DEF CleanRequest

(* The holders of a path are finitely many. *)
LEMMA HoldersFinite == \A p : IsFiniteSet(Holders(p))
<1> TAKE p
<1>1. Holders(p) \in SUBSET Client
  BY DEF Holders
<1> QED
  BY <1>1, ClientAssumption, FS_Subset

(* Taking a request that is ready preserves the invariant: the critical    *)
(* section of try_lock_clean_paths.                                        *)
LEMMA AcquirePreserves ==
    ASSUME LockInv, NEW c \in Client, NEW r \in CleanRequest,
           pc[c] # "holding", Ready(r),
           paths' = AddLocks(r),
           request' = [request EXCEPT ![c] = r],
           pc' = [pc EXCEPT ![c] = "holding"]
    PROVE  LockInv'
<1> USE DEF LockInv
<1>0. DOMAIN r \subseteq Path /\ r \in [DOMAIN r -> BOOLEAN]
  BY DEF CleanRequest
<1>1. TypeOK'
  <2>1. DOMAIN paths' = DOMAIN paths \cup DOMAIN r
    BY DEF AddLocks
  <2>2. \A p \in DOMAIN paths' : paths'[p] \in LockRefCount
    BY <1>0, <2>1 DEF AddLocks, TypeOK, LockRefCount
  <2>3. paths' \in [DOMAIN paths' -> LockRefCount]
    BY Zenon, <2>1, <2>2 DEF AddLocks
  <2> QED
    BY <1>0, <2>1, <2>3 DEF TypeOK
<1>2. \A p : Holders(p)' = IF p \in DOMAIN r THEN Holders(p) \cup {c} ELSE Holders(p)
  BY DEF Holders, TypeOK
<1>3. \A p : c \notin Holders(p)
  BY DEF Holders
<1>4. TableMatchesHandles'
  <2> SUFFICES ASSUME NEW p \in Path
               PROVE  /\ p \in DOMAIN paths' <=> Holders(p)' # {}
                      /\ p \in DOMAIN paths' =>
                            /\ paths'[p].refcount = Cardinality(Holders(p)')
                            /\ \A d \in Holders(p)' : request'[d][p] = paths'[p].write_lock
    BY DEF TableMatchesHandles
  <2>1. CASE p \notin DOMAIN r
    <3>1. Holders(p)' = Holders(p)
      BY <2>1, <1>2
    <3>2. p \in DOMAIN paths' <=> p \in DOMAIN paths
      BY <2>1 DEF AddLocks
    <3>3. p \in DOMAIN paths => paths'[p] = paths[p]
      BY <2>1 DEF AddLocks
    <3>4. \A d \in Holders(p) : request'[d] = request[d]
      BY <1>3 DEF Holders, TypeOK
    <3> QED
      BY <3>1, <3>2, <3>3, <3>4 DEF TableMatchesHandles
  <2>2. CASE p \in DOMAIN r /\ p \in DOMAIN paths
    <3>1. Holders(p)' = Holders(p) \cup {c}
      BY <2>2, <1>2
    <3>2. Cardinality(Holders(p)') = Cardinality(Holders(p)) + 1
      BY <3>1, <1>3, HoldersFinite, FS_AddElement
    <3>3. /\ p \in DOMAIN paths'
          /\ paths'[p] = [paths[p] EXCEPT !.refcount = @ + 1]
      BY <2>2 DEF AddLocks
    <3>4. paths[p] \in LockRefCount
      BY <2>2 DEF TypeOK
    <3>5. paths'[p].refcount = paths[p].refcount + 1 /\ paths'[p].write_lock = paths[p].write_lock
      BY <3>3, <3>4 DEF LockRefCount
    <3>6. ~r[p] /\ ~paths[p].write_lock
      BY <2>2 DEF Ready, could_lock
    <3>7. r[p] = paths[p].write_lock
      BY <3>4, <3>6, <2>2, <1>0 DEF LockRefCount
    <3>8. \A d \in Holders(p)' : request'[d][p] = paths'[p].write_lock
      BY Zenon, <3>1, <3>5, <3>7, <2>2, <1>3 DEF TableMatchesHandles, Holders, TypeOK
    <3> QED
      BY <3>1, <3>2, <3>3, <3>5, <3>8, <2>2 DEF TableMatchesHandles
  <2>3. CASE p \in DOMAIN r /\ p \notin DOMAIN paths
    <3>1. Holders(p) = {}
      BY <2>3 DEF TableMatchesHandles
    <3>2. Holders(p)' = {c}
      BY <2>3, <3>1, <1>2
    <3>3. Cardinality(Holders(p)') = 1
      BY Zenon, <3>2, FS_Singleton
    <3>4. /\ p \in DOMAIN paths'
          /\ paths'[p] = [write_lock |-> r[p], refcount |-> 1]
      BY <2>3 DEF AddLocks
    <3>5. request'[c] = r
      BY DEF TypeOK
    <3> QED
      BY <3>2, <3>3, <3>4, <3>5
  <2> QED
    BY <2>1, <2>2, <2>3
<1>5. Exclusion'
  <2> SUFFICES ASSUME NEW d \in Client, NEW e \in Client, NEW p \in Path,
                      d # e, d \in Holders(p)', e \in Holders(p)'
               PROVE  ~request'[d][p] /\ ~request'[e][p]
    BY DEF Exclusion
  <2>1. ASSUME NEW x \in Client, x # c, c \in Holders(p)', x \in Holders(p)'
        PROVE  ~request'[x][p] /\ ~request'[c][p]
    <3>1. x \in Holders(p) /\ p \in DOMAIN r
      BY <2>1, <1>2, <1>3
    <3>2. p \in DOMAIN paths
      BY <3>1 DEF TableMatchesHandles
    <3>3. ~r[p] /\ ~paths[p].write_lock
      BY <3>1, <3>2 DEF Ready, could_lock
    <3>4. request[x][p] = paths[p].write_lock
      BY <3>1, <3>2 DEF TableMatchesHandles
    <3> QED
      BY <3>3, <3>4, <2>1 DEF TypeOK
  <2>2. CASE d = c
    BY <2>1, <2>2
  <2>3. CASE e = c
    BY <2>1, <2>3
  <2>4. CASE d # c /\ e # c
    <3>1. d \in Holders(p) /\ e \in Holders(p)
      BY <2>4, <1>2
    <3> QED
      BY <2>4, <3>1 DEF Exclusion, TypeOK
  <2> QED
    BY <2>2, <2>3, <2>4
<1> QED
  BY <1>1, <1>4, <1>5

(* Dropping a handle preserves the invariant: LockManager::unlock. *)
LEMMA UnlockPreserves ==
    ASSUME LockInv, NEW c \in Client, unlock(c)
    PROVE  LockInv'
<1> USE DEF LockInv
<1> DEFINE F == DOMAIN request[c]
<1>0. /\ pc[c] = "holding"
      /\ paths' = DropLocks(F)
      /\ request' = [request EXCEPT ![c] = NoRequest]
      /\ pc' = [pc EXCEPT ![c] = "outside"]
  BY DEF unlock
<1>1. TypeOK'
  <2>1. NoRequest \in CleanRequest
    BY Zenon DEF NoRequest, CleanRequest
  <2>2. DOMAIN paths' \subseteq DOMAIN paths
    BY <1>0 DEF DropLocks
  <2>3. \A p \in DOMAIN paths' : p \in F => p \in Path /\ c \in Holders(p)
    BY <1>0, <2>2 DEF Holders, TypeOK
  <2>4. \A p \in DOMAIN paths' : p \in F => paths[p].refcount # 0
    <3> SUFFICES ASSUME NEW p \in DOMAIN paths', p \in F
                 PROVE  paths[p].refcount # 0
      OBVIOUS
    <3>1. c \in Holders(p) /\ p \in Path /\ p \in DOMAIN paths
      BY <2>2, <2>3
    <3>2. Cardinality(Holders(p)) # 0
      BY <3>1, HoldersFinite, FS_EmptySet
    <3> QED
      BY <3>1, <3>2 DEF TableMatchesHandles
  <2>5. \A p \in DOMAIN paths' : paths'[p] \in LockRefCount
    <3> SUFFICES ASSUME NEW p \in DOMAIN paths'
                 PROVE  paths'[p] \in LockRefCount
      OBVIOUS
    <3>1. paths[p] \in LockRefCount
      BY <2>2 DEF TypeOK
    <3>2. CASE p \in F
      <4>1. paths'[p] = [paths[p] EXCEPT !.refcount = @ - 1]
        BY <1>0, <3>2 DEF DropLocks
      <4>2. paths[p].refcount - 1 \in Nat
        BY <3>1, <3>2, <2>4 DEF LockRefCount
      <4> QED
        BY <3>1, <4>1, <4>2 DEF LockRefCount
    <3>3. CASE p \notin F
      BY <1>0, <3>1, <3>3 DEF DropLocks
    <3> QED
      BY <3>2, <3>3
  <2>6. paths' \in [DOMAIN paths' -> LockRefCount]
    BY <1>0, <2>5 DEF DropLocks
  <2> QED
    BY <1>0, <2>1, <2>2, <2>6 DEF TypeOK
<1>2. \A p : Holders(p)' = Holders(p) \ {c}
  BY <1>0 DEF Holders, TypeOK
<1>3. \A p : c \in Holders(p) <=> p \in F
  BY <1>0 DEF Holders
<1>4. \A d \in Client : d # c => request'[d] = request[d]
  BY <1>0 DEF TypeOK
<1>5. TableMatchesHandles'
  <2> SUFFICES ASSUME NEW p \in Path
               PROVE  /\ p \in DOMAIN paths' <=> Holders(p)' # {}
                      /\ p \in DOMAIN paths' =>
                            /\ paths'[p].refcount = Cardinality(Holders(p)')
                            /\ \A d \in Holders(p)' : request'[d][p] = paths'[p].write_lock
    BY DEF TableMatchesHandles
  <2>0. \A d \in Holders(p)' : d \in Holders(p) /\ request'[d] = request[d]
    BY <1>2, <1>4 DEF Holders
  <2>1. CASE p \notin F
    <3>1. Holders(p)' = Holders(p)
      BY Zenon, <2>1, <1>2, <1>3
    <3>2. p \in DOMAIN paths' <=> p \in DOMAIN paths
      BY <1>0, <2>1 DEF DropLocks
    <3>3. p \in DOMAIN paths => paths'[p] = paths[p]
      BY <1>0, <2>1 DEF DropLocks
    <3> QED
      BY <2>0, <3>1, <3>2, <3>3 DEF TableMatchesHandles
  <2>2. CASE p \in F
    <3>1. c \in Holders(p) /\ p \in DOMAIN paths
      BY <2>2, <1>3 DEF TableMatchesHandles
    <3>2. paths[p].refcount = Cardinality(Holders(p)) /\ paths[p] \in LockRefCount
      BY <3>1 DEF TableMatchesHandles, TypeOK
    <3>3. /\ IsFiniteSet(Holders(p)')
          /\ Cardinality(Holders(p)') = Cardinality(Holders(p)) - 1
      BY <3>1, <1>2, HoldersFinite, FS_RemoveElement
    <3>4. p \in DOMAIN paths' <=> paths[p].refcount # 1
      BY <1>0, <2>2, <3>1 DEF DropLocks
    <3>5. Holders(p)' = {} <=> Cardinality(Holders(p)') = 0
      BY Zenon, <3>3, FS_EmptySet
    <3>6. p \in DOMAIN paths' => paths'[p] = [paths[p] EXCEPT !.refcount = @ - 1]
      BY <1>0, <2>2 DEF DropLocks
    <3>7. p \in DOMAIN paths' => /\ paths'[p].refcount = paths[p].refcount - 1
                                 /\ paths'[p].write_lock = paths[p].write_lock
      BY <3>2, <3>6 DEF LockRefCount
    <3>8. p \in DOMAIN paths' <=> Holders(p)' # {}
      BY <3>2, <3>3, <3>4, <3>5 DEF LockRefCount
    <3>9. p \in DOMAIN paths' => \A d \in Holders(p)' : request'[d][p] = paths'[p].write_lock
      BY <2>0, <3>1, <3>7 DEF TableMatchesHandles
    <3> QED
      BY <3>2, <3>3, <3>7, <3>8, <3>9
  <2> QED
    BY <2>1, <2>2
<1>6. Exclusion'
  BY <1>2, <1>4 DEF Exclusion
<1> QED
  BY <1>1, <1>5, <1>6

(* Every step preserves the invariant. *)
LEMMA NextPreserves == LockInv /\ [Next]_vars => LockInv'
<1> SUFFICES ASSUME LockInv, [Next]_vars
             PROVE  LockInv'
  OBVIOUS
<1>1. ASSUME NEW c \in Client, try_lock_clean_paths(c)
      PROVE  LockInv'
  <2>1. request[c] \in CleanRequest /\ request' = [request EXCEPT ![c] = request[c]]
    BY <1>1 DEF try_lock_clean_paths, LockInv, TypeOK
  <2> QED
    BY Zenon, <1>1, <2>1, AcquirePreserves DEF try_lock_clean_paths
<1>2. ASSUME NEW c \in Client, unlock(c)
      PROVE  LockInv'
  BY <1>2, UnlockPreserves
<1>3. ASSUME NEW c \in Client, UNCHANGED paths, pc[c] # "holding",
             NEW r \in CleanRequest, request' = [request EXCEPT ![c] = r],
             NEW l \in {"spinning", "refused"}, pc' = [pc EXCEPT ![c] = l]
      PROVE  LockInv'
  <2>1. TypeOK'
    BY <1>3 DEF LockInv, TypeOK
  <2>2. \A p : Holders(p)' = Holders(p)
    BY <1>3 DEF Holders, LockInv, TypeOK
  <2>3. \A p : \A d \in Holders(p) : request'[d] = request[d]
    BY <1>3 DEF Holders, LockInv, TypeOK
  <2>4. TableMatchesHandles'
    BY <1>3, <2>2, <2>3 DEF LockInv, TableMatchesHandles
  <2>5. Exclusion'
    BY <2>2, <2>3 DEF LockInv, Exclusion
  <2> QED
    BY <2>1, <2>4, <2>5 DEF LockInv
<1>4. ASSUME NEW c \in Client, NEW files \in Requests, RejectRequest(c, files)
      PROVE  LockInv'
  <2>1. request[c] \in CleanRequest /\ request' = [request EXCEPT ![c] = request[c]]
    BY <1>4 DEF RejectRequest, LockInv, TypeOK
  <2> QED
    BY Zenon, <1>3, <1>4, <2>1 DEF RejectRequest, Outside
<1>5. ASSUME NEW c \in Client, NEW files \in Requests, lock(c, files)
      PROVE  LockInv'
  BY Zenon, <1>3, <1>5, CleanRequestType DEF lock, Outside
<1>6. ASSUME NEW c \in Client, NEW files \in Requests, try_lock(c, files)
      PROVE  LockInv'
  <2>1. CASE Ready(clean_paths(files))
    BY <1>6, <2>1, CleanRequestType, AcquirePreserves DEF try_lock, Outside
  <2>2. CASE ~Ready(clean_paths(files))
    <3>1. request[c] \in CleanRequest /\ request' = [request EXCEPT ![c] = request[c]]
      BY <1>6, <2>2 DEF try_lock, LockInv, TypeOK
    <3> QED
      BY Zenon, <1>3, <1>6, <2>2, <3>1 DEF try_lock, Outside
  <2> QED
    BY <2>1, <2>2
<1>7. CASE UNCHANGED vars
  BY Zenon, <1>7 DEF vars, LockInv, TypeOK, TableMatchesHandles, Exclusion, Holders
<1> QED
  BY <1>1, <1>2, <1>4, <1>5, <1>6, <1>7 DEF Next

(* The invariant holds in the states where nobody has locked anything. *)
LEMMA InitEstablishes == Init => LockInv
<1> SUFFICES ASSUME Init PROVE LockInv
  OBVIOUS
<1>1. NoRequest \in CleanRequest
  BY DEF NoRequest, CleanRequest
<1>2. TypeOK
  BY <1>1 DEF Init, TypeOK
<1>3. \A p : Holders(p) = {}
  BY DEF Holders, Init
<1> QED
  BY <1>2, <1>3 DEF LockInv, TableMatchesHandles, Exclusion, Init

(* In every reachable state the variables have their types, the table      *)
(* matches the handles and the holders of a path exclude each other.       *)
THEOREM LockInvariant == Spec => []LockInv
<1> QED
  BY InitEstablishes, NextPreserves, PTL DEF Spec

(* Two compounds never hold the same path when one holds it for writing:   *)
(* what try_lock_clean_paths guarantees, for any number of threads.        *)
THEOREM LockExclusion == Spec => []Exclusion
<1>1. LockInv => Exclusion
  BY DEF LockInv
<1> QED
  BY <1>1, LockInvariant, PTL

(* The table of reference counts describes exactly the handles that exist: *)
(* unlock always finds the entries it must decrement, and no entry leaks.  *)
THEOREM LockTableExact == Spec => []TableMatchesHandles
<1>1. LockInv => TableMatchesHandles
  BY DEF LockInv
<1> QED
  BY <1>1, LockInvariant, PTL

(* An acquisition is one of the abstract lock. *)
LEMMA AcquireRefines ==
    ASSUME LockInv, NEW c \in Client, NEW r \in CleanRequest,
           pc[c] # "holding", Ready(r),
           request' = [request EXCEPT ![c] = r],
           pc' = [pc EXCEPT ![c] = "holding"]
    PROVE  Abstract!Acquire(c, r)
<1> USE DEF LockInv
<1>1. heldByClient[c] = Abstract!Nothing
  BY DEF heldByClient, NoRequest, Abstract!Nothing
<1>2. ASSUME NEW d \in Client \ {c}
      PROVE  Abstract!Compatible(r, heldByClient[d])
  <2> SUFFICES ASSUME NEW p \in DOMAIN r \cap DOMAIN heldByClient[d]
               PROVE  ~r[p] /\ ~heldByClient[d][p]
    BY DEF Abstract!Compatible
  <2>1. pc[d] = "holding" /\ heldByClient[d] = request[d]
    BY DEF heldByClient, NoRequest
  <2>2. d \in Holders(p) /\ p \in Path
    BY <2>1 DEF Holders, CleanRequest
  <2>3. p \in DOMAIN paths /\ request[d][p] = paths[p].write_lock
    BY <2>2 DEF TableMatchesHandles
  <2> QED
    BY <2>1, <2>3 DEF Ready, could_lock
<1>3. heldByClient' = [heldByClient EXCEPT ![c] = r]
  BY Zenon DEF heldByClient, TypeOK
<1> QED
  BY <1>1, <1>2, <1>3 DEF Abstract!Acquire

(* The table of paths and the requests of the threads are well formed: in  *)
(* particular no entry of the table has a count of zero, which unlock      *)
(* would have had to erase.                                                *)
THEOREM LockTypeCorrect == Spec => []TypeOK
<1>1. LockInv => TypeOK
  BY DEF LockInv
<1> QED
  BY <1>1, LockInvariant, PTL

(* LockManager implements the abstract readers-writers lock.               *)
THEOREM LockRefinement == Spec => ImplementsReadersWriters
<1>1. Init => Abstract!Init
  BY DEF Init, Abstract!Init, heldByClient, NoRequest, Abstract!Nothing
<1>2. LockInv /\ [Next]_vars => [Abstract!Next]_heldByClient
  <2> SUFFICES ASSUME LockInv, [Next]_vars
               PROVE  Abstract!Next \/ UNCHANGED heldByClient
    OBVIOUS
  <2>0. ASSUME NEW c \in Client, NEW r \in CleanRequest, Abstract!Acquire(c, r)
        PROVE  Abstract!Next
    BY <2>0 DEF Abstract!Next, CleanRequest, Abstract!PathModes
  <2>1. ASSUME NEW c \in Client, try_lock_clean_paths(c)
        PROVE  Abstract!Next
    <3>1. request[c] \in CleanRequest /\ request' = [request EXCEPT ![c] = request[c]]
      BY <2>1 DEF try_lock_clean_paths, LockInv, TypeOK
    <3> QED
      BY Zenon, <2>0, <2>1, <3>1, AcquireRefines DEF try_lock_clean_paths
  <2>2. ASSUME NEW c \in Client, unlock(c)
        PROVE  Abstract!Next
    <3>1. heldByClient' = [heldByClient EXCEPT ![c] = Abstract!Nothing]
      BY Zenon, <2>2 DEF unlock, LockInv, TypeOK, heldByClient, NoRequest, Abstract!Nothing
    <3> QED
      BY Zenon, <3>1 DEF Abstract!Next, Abstract!Release
  <2>3. ASSUME NEW c \in Client, NEW files \in Requests,
               RejectRequest(c, files) \/ lock(c, files)
        PROVE  UNCHANGED heldByClient
    BY <2>3 DEF RejectRequest, lock, Outside, LockInv, TypeOK, heldByClient
  <2>4. ASSUME NEW c \in Client, NEW files \in Requests, try_lock(c, files)
        PROVE  Abstract!Next \/ UNCHANGED heldByClient
    <3>1. CASE Ready(clean_paths(files))
      BY <2>0, <2>4, <3>1, CleanRequestType, AcquireRefines DEF try_lock, Outside
    <3>2. CASE ~Ready(clean_paths(files))
      BY <2>4, <3>2 DEF try_lock, Outside, LockInv, TypeOK, heldByClient
    <3> QED
      BY <3>1, <3>2
  <2>5. CASE UNCHANGED vars
    BY <2>5 DEF vars, heldByClient
  <2> QED
    BY <2>1, <2>2, <2>3, <2>4, <2>5 DEF Next
<1> QED
  BY <1>1, <1>2, LockInvariant, PTL DEF Spec, ImplementsReadersWriters, Abstract!Spec
=============================================================================
