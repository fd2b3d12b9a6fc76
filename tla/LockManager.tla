---------------------------- MODULE LockManager -----------------------------
(***************************************************************************)
(* The path lock manager of the transaction library (txn/lock_manager.cpp).*)
(* A compound locks all its paths with one call; the manager keeps, for    *)
(* every locked path, a write flag and a reference count.                  *)
(*                                                                         *)
(* `paths' is LockManager::paths, the table guarded by paths_mutex: every  *)
(* critical section of that mutex is one step here.  `request[c]' is the   *)
(* cleaned request of thread c (clean_lock_requests); its domain is the    *)
(* list of paths of the LockHandle while c holds one.  `pc[c]' says where  *)
(* the thread is: outside, spinning in LockManager::lock, holding a handle *)
(* or back from a call that returned nullptr.                              *)
(***************************************************************************)
EXTENDS Naturals, Sequences, FiniteSets

CONSTANTS
    Client,      \* the threads that execute compounds
    Path,        \* normalised paths
    RawPath,     \* path spellings that callers pass
    Normalize,   \* tc_path_normalize: a spelling's path, or BadPath
    BadPath,     \* what Normalize gives for a path it rejects
    Requests     \* the arrays of lock requests that callers pass

ASSUME ClientAssumption == IsFiniteSet(Client)
ASSUME BadPathAssumption == BadPath \notin Path
ASSUME NormalizeAssumption == Normalize \in [RawPath -> Path \cup {BadPath}]
ASSUME RequestsAssumption ==
    Requests \subseteq Seq([path : RawPath, write_lock : BOOLEAN])

VARIABLES paths, request, pc

vars == <<paths, request, pc>>

(* The cleaned requests: a set of paths with a write flag for each. *)
CleanRequest == UNION {[S -> BOOLEAN] : S \in SUBSET Path}

LockRefCount == [write_lock : BOOLEAN, refcount : Nat]

NoRequest == [p \in {} |-> FALSE]

(* Cleaning fails when some path of the array cannot be normalised. *)
CanClean(files) ==
    \A i \in DOMAIN files : Normalize[files[i].path] # BadPath

(* One entry per normalised path; a write request for a path supersedes    *)
(* the read requests for it, in whatever order they are given.             *)
clean_paths(files) ==
    LET clean(i) == Normalize[files[i].path]
    IN  [p \in {clean(i) : i \in DOMAIN files} |->
            \E i \in DOMAIN files : clean(i) = p /\ files[i].write_lock]

(* Fault: the mode that is asked for is ignored. *)
could_lockAnyMode(p, write_lock) ==
    p \in DOMAIN paths => ~paths[p].write_lock

could_lock(p, write_lock) ==
    p \in DOMAIN paths => ~write_lock /\ ~paths[p].write_lock

(* Fault: `ready' is overwritten instead of accumulated over the paths. *)
ReadyOnePath(r) == DOMAIN r = {} \/ \E p \in DOMAIN r : could_lock(p, r[p])

Ready(r) == \A p \in DOMAIN r : could_lock(p, r[p])

(* The table after the request r has been added to it. *)
AddLocks(r) ==
    [p \in DOMAIN paths \cup DOMAIN r |->
        IF p \notin DOMAIN paths THEN [write_lock |-> r[p], refcount |-> 1]
        ELSE IF p \in DOMAIN r THEN [paths[p] EXCEPT !.refcount = @ + 1]
        ELSE paths[p]]

(* Fault: the first reader that leaves erases the entry. *)
DropLocksOfAll(files) == [p \in DOMAIN paths \ files |-> paths[p]]

(* Fault: an entry whose count reaches zero is not erased. *)
DropLocksKeepsEntry(files) ==
    [p \in DOMAIN paths |->
        IF p \in files THEN [paths[p] EXCEPT !.refcount = @ - 1]
        ELSE paths[p]]

(* The table after the paths in `files' have been unlocked: an entry whose *)
(* count reaches zero is erased; a path without an entry is ignored.       *)
DropLocks(files) ==
    [p \in {q \in DOMAIN paths : q \in files => paths[q].refcount # 1} |->
        IF p \in files THEN [paths[p] EXCEPT !.refcount = @ - 1]
        ELSE paths[p]]

-----------------------------------------------------------------------------
Init ==
    /\ paths = [p \in {} |-> [write_lock |-> FALSE, refcount |-> 1]]
    /\ request = [c \in Client |-> NoRequest]
    /\ pc = [c \in Client |-> "outside"]

Outside(c) == pc[c] \in {"outside", "refused"}

(* lm_lock or lm_try_lock with a path that cannot be cleaned: nullptr. *)
RejectRequest(c, files) ==
    /\ Outside(c)
    /\ ~CanClean(files)
    /\ pc' = [pc EXCEPT ![c] = "refused"]
    /\ UNCHANGED <<paths, request>>

(* lm_lock: the request is cleaned, then the thread spins. *)
lock(c, files) ==
    /\ Outside(c)
    /\ CanClean(files)
    /\ request' = [request EXCEPT ![c] = clean_paths(files)]
    /\ pc' = [pc EXCEPT ![c] = "spinning"]
    /\ UNCHANGED paths

(* An iteration of the spin loop that succeeds: all the paths of the       *)
(* request are taken in one critical section.  An iteration that finds a   *)
(* conflict changes nothing.                                               *)
try_lock_clean_paths(c) ==
    /\ pc[c] = "spinning"
    /\ Ready(request[c])
    /\ paths' = AddLocks(request[c])
    /\ pc' = [pc EXCEPT ![c] = "holding"]
    /\ UNCHANGED request

(* lm_try_lock: one attempt; nullptr if there is a conflict. *)
try_lock(c, files) ==
    /\ Outside(c)
    /\ CanClean(files)
    /\ \/ /\ Ready(clean_paths(files))
          /\ request' = [request EXCEPT ![c] = clean_paths(files)]
          /\ paths' = AddLocks(clean_paths(files))
          /\ pc' = [pc EXCEPT ![c] = "holding"]
       \/ /\ ~Ready(clean_paths(files))
          /\ pc' = [pc EXCEPT ![c] = "refused"]
          /\ UNCHANGED <<paths, request>>

(* unlock_handle: LockHandle::unlock, then the handle is deleted. *)
unlock(c) ==
    /\ pc[c] = "holding"
    /\ paths' = DropLocks(DOMAIN request[c])
    /\ request' = [request EXCEPT ![c] = NoRequest]
    /\ pc' = [pc EXCEPT ![c] = "outside"]

Next ==
    \E c \in Client :
        \/ try_lock_clean_paths(c)
        \/ unlock(c)
        \/ \E files \in Requests :
              RejectRequest(c, files) \/ lock(c, files) \/ try_lock(c, files)

Spec == Init /\ [][Next]_vars

(* A spinning thread keeps trying and a holder finishes its compound; no   *)
(* thread has to make a new request.                                       *)
Fairness ==
    \A c \in Client : WF_vars(try_lock_clean_paths(c)) /\ WF_vars(unlock(c))

FairSpec == Spec /\ Fairness

-----------------------------------------------------------------------------
(* The type invariant: in particular the table has normalised paths only   *)
(* (clean_paths).                                                          *)
TypeOK ==
    /\ DOMAIN paths \subseteq Path
    /\ paths \in [DOMAIN paths -> LockRefCount]
    /\ request \in [Client -> CleanRequest]
    /\ pc \in [Client -> {"outside", "spinning", "holding", "refused"}]

Holders(p) == {c \in Client : pc[c] = "holding" /\ p \in DOMAIN request[c]}

(* Two threads never hold the same path when one of them holds it for      *)
(* writing (the purpose of try_lock_clean_paths and could_lock).           *)
Exclusion ==
    \A c, d \in Client : \A p \in Path :
        /\ c # d
        /\ c \in Holders(p)
        /\ d \in Holders(p)
        => ~request[c][p] /\ ~request[d][p]

(* The table says exactly what the handles in existence hold: a path has   *)
(* an entry if and only if somebody holds it, its count is the number of   *)
(* its holders, and its flag is the mode they hold it in.  So unlock never *)
(* misses an entry ("failed to unlock"), never erases one that is still    *)
(* in use, and no entry outlives its holders.                              *)
TableMatchesHandles ==
    \A p \in Path :
        /\ p \in DOMAIN paths <=> Holders(p) # {}
        /\ p \in DOMAIN paths =>
              /\ paths[p].refcount = Cardinality(Holders(p))
              /\ \A c \in Holders(p) : request[c][p] = paths[p].write_lock

Acquisition == \E c \in Client : pc[c] # "holding" /\ pc'[c] = "holding"

(* The all-or-nothing acquisition cannot deadlock: as long as some thread  *)
(* spins in LockManager::lock, handles keep being granted.  (Which thread  *)
(* gets one is up to the scheduler: a spinning thread may be overtaken     *)
(* for ever.)                                                              *)
SpinnersMakeProgress ==
    []<>(\A c \in Client : pc[c] # "spinning") \/ []<><<Acquisition>>_vars

heldByClient ==
    [c \in Client |-> IF pc[c] = "holding" THEN request[c] ELSE NoRequest]
Abstract == INSTANCE ReadersWriters WITH held <- heldByClient

(* The manager implements the abstract readers-writers lock: lock and      *)
(* try_lock take all of their paths at once, and only compatible ones.     *)
ImplementsReadersWriters == Abstract!Spec
=============================================================================
