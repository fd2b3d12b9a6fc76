------------------------------- MODULE DupReq -------------------------------
(***************************************************************************)
(* The duplicate request cache (RPCAL/nfs_dupreq.c) and the part of a      *)
(* worker's request (MainNFSD/nfs_worker_thread.c) that drives it.  A      *)
(* client address has one DRC, shared by its successive connections; a     *)
(* DRC holds the requests seen on it, in a tree by (xid, checksum) and in  *)
(* a FIFO by arrival.  Both a DRC and an entry are reference counted.      *)
(*                                                                         *)
(* A step is a critical section: of DRC_ST_LOCK (the table of DRCs and the *)
(* recycle queue), of a partition lock (the tree), of drc->mtx (the FIFO,  *)
(* the counts) or of an entry's mutex.  Where the code nests them, the     *)
(* outermost one is the step.                                              *)
(*                                                                         *)
(* `tree' is tcp_drc_recycle_t; a DRC is allocated iff it is in that tree. *)
(* drc->size is Len(fifo[d]).  Only TCP requests that are cacheable come   *)
(* here: the others never touch the cache.                                 *)
(*                                                                         *)
(* Neither nfs_dupreq_delete nor a thread that retires an entry asks       *)
(* whether the other has removed the entry already.  `twice' records that  *)
(* an entry was removed a second time: unlinking an unlinked node may      *)
(* leave anything in the tree or the list, so that behaviours end there.   *)
(***************************************************************************)
EXTENDS Integers, Sequences, FiniteSets, Functions

CONSTANTS
    Threads,      \* worker threads
    Xprts,        \* transports; a slot is reused once its connection is gone
    Addrs,        \* client addresses (with their port)
    Drcs,         \* memory for DRCs
    Entries,      \* memory for dupreq_entry_t
    Requests,     \* requests a client may send, by (xid, checksum)
    Hk,           \* the checksum of a request: its partition
    MaxSize,      \* drc->maxsize   (DRC_TCP_Size)
    Hiwat,        \* drc->hiwat     (DRC_TCP_Hiwat)
    StartBias,    \* RETWND_START_BIAS
    MaxRetries,   \* DUPREQ_MAX_RETRIES
    MaxLeaks      \* bound on the references leaked in one DRC's life

None == "none"

ASSUME DupReqAssumption ==
    /\ IsFiniteSet(Threads) /\ IsFiniteSet(Xprts)
    /\ None \notin Addrs \cup Drcs \cup Entries \cup Xprts \cup Requests
    /\ DOMAIN Hk = Requests
    /\ {MaxSize, Hiwat, StartBias, MaxRetries, MaxLeaks} \subseteq Nat

VARIABLES
    conn,         \* conn[x]: "down", "up", "dying" or "closing"
    addr,         \* addr[x]: the client's address
    u2,           \* u2[x]: xp_u2, the DRC of the transport
    tree,         \* tree[a]: the DRC of an address
    recycleq,     \* tcp_drc_recycle_q
    recycle,      \* recycle[d]: DRC_FLAG_RECYCLE
    drefs,        \* drefs[d]: drc->refcnt
    retwnd,       \* retwnd[d]
    fifo,         \* fifo[d]: dupreq_q
    xt,           \* xt[d][r]: the entry of the tree for request r
    leaked,       \* leaked[d]: call path references that nobody will drop
    erefs,        \* erefs[e]: dv->refcnt
    state,        \* state[e]: dv->state, or "free"
    edrc,         \* edrc[e]: dv->hin.drc
    ereq,         \* ereq[e]: the request of the entry
    pc,           \* where a thread is in its request
    on,           \* on[t]: the transport of the request
    req,          \* req[t]: the request
    dv,           \* dv[t]: rq_u1
    ovhk,         \* ovhk[t]: ov_hk in nfs_dupreq_finish
    cnt,          \* cnt[t]: cnt in nfs_dupreq_finish
    twice         \* an entry has been removed twice

xvars == <<conn, addr, u2>>
dvars == <<tree, recycleq, recycle, drefs, retwnd, fifo, xt, leaked>>
evars == <<erefs, state, edrc, ereq>>
tvars == <<pc, on, req, dv, ovhk, cnt>>
vars == <<xvars, dvars, evars, tvars, twice>>

Places == {"idle", "getdrc", "expire", "lookup", "exec", "settle", "again",
           "retire", "remove", "unqueue", "rele"}

NoEntry == [r \in Requests |-> None]

\* TAILQ_REMOVE: the queue without an element it holds.
Without(q, e) ==
    LET i == CHOOSE i \in DOMAIN q : q[i] = e
    IN  SubSeq(q, 1, i - 1) \o SubSeq(q, i + 1, Len(q))

Init ==
    /\ conn = [x \in Xprts |-> "down"]
    /\ addr = [x \in Xprts |-> None]
    /\ u2 = [x \in Xprts |-> None]
    /\ tree = [a \in Addrs |-> None]
    /\ recycleq = <<>>
    /\ recycle = [d \in Drcs |-> FALSE]
    /\ drefs = [d \in Drcs |-> 0]
    /\ retwnd = [d \in Drcs |-> 0]
    /\ fifo = [d \in Drcs |-> <<>>]
    /\ xt = [d \in Drcs |-> NoEntry]
    /\ leaked = [d \in Drcs |-> 0]
    /\ erefs = [e \in Entries |-> 0]
    /\ state = [e \in Entries |-> "free"]
    /\ edrc = [e \in Entries |-> None]
    /\ ereq = [e \in Entries |-> None]
    /\ pc = [t \in Threads |-> "idle"]
    /\ on = [t \in Threads |-> None]
    /\ req = [t \in Threads |-> None]
    /\ dv = [t \in Threads |-> None]
    /\ ovhk = [t \in Threads |-> None]
    /\ cnt = [t \in Threads |-> 0]
    /\ twice = FALSE

(***************************************************************************)
(* Connections.                                                            *)
(***************************************************************************)

\* A client connects, for the first time or again, from its address.
Connect(x, a) ==
    /\ conn[x] = "down"
    /\ conn' = [conn EXCEPT ![x] = "up"]
    /\ addr' = [addr EXCEPT ![x] = a]
    /\ UNCHANGED <<u2, dvars, evars, tvars>>

\* The connection breaks: no more requests come over it, and those under way
\* keep the transport until they are done.
Disconnect(x) ==
    /\ conn[x] = "up"
    /\ conn' = [conn EXCEPT ![x] = "dying"]
    /\ UNCHANGED <<addr, u2, dvars, evars, tvars>>

\* nfs_dupreq_put_drc: the reference is dropped under drc->mtx.
PutDrc(d) == drefs' = [drefs EXCEPT ![d] = @ - 1]

\* nfs_rpc_free_user_data: with its last request gone the transport is freed
\* and drops its reference.  When that was the last one, drc->mtx is released
\* before the DRC is put on the recycle queue ("closing").
FreeXprt(x) ==
    /\ conn[x] = "dying"
    /\ \A t \in Threads : on[t] # x
    /\ IF u2[x] = None
       THEN /\ conn' = [conn EXCEPT ![x] = "down"]
            /\ addr' = [addr EXCEPT ![x] = None]
            /\ UNCHANGED <<u2, drefs>>
       ELSE /\ PutDrc(u2[x])
            /\ IF drefs[u2[x]] = 1
               THEN conn' = [conn EXCEPT ![x] = "closing"] /\ UNCHANGED <<addr, u2>>
               ELSE /\ conn' = [conn EXCEPT ![x] = "down"]
                    /\ addr' = [addr EXCEPT ![x] = None]
                    /\ u2' = [u2 EXCEPT ![x] = None]
    /\ UNCHANGED <<tree, recycleq, recycle, retwnd, fifo, xt, leaked, evars, tvars>>

\* Fault: the flag is not set, so that a reconnection leaves the DRC queued.
Enqueue_unflagged(x) ==
    /\ conn[x] = "closing"
    /\ drefs[u2[x]] = 0 /\ ~recycle[u2[x]]
    /\ recycleq' = Append(recycleq, u2[x])
    /\ conn' = [conn EXCEPT ![x] = "down"]
    /\ addr' = [addr EXCEPT ![x] = None]
    /\ u2' = [u2 EXCEPT ![x] = None]
    /\ UNCHANGED <<tree, recycle, drefs, retwnd, fifo, xt, leaked, evars, tvars>>

\* nfs_dupreq_put_drc, under DRC_ST_LOCK again: what was read before the lock
\* was dropped is checked once more.
Enqueue(x) ==
    /\ conn[x] = "closing"
    /\ IF drefs[u2[x]] = 0 /\ ~recycle[u2[x]]
       THEN /\ recycle' = [recycle EXCEPT ![u2[x]] = TRUE]
            /\ recycleq' = Append(recycleq, u2[x])
       ELSE UNCHANGED <<recycle, recycleq>>
    /\ conn' = [conn EXCEPT ![x] = "down"]
    /\ addr' = [addr EXCEPT ![x] = None]
    /\ u2' = [u2 EXCEPT ![x] = None]
    /\ UNCHANGED <<tree, drefs, retwnd, fifo, xt, leaked, evars, tvars>>

(***************************************************************************)
(* nfs_dupreq_get_drc.                                                     *)
(***************************************************************************)

\* A worker takes a request, new or retransmitted, that came over x.
Receive(t, x, r) ==
    /\ pc[t] = "idle" /\ conn[x] = "up"
    /\ pc' = [pc EXCEPT ![t] = "getdrc"]
    /\ on' = [on EXCEPT ![t] = x]
    /\ req' = [req EXCEPT ![t] = r]
    /\ UNCHANGED <<xvars, dvars, evars, dv, ovhk, cnt>>

\* Fault: no call path reference is taken.
GetKnown_unreferenced(t) ==
    /\ pc[t] = "getdrc" /\ u2[on[t]] # None
    /\ pc' = [pc EXCEPT ![t] = "lookup"]
    /\ UNCHANGED <<xvars, dvars, evars, on, req, dv, ovhk, cnt>>

\* The transport knows its DRC.
GetKnown(t) ==
    /\ pc[t] = "getdrc" /\ u2[on[t]] # None
    /\ drefs' = [drefs EXCEPT ![u2[on[t]]] = @ + 1]
    /\ pc' = [pc EXCEPT ![t] = "lookup"]
    /\ UNCHANGED <<xvars, tree, recycleq, recycle, retwnd, fifo, xt, leaked, evars,
                   on, req, dv, ovhk, cnt>>

\* Fault: the DRC stays on the recycle queue.
GetRecycled_queued(t) ==
    LET d == tree[addr[on[t]]] IN
    /\ pc[t] = "getdrc" /\ u2[on[t]] = None /\ d # None
    /\ drefs[d] = 0 => recycle[d]
    /\ u2' = [u2 EXCEPT ![on[t]] = d]
    /\ drefs' = [drefs EXCEPT ![d] = @ + 2]
    /\ pc' = [pc EXCEPT ![t] = "expire"]
    /\ UNCHANGED <<conn, addr, tree, recycleq, recycle, retwnd, fifo, xt, leaked, evars,
                   on, req, dv, ovhk, cnt>>

\* The first request of a connection whose address has a DRC.  One without
\* references is taken off the recycle queue; one that is yet to be put there
\* is waited for (the code retries).  Two references: the transport's and the
\* call path's.
GetRecycled(t) ==
    LET d == tree[addr[on[t]]] IN
    /\ pc[t] = "getdrc" /\ u2[on[t]] = None /\ d # None
    /\ drefs[d] = 0 => recycle[d]
    /\ IF drefs[d] = 0
       THEN /\ recycleq' = Without(recycleq, d)
            /\ recycle' = [recycle EXCEPT ![d] = FALSE]
       ELSE UNCHANGED <<recycleq, recycle>>
    /\ u2' = [u2 EXCEPT ![on[t]] = d]
    /\ drefs' = [drefs EXCEPT ![d] = @ + 2]
    /\ pc' = [pc EXCEPT ![t] = "expire"]
    /\ UNCHANGED <<conn, addr, tree, retwnd, fifo, xt, leaked, evars,
                   on, req, dv, ovhk, cnt>>

\* alloc_tcp_drc: the first request ever, or since the last DRC has expired.
GetNew(t, d) ==
    /\ pc[t] = "getdrc" /\ u2[on[t]] = None /\ tree[addr[on[t]]] = None
    /\ d \notin Range(tree)
    /\ tree' = [tree EXCEPT ![addr[on[t]]] = d]
    /\ u2' = [u2 EXCEPT ![on[t]] = d]
    /\ drefs' = [drefs EXCEPT ![d] = 2]
    /\ retwnd' = [retwnd EXCEPT ![d] = 0]
    /\ fifo' = [fifo EXCEPT ![d] = <<>>]
    /\ xt' = [xt EXCEPT ![d] = NoEntry]
    /\ leaked' = [leaked EXCEPT ![d] = 0]
    /\ pc' = [pc EXCEPT ![t] = "expire"]
    /\ UNCHANGED <<conn, addr, recycleq, recycle, evars, on, req, dv, ovhk, cnt>>

\* The DRCs drc_free_expired finds old enough: the first n of the queue, which
\* is in the order of recycle_time.
Expired(n) == Range(SubSeq(recycleq, 1, n))

\* drc_free_expired, run for the first request of a connection.
FreeExpired(t, n) ==
    /\ pc[t] = "expire"
    /\ n \in 0..Len(recycleq)
    /\ recycleq' = SubSeq(recycleq, n + 1, Len(recycleq))
    /\ tree' = [a \in Addrs |-> IF tree[a] \in Expired(n) THEN None ELSE tree[a]]
    /\ recycle' = [d \in Drcs |-> recycle[d] /\ d \notin Expired(n)]
    /\ pc' = [pc EXCEPT ![t] = "lookup"]
    /\ UNCHANGED <<xvars, drefs, retwnd, fifo, xt, leaked, evars,
                   on, req, dv, ovhk, cnt>>

(***************************************************************************)
(* nfs_dupreq_start, under the partition lock, and what the worker does    *)
(* with its answer.                                                        *)
(***************************************************************************)

\* The DRC of a thread's request, and the entry its tree has for the request.
Drc(t) == u2[on[t]]
Cached(t) == xt[Drc(t)][req[t]]

\* The request is over and the thread lets go of the transport.
Done(t) ==
    /\ pc' = [pc EXCEPT ![t] = "idle"]
    /\ on' = [on EXCEPT ![t] = None]
    /\ req' = [req EXCEPT ![t] = None]
    /\ dv' = [dv EXCEPT ![t] = None]

\* Fault: the tree was searched before the partition lock was taken.
StartNew_unchecked(t, e) ==
    /\ pc[t] = "lookup"
    /\ state[e] = "free"
    /\ state' = [state EXCEPT ![e] = "start"]
    /\ erefs' = [erefs EXCEPT ![e] = 2]
    /\ edrc' = [edrc EXCEPT ![e] = Drc(t)]
    /\ ereq' = [ereq EXCEPT ![e] = req[t]]
    /\ xt' = [xt EXCEPT ![Drc(t)][req[t]] = e]
    /\ fifo' = [fifo EXCEPT ![Drc(t)] = Append(@, e)]
    /\ dv' = [dv EXCEPT ![t] = e]
    /\ pc' = [pc EXCEPT ![t] = "exec"]
    /\ UNCHANGED <<xvars, tree, recycleq, recycle, drefs, retwnd, leaked, on, req, ovhk, cnt>>

\* DUPREQ_SUCCESS: a new request is inserted and executed.  The entry has two
\* references, the table's and the caller's, and takes over the call path's
\* reference on the DRC.
StartNew(t, e) ==
    /\ pc[t] = "lookup" /\ Cached(t) = None
    /\ state[e] = "free"
    /\ state' = [state EXCEPT ![e] = "start"]
    /\ erefs' = [erefs EXCEPT ![e] = 2]
    /\ edrc' = [edrc EXCEPT ![e] = Drc(t)]
    /\ ereq' = [ereq EXCEPT ![e] = req[t]]
    /\ xt' = [xt EXCEPT ![Drc(t)][req[t]] = e]
    /\ fifo' = [fifo EXCEPT ![Drc(t)] = Append(@, e)]
    /\ dv' = [dv EXCEPT ![t] = e]
    /\ pc' = [pc EXCEPT ![t] = "exec"]
    /\ UNCHANGED <<xvars, tree, recycleq, recycle, drefs, retwnd, leaked, on, req, ovhk, cnt>>

\* DUPREQ_BEING_PROCESSED: the request is ignored.  The call path's reference
\* on the DRC is left behind.
StartBusy(t) ==
    /\ pc[t] = "lookup" /\ Cached(t) # None
    /\ state[Cached(t)] = "start"
    /\ leaked[Drc(t)] < MaxLeaks
    /\ leaked' = [leaked EXCEPT ![Drc(t)] = @ + 1]
    /\ Done(t)
    /\ UNCHANGED <<xvars, tree, recycleq, recycle, drefs, retwnd, fifo, xt, evars, ovhk, cnt>>

\* drc_inc_retwnd.
IncRetwnd(w) == IF w = 0 THEN StartBias ELSE IF w < MaxSize THEN w + 2 ELSE w

\* drc_dec_retwnd.
DecRetwnd(w) == IF w > 0 THEN w - 1 ELSE w

\* Fault: the entry is used for the answer without a reference.
StartHit_unreferenced(t) ==
    /\ pc[t] = "lookup" /\ Cached(t) # None
    /\ state[Cached(t)] # "start"
    /\ leaked[Drc(t)] < MaxLeaks
    /\ leaked' = [leaked EXCEPT ![Drc(t)] = @ + 1]
    /\ retwnd' = [retwnd EXCEPT ![Drc(t)] = IncRetwnd(@)]
    /\ dv' = [dv EXCEPT ![t] = Cached(t)]
    /\ pc' = [pc EXCEPT ![t] = "rele"]
    /\ UNCHANGED <<xvars, tree, recycleq, recycle, drefs, fifo, xt, evars, on, req, ovhk, cnt>>

\* DUPREQ_EXISTS: the cached reply is sent (a failure is only logged).  As
\* before, the call path's reference on the DRC stays.
StartHit(t) ==
    /\ pc[t] = "lookup" /\ Cached(t) # None
    /\ state[Cached(t)] # "start"
    /\ leaked[Drc(t)] < MaxLeaks
    /\ leaked' = [leaked EXCEPT ![Drc(t)] = @ + 1]
    /\ erefs' = [erefs EXCEPT ![Cached(t)] = @ + 1]
    /\ retwnd' = [retwnd EXCEPT ![Drc(t)] = IncRetwnd(@)]
    /\ dv' = [dv EXCEPT ![t] = Cached(t)]
    /\ pc' = [pc EXCEPT ![t] = "rele"]
    /\ UNCHANGED <<xvars, tree, recycleq, recycle, drefs, fifo, xt, state, edrc, ereq,
                   on, req, ovhk, cnt>>

\* The reply cannot be sent: SVC_DESTROY, and nfs_dupreq_finish is skipped.
SendFails(t) ==
    /\ pc[t] = "exec"
    /\ conn' = [conn EXCEPT ![on[t]] = "dying"]
    /\ pc' = [pc EXCEPT ![t] = "rele"]
    /\ UNCHANGED <<addr, u2, dvars, evars, on, req, dv, ovhk, cnt>>

\* An entry loses a reference, and its memory with the last one.
EntryPut(e) ==
    /\ erefs' = [erefs EXCEPT ![e] = @ - 1]
    /\ state' = IF erefs[e] = 1 THEN [state EXCEPT ![e] = "free"] ELSE state
    /\ edrc' = IF erefs[e] = 1 THEN [edrc EXCEPT ![e] = None] ELSE edrc
    /\ ereq' = IF erefs[e] = 1 THEN [ereq EXCEPT ![e] = None] ELSE ereq

\* nfs_dupreq_rele.
Rele(t) ==
    /\ pc[t] = "rele"
    /\ EntryPut(dv[t])
    /\ Done(t)
    /\ UNCHANGED <<xvars, dvars, ovhk, cnt>>

(***************************************************************************)
(* nfs_dupreq_finish.                                                      *)
(***************************************************************************)

\* The request has been executed, its reply is sent, and the entry gets it
\* under its own mutex.
Complete(t) ==
    /\ pc[t] = "exec"
    /\ state' = [state EXCEPT ![dv[t]] = "complete"]
    /\ pc' = [pc EXCEPT ![t] = "settle"]
    /\ UNCHANGED <<xvars, dvars, erefs, edrc, ereq, on, req, dv, ovhk, cnt>>

\* drc_should_retire, for a window of w.
ShouldRetire(d, w) ==
    \/ Len(fifo[d]) > MaxSize
    \/ w = 0 /\ Len(fifo[d]) > Hiwat

\* Leaves the retire loop.
EndFinish(t) ==
    /\ pc' = [pc EXCEPT ![t] = "rele"]
    /\ ovhk' = [ovhk EXCEPT ![t] = None]
    /\ cnt' = [cnt EXCEPT ![t] = 0]

\* Under drc->mtx: every finished request counts against the window, and the
\* oldest entry is looked at.  drc->mtx is dropped to take the locks in order.
Settle(t) ==
    LET d == edrc[dv[t]]
        w == IF pc[t] = "settle" THEN DecRetwnd(retwnd[d]) ELSE retwnd[d]
    IN  /\ pc[t] \in {"settle", "again"}
        /\ retwnd' = [retwnd EXCEPT ![d] = w]
        /\ IF ShouldRetire(d, w)
           THEN /\ pc' = [pc EXCEPT ![t] = "retire"]
                /\ ovhk' = [ovhk EXCEPT ![t] = Hk[ereq[Head(fifo[d])]]]
                /\ UNCHANGED cnt
           ELSE EndFinish(t)
        /\ UNCHANGED <<xvars, tree, recycleq, recycle, drefs, fifo, xt, leaked, evars,
                       on, req, dv>>

\* Under the partition lock and drc->mtx, the head of the FIFO is read again:
\* an entry of another partition is left alone.
RetireGone(t) ==
    LET q == fifo[edrc[dv[t]]] IN
    /\ pc[t] = "retire"
    /\ q # <<>> => Hk[ereq[Head(q)]] # ovhk[t]
    /\ EndFinish(t)
    /\ UNCHANGED <<xvars, dvars, evars, on, req, dv>>

\* Fault: the entry looked at first is removed from the tree, the head of the
\* FIFO as it is now from the FIFO.
Retire_stale(t) ==
    LET d == edrc[dv[t]]
        q == fifo[d]
    IN  /\ pc[t] = "retire" /\ q # <<>>
        /\ fifo' = [fifo EXCEPT ![d] = Tail(q)]
        /\ xt' = [xt EXCEPT ![d] = [r \in Requests |->
                     IF Hk[r] = ovhk[t] THEN None ELSE xt[d][r]]]
        /\ PutDrc(d)
        /\ EntryPut(Head(q))
        /\ IF cnt[t] < MaxRetries
           THEN /\ pc' = [pc EXCEPT ![t] = "again"]
                /\ cnt' = [cnt EXCEPT ![t] = @ + 1]
                /\ ovhk' = [ovhk EXCEPT ![t] = None]
           ELSE EndFinish(t)
        /\ UNCHANGED <<xvars, tree, recycleq, recycle, retwnd, leaked, on, req, dv>>

\* The head is retired, whatever its state: it leaves the FIFO and the tree,
\* its reference on the DRC and the table's reference on it are dropped.
Retire(t) ==
    LET d == edrc[dv[t]]
        q == fifo[d]
        ov == Head(q)
    IN  /\ pc[t] = "retire" /\ q # <<>>
        /\ Hk[ereq[ov]] = ovhk[t]
        /\ xt[d][ereq[ov]] = ov
        /\ fifo' = [fifo EXCEPT ![d] = Tail(q)]
        /\ xt' = [xt EXCEPT ![d][ereq[ov]] = None]
        /\ PutDrc(d)
        /\ EntryPut(ov)
        /\ IF cnt[t] < MaxRetries
           THEN /\ pc' = [pc EXCEPT ![t] = "again"]
                /\ cnt' = [cnt EXCEPT ![t] = @ + 1]
                /\ ovhk' = [ovhk EXCEPT ![t] = None]
           ELSE EndFinish(t)
        /\ UNCHANGED <<xvars, tree, recycleq, recycle, retwnd, leaked, on, req, dv>>

(***************************************************************************)
(* nfs_dupreq_delete, for a request that is dropped or not authorised.     *)
(***************************************************************************)

\* The entry is marked, under its own mutex.
Delete(t) ==
    /\ pc[t] = "exec"
    /\ state' = [state EXCEPT ![dv[t]] = "deleted"]
    /\ pc' = [pc EXCEPT ![t] = "remove"]
    /\ UNCHANGED <<xvars, dvars, erefs, edrc, ereq, on, req, dv, ovhk, cnt>>

\* Under the partition lock it leaves the tree.
DeleteFromTree(t) ==
    /\ pc[t] = "remove" /\ xt[edrc[dv[t]]][req[t]] = dv[t]
    /\ xt' = [xt EXCEPT ![edrc[dv[t]]][req[t]] = None]
    /\ pc' = [pc EXCEPT ![t] = "unqueue"]
    /\ UNCHANGED <<xvars, tree, recycleq, recycle, drefs, retwnd, fifo, leaked, evars,
                   on, req, dv, ovhk, cnt>>

\* Fault: the reference on the DRC is not dropped.
DeleteFromFifo_kept(t) ==
    LET d == edrc[dv[t]] IN
    /\ pc[t] = "unqueue" /\ dv[t] \in Range(fifo[d])
    /\ fifo' = [fifo EXCEPT ![d] = Without(@, dv[t])]
    /\ EntryPut(dv[t])
    /\ pc' = [pc EXCEPT ![t] = "rele"]
    /\ UNCHANGED <<xvars, tree, recycleq, recycle, drefs, retwnd, xt, leaked, on, req, dv,
                   ovhk, cnt>>

\* Under drc->mtx it leaves the FIFO, and the references go as in Retire.
DeleteFromFifo(t) ==
    LET d == edrc[dv[t]] IN
    /\ pc[t] = "unqueue" /\ dv[t] \in Range(fifo[d])
    /\ fifo' = [fifo EXCEPT ![d] = Without(@, dv[t])]
    /\ PutDrc(d)
    /\ EntryPut(dv[t])
    /\ pc' = [pc EXCEPT ![t] = "rele"]
    /\ UNCHANGED <<xvars, tree, recycleq, recycle, retwnd, xt, leaked, on, req, dv, ovhk, cnt>>

(***************************************************************************)
(* The second removal of an entry: its links are undefined from here on,   *)
(* and the references of the first removal are dropped once more.          *)
(***************************************************************************)

\* nfs_dupreq_delete of an entry that another thread has retired, before the
\* deletion or between its two critical sections.
DeleteRetired(t) ==
    LET d == edrc[dv[t]] IN
    /\ \/ pc[t] = "remove" /\ xt[d][req[t]] # dv[t]
       \/ pc[t] = "unqueue" /\ dv[t] \notin Range(fifo[d])
    /\ PutDrc(d)
    /\ EntryPut(dv[t])
    /\ pc' = [pc EXCEPT ![t] = "rele"]
    /\ twice' = TRUE
    /\ UNCHANGED <<xvars, tree, recycleq, recycle, retwnd, fifo, xt, leaked, on, req, dv,
                   ovhk, cnt>>

\* nfs_dupreq_finish retires an entry that a deletion has taken off the tree.
RetireDeleted(t) ==
    LET d == edrc[dv[t]]
        q == fifo[d]
        ov == Head(q)
    IN  /\ pc[t] = "retire" /\ q # <<>>
        /\ Hk[ereq[ov]] = ovhk[t]
        /\ xt[d][ereq[ov]] # ov
        /\ fifo' = [fifo EXCEPT ![d] = Tail(q)]
        /\ PutDrc(d)
        /\ EntryPut(ov)
        /\ EndFinish(t)
        /\ twice' = TRUE
        /\ UNCHANGED <<xvars, tree, recycleq, recycle, retwnd, xt, leaked, on, req, dv>>

Request(t) ==
    \/ \E x \in Xprts, r \in Requests : Receive(t, x, r)
    \/ GetKnown(t) \/ GetRecycled(t) \/ \E d \in Drcs : GetNew(t, d)
    \/ \E n \in 0..Cardinality(Drcs) : FreeExpired(t, n)
    \/ \E e \in Entries : StartNew(t, e)
    \/ StartBusy(t) \/ StartHit(t)
    \/ SendFails(t) \/ Complete(t) \/ Settle(t)
    \/ RetireGone(t) \/ Retire(t)
    \/ Delete(t) \/ DeleteFromTree(t) \/ DeleteFromFifo(t)
    \/ Rele(t)

Connection(x) ==
    \/ \E a \in Addrs : Connect(x, a)
    \/ Disconnect(x) \/ FreeXprt(x) \/ Enqueue(x)

Next ==
    /\ ~twice
    /\ \/ \E t \in Threads : Request(t) /\ UNCHANGED twice
       \/ \E x \in Xprts : Connection(x) /\ UNCHANGED twice
       \/ \E t \in Threads : DeleteRetired(t) \/ RetireDeleted(t)

Spec == Init /\ [][Next]_vars

(***************************************************************************)
(* Properties.                                                             *)
(***************************************************************************)

Using(t, e) == dv[t] = e
CallPath(t) == pc[t] \in {"expire", "lookup"}
Allocated == {d \in Drcs : d \in Range(tree)}

\* Every variable keeps its type: up to the first second removal of an entry,
\* the state that nfs_dupreq.c keeps is well formed and no count is negative.
TypeOK ==
    /\ conn \in [Xprts -> {"down", "up", "dying", "closing"}]
    /\ addr \in [Xprts -> Addrs \cup {None}]
    /\ u2 \in [Xprts -> Drcs \cup {None}]
    /\ tree \in [Addrs -> Drcs \cup {None}]
    /\ recycleq \in Seq(Drcs)
    /\ recycle \in [Drcs -> BOOLEAN]
    /\ drefs \in [Drcs -> Nat]
    /\ retwnd \in [Drcs -> Nat]
    /\ fifo \in [Drcs -> Seq(Entries)]
    /\ xt \in [Drcs -> [Requests -> Entries \cup {None}]]
    /\ leaked \in [Drcs -> 0..MaxLeaks]
    /\ erefs \in [Entries -> Nat]
    /\ state \in [Entries -> {"free", "start", "complete", "deleted"}]
    /\ edrc \in [Entries -> Drcs \cup {None}]
    /\ ereq \in [Entries -> Requests \cup {None}]
    /\ pc \in [Threads -> Places]
    /\ on \in [Threads -> Xprts \cup {None}]
    /\ req \in [Threads -> Requests \cup {None}]
    /\ dv \in [Threads -> Entries \cup {None}]
    /\ ovhk \in [Threads -> Range(Hk) \cup {None}]
    /\ cnt \in [Threads -> 0..MaxRetries]
    /\ twice \in BOOLEAN

(***************************************************************************)
(* The other properties hold until an entry is removed twice.              *)
(***************************************************************************)

\* A DRC's count is one for each transport that points to it, one for each
\* entry it caches, one for each request between nfs_dupreq_get_drc and the
\* lookup, and one for each request that was answered from the cache or ignored:
\* nfs_dupreq_start returns DUPREQ_EXISTS and DUPREQ_BEING_PROCESSED without
\* nfs_dupreq_put_drc.  So it "should go to zero when the connection's xprt gets
\* freed" (the comment on drc_t) only if no request was; nothing else is lost or
\* dropped twice.
DrcRefsExact ==
    ~twice =>
        \A d \in Allocated :
            drefs[d] = Cardinality({x \in Xprts : u2[x] = d /\ conn[x] # "closing"})
                       + Len(fifo[d])
                       + Cardinality({t \in Threads : CallPath(t) /\ Drc(t) = d})
                       + leaked[d]

\* An entry's count is one for the table, dropped by the thread that retires or
\* deletes it, and one for each thread that works on it or answers from it; its
\* memory is in use exactly while the count is not zero (dupreq_entry_put).
EntryRefsExact ==
    ~twice =>
        \A e \in Entries :
            /\ erefs[e] = Cardinality({t \in Threads : Using(t, e)})
                          + Cardinality({d \in Drcs : e \in Range(fifo[d])})
            /\ state[e] = "free" <=> erefs[e] = 0

\* The tree and the FIFO of a DRC hold the same entries, each once and under
\* the DRC and request it was made for, but for an entry whose deletion is
\* between the two critical sections of nfs_dupreq_delete.
TreeMatchesFifo ==
    ~twice =>
        \A d \in Allocated :
            /\ IsInjective(fifo[d])
            /\ \A r \in Requests : xt[d][r] # None =>
                   xt[d][r] \in Range(fifo[d]) /\ ereq[xt[d][r]] = r
            /\ \A e \in Range(fifo[d]) :
                   /\ edrc[e] = d
                   /\ \/ xt[d][ereq[e]] = e
                      \/ \E t \in Threads : dv[t] = e /\ pc[t] = "unqueue"

\* The recycle queue holds each DRC that is flagged, once, and only ones that
\* nothing refers to: the assert in drc_free_expired.  A DRC without references
\* that is not queued is about to be, by the thread that dropped the last one.
RecycleSound ==
    ~twice =>
        /\ IsInjective(recycleq)
        /\ \A d \in Drcs : recycle[d] <=> d \in Range(recycleq)
        /\ \A d \in Range(recycleq) :
               d \in Allocated /\ drefs[d] = 0 /\ fifo[d] = <<>>
        /\ \A d \in Allocated : drefs[d] = 0 /\ ~recycle[d] =>
               \E x \in Xprts : conn[x] = "closing" /\ u2[x] = d

\* A request is looked up, and answered from, in the DRC of its own client:
\* whatever recycling and expiry did, the DRC of a transport is the one the
\* table has for the transport's address.
OwnClient ==
    ~twice =>
        \A t \in Threads :
            /\ on[t] # None /\ u2[on[t]] # None => tree[addr[on[t]]] = u2[on[t]]
            /\ dv[t] # None => edrc[dv[t]] = Drc(t) /\ ereq[dv[t]] = req[t]

\* What the cache is for: a request is not executed by two threads at a time,
\* over whichever connections of the client its copies came, unless the entry
\* of one of them has been retired meanwhile (nfs_dupreq_finish retires the
\* oldest entry whatever its state).
ExecutedOnce ==
    \A t, u \in Threads :
        /\ t # u /\ pc[t] = "exec" /\ pc[u] = "exec" /\ ~twice
        /\ addr[on[t]] = addr[on[u]] /\ req[t] = req[u]
        => dv[t] \notin Range(fifo[Drc(t)]) \/ dv[u] \notin Range(fifo[Drc(u)])

\* "Another thread owns the request": a request that is answered with
\* DUPREQ_BEING_PROCESSED, and so ignored, is being executed by a thread that
\* will reply.
OwnedByThread ==
    \A d \in Drcs, r \in Requests :
        xt[d][r] # None /\ state[xt[d][r]] = "start" =>
            \E t \in Threads : dv[t] = xt[d][r] /\ pc[t] = "exec"
=============================================================================
