------------------------------ MODULE TraceRing ------------------------------
(***************************************************************************)
(* The packet trace store of src/modules/infra/datapath/trace.c: a mempool *)
(* of trace items, the per-mbuf STAILQ chains the datapath builds out of   *)
(* them, and the rte_ring traced_packets of chain heads with its           *)
(* oldest-drop policy.                                                     *)
(*                                                                         *)
(* Threads are the datapath workers (lcores) and, when Control is not      *)
(* empty, the control thread running gr_trace_dump / gr_trace_clear.  A    *)
(* worker handles the mbufs of its burst one call at a time.               *)
(*                                                                         *)
(* The ring is created RING_F_MP_RTS_ENQ | RING_F_SC_DEQ.  The MP enqueue  *)
(* is correct for concurrent producers and is one step.  The SC dequeue    *)
(* reads cons.head, then later stores cons.head/cons.tail and reads the    *)
(* slot without any atomic operation: it is two steps, load and claim.     *)
(* The mempool (cache size 0, MP/MC ring) is one step per get and put.     *)
(***************************************************************************)
EXTENDS Naturals, SequencesExt, BagsExt

CONSTANTS
    Workers,     \* datapath lcores
    Control,     \* {} or the control thread
    Mbufs,       \* the mbufs of one worker's burst
    Items,       \* the trace_pool objects
    NULL,
    RingSize,    \* rte_ring size: PACKET_COUNT_MAX rounded to a power of 2
    Wrap,        \* modulus of the head/tail counters (2^32 in the code)
    MaxChain,    \* bound on the trace items one packet collects
    DumpFits     \* the trace items whose lines fit the buffer given to
                 \* gr_trace_dump()

ASSUME NULL \notin Items /\ Workers \cap Control = {}
ASSUME RingSize >= 2 /\ Wrap % RingSize = 0 /\ Wrap >= 2 * RingSize

Threads == Workers \cup Control

\* Usable capacity of a ring created without RING_F_EXACT_SZ.
Capacity == RingSize - 1

VARIABLES
    pool,     \* bag of free items (a double put puts an item in twice)
    next,     \* item -> STAILQ_NEXT of the item
    slot,     \* ring index -> chain head stored there
    prod,     \* prod.head = prod.tail
    cons,     \* cons.head = cons.tail
    first,    \* <<worker, mbuf>> -> STAILQ_FIRST of the mbuf's trace list
    last,     \* <<worker, mbuf>> -> last item of that list
    nadd,     \* <<worker, mbuf>> -> items added since the last finish
    pc,       \* thread -> where it is
    cur,      \* worker -> mbuf of the call in progress
    dh,       \* thread -> cons.head read by the dequeue in progress
    held      \* chain head gr_trace_dump is formatting

vars == <<pool, next, slot, prod, cons, first, last, nadd, pc, cur, dh, held>>

-----------------------------------------------------------------------------
(* Chains and the pool.                                                    *)

\* The items free_trace() visits from head h: it follows STAILQ_NEXT until
\* NULL.  n bounds the walk, which a cycle would make endless.
RECURSIVE ChainFrom(_, _)
ChainFrom(h, n) ==
    IF h = NULL \/ n = 0 THEN <<>> ELSE <<h>> \o ChainFrom(next[h], n - 1)

Chain(h) == ChainFrom(h, Cardinality(Items) + 1)

\* Mutant: the walk stops after the head item.
FreeTrace_head(h) == pool (+) ToBag(SubSeq(Chain(h), 1, 1))

\* free_trace(t): every item of the chain goes back to the pool.
FreeTrace(h) == pool (+) ToBag(Chain(h))

-----------------------------------------------------------------------------
(* The ring, with the counter arithmetic of rte_ring (unsigned, wrapping). *)

Entries == (prod - cons) % Wrap

FreeEntries == (Capacity + cons - prod) % Wrap

\* The ring positions that hold chains, oldest first.
RingChains == [i \in 1..Entries |-> slot[(cons + i - 1) % RingSize]]

\* Where a dequeue that found the ring empty goes back to.
AfterEmpty == [add_load |-> "get", fin_load |-> "enq",
               dump_load |-> "idle", clear_load |-> "idle"]

ClaimOf == [add_load |-> "add_claim", fin_load |-> "fin_claim",
            dump_load |-> "dump_claim", clear_load |-> "clear_claim"]

\* Where a dequeue that freed the chain it took goes next.
AfterFree == [add_claim |-> "get", fin_claim |-> "enq", clear_claim |-> "clear_load"]

-----------------------------------------------------------------------------
(* Worker actions.                                                         *)

\* A graph node calls gr_mbuf_trace_add() on mbuf m.
TraceAdd(w, m) ==
    /\ pc[w] = "idle"
    /\ nadd[w, m] < MaxChain
    /\ pc' = [pc EXCEPT ![w] = "get"]
    /\ cur' = [cur EXCEPT ![w] = m]
    /\ UNCHANGED <<pool, next, slot, prod, cons, first, last, nadd, dh, held>>

\* rte_mempool_get(): on success the item is put at the tail of the mbuf's
\* list (STAILQ_INSERT_HEAD on an empty list); on failure the loop goes to
\* dequeue the oldest chain.
PoolGet(w) ==
    LET k == <<w, cur[w]>> IN
    /\ pc[w] = "get"
    /\ IF pool = EmptyBag
       THEN /\ pc' = [pc EXCEPT ![w] = "add_load"]
            /\ UNCHANGED <<pool, next, first, last, nadd>>
       ELSE \E i \in BagToSet(pool) :
            /\ pool' = pool (-) SetToBag({i})
            /\ next' = IF first[k] = NULL THEN [next EXCEPT ![i] = NULL]
                       ELSE [next EXCEPT ![i] = NULL, ![last[k]] = i]
            /\ first' = IF first[k] = NULL THEN [first EXCEPT ![k] = i] ELSE first
            /\ last' = [last EXCEPT ![k] = i]
            /\ nadd' = [nadd EXCEPT ![k] = @ + 1]
            /\ pc' = [pc EXCEPT ![w] = "idle"]
    /\ UNCHANGED <<slot, prod, cons, cur, dh, held>>

\* gr_mbuf_trace_finish() on an mbuf that has a trace.
TraceFinish(w, m) ==
    /\ pc[w] = "idle"
    /\ first[w, m] # NULL
    /\ pc' = [pc EXCEPT ![w] = "enq"]
    /\ cur' = [cur EXCEPT ![w] = m]
    /\ UNCHANGED <<pool, next, slot, prod, cons, first, last, nadd, dh, held>>

\* Mutant: the chain head is stored one slot past the producer index.
Enqueue_slot(w) ==
    LET k == <<w, cur[w]>> IN
    /\ pc[w] = "enq"
    /\ IF FreeEntries >= 1
       THEN /\ slot' = [slot EXCEPT ![(prod + 1) % RingSize] = first[k]]
            /\ prod' = (prod + 1) % Wrap
            /\ first' = [first EXCEPT ![k] = NULL]
            /\ last' = [last EXCEPT ![k] = NULL]
            /\ nadd' = [nadd EXCEPT ![k] = 0]
            /\ pc' = [pc EXCEPT ![w] = "idle"]
       ELSE /\ pc' = [pc EXCEPT ![w] = "fin_load"]
            /\ UNCHANGED <<slot, prod, first, last, nadd>>
    /\ UNCHANGED <<pool, next, cons, cur, dh, held>>

\* rte_ring_enqueue() of the chain head; on success STAILQ_INIT() empties
\* the mbuf's list, on -ENOBUFS the loop goes to dequeue the oldest chain.
Enqueue(w) ==
    LET k == <<w, cur[w]>> IN
    /\ pc[w] = "enq"
    /\ IF FreeEntries >= 1
       THEN /\ slot' = [slot EXCEPT ![prod % RingSize] = first[k]]
            /\ prod' = (prod + 1) % Wrap
            /\ first' = [first EXCEPT ![k] = NULL]
            /\ last' = [last EXCEPT ![k] = NULL]
            /\ nadd' = [nadd EXCEPT ![k] = 0]
            /\ pc' = [pc EXCEPT ![w] = "idle"]
       ELSE /\ pc' = [pc EXCEPT ![w] = "fin_load"]
            /\ UNCHANGED <<slot, prod, first, last, nadd>>
    /\ UNCHANGED <<pool, next, cons, cur, dh, held>>

-----------------------------------------------------------------------------
(* The single-consumer dequeue, by any thread.                             *)

\* First half of rte_ring_dequeue(): read cons.head and the entry count.
DeqLoad(t) ==
    /\ pc[t] \in DOMAIN ClaimOf
    /\ IF Entries = 0
       THEN /\ pc' = [pc EXCEPT ![t] = AfterEmpty[pc[t]]]
            /\ UNCHANGED dh
       ELSE /\ dh' = [dh EXCEPT ![t] = cons]
            /\ pc' = [pc EXCEPT ![t] = ClaimOf[pc[t]]]
    /\ UNCHANGED <<pool, next, slot, prod, cons, first, last, nadd, cur, held>>

\* Second half: store cons.head + 1, copy the slot, store cons.tail; then
\* the caller frees the chain, or gr_trace_dump() starts formatting it.
DeqClaim(t) ==
    LET obj == slot[dh[t] % RingSize] IN
    /\ pc[t] \in DOMAIN AfterFree \cup {"dump_claim"}
    /\ cons' = (dh[t] + 1) % Wrap
    /\ IF pc[t] = "dump_claim"
       THEN /\ held' = obj
            /\ pc' = [pc EXCEPT ![t] = "dump_fmt"]
            /\ UNCHANGED pool
       ELSE /\ pool' = FreeTrace(obj)
            /\ pc' = [pc EXCEPT ![t] = AfterFree[pc[t]]]
            /\ UNCHANGED held
    /\ UNCHANGED <<next, slot, prod, first, last, nadd, cur, dh>>

-----------------------------------------------------------------------------
(* Control thread actions.                                                 *)

\* gr_trace_dump() starts with one dequeue.
DumpStart(c) ==
    /\ pc[c] = "idle"
    /\ pc' = [pc EXCEPT ![c] = "dump_load"]
    /\ UNCHANGED <<pool, next, slot, prod, cons, first, last, nadd, cur, dh, held>>

\* Mutant: free_trace(t) with the cursor, which is NULL after the loop.
DumpFree_cursor(c) ==
    /\ pc[c] = "dump_fmt"
    /\ pool' = FreeTrace(NULL)
    /\ held' = NULL
    /\ pc' = [pc EXCEPT ![c] = "idle"]
    /\ UNCHANGED <<next, slot, prod, cons, first, last, nadd, cur, dh>>

\* The chain is formatted, one line per item, and freed.  A SAFE_BUF() that
\* does not fit jumps to err: and returns -1 before free_trace(head): the
\* chain is then in neither the ring nor the pool.
DumpFree(c) ==
    /\ pc[c] = "dump_fmt"
    /\ pool' = IF Len(Chain(held)) <= DumpFits THEN FreeTrace(held) ELSE pool
    /\ held' = NULL
    /\ pc' = [pc EXCEPT ![c] = "idle"]
    /\ UNCHANGED <<next, slot, prod, cons, first, last, nadd, cur, dh>>

\* gr_trace_clear(): dequeue and free until the ring is empty.
ClearStart(c) ==
    /\ pc[c] = "idle"
    /\ pc' = [pc EXCEPT ![c] = "clear_load"]
    /\ UNCHANGED <<pool, next, slot, prod, cons, first, last, nadd, cur, dh, held>>

-----------------------------------------------------------------------------

Init ==
    /\ pool = SetToBag(Items)
    /\ next = [i \in Items |-> NULL]
    /\ slot = [i \in 0..RingSize - 1 |-> NULL]
    /\ prod = 0
    /\ cons = 0
    /\ first = [k \in Workers \X Mbufs |-> NULL]
    /\ last = [k \in Workers \X Mbufs |-> NULL]
    /\ nadd = [k \in Workers \X Mbufs |-> 0]
    /\ pc = [t \in Threads |-> "idle"]
    /\ cur = [w \in Workers |-> CHOOSE m \in Mbufs : TRUE]
    /\ dh = [t \in Threads |-> 0]
    /\ held = NULL

\* The steps a worker takes inside one gr_mbuf_trace_add/finish call.
WorkerBusy(w) == PoolGet(w) \/ Enqueue(w) \/ DeqLoad(w) \/ DeqClaim(w)

\* The steps the control thread takes inside one gr_trace_dump/clear call.
ControlBusy(c) == DeqLoad(c) \/ DeqClaim(c) \/ DumpFree(c)

Next ==
    \/ \E w \in Workers, m \in Mbufs : TraceAdd(w, m) \/ TraceFinish(w, m)
    \/ \E w \in Workers : WorkerBusy(w)
    \/ \E c \in Control :
          DumpStart(c) \/ ClearStart(c) \/ ControlBusy(c)

\* Workers are lcores that busy-poll and are never descheduled: a worker in
\* the middle of a call keeps taking steps.  The control thread is only
\* assumed to finish a call it has begun (an OS thread inside
\* gr_trace_dump() is eventually run again); it need not start one.
Spec == /\ Init /\ [][Next]_vars
        /\ \A w \in Workers : WF_vars(WorkerBusy(w))
        /\ \A c \in Control : WF_vars(ControlBusy(c))

-----------------------------------------------------------------------------
(* Properties.                                                             *)

\* The items each holder reaches: the pool, the chains in the ring, the
\* chains of the mbufs, and the chain gr_trace_dump() is formatting.
Owned ==
    pool
    (+) FoldSeq(LAMBDA h, acc : ToBag(Chain(h)) (+) acc, EmptyBag, RingChains)
    (+) FoldFunction(LAMBDA h, acc : ToBag(Chain(h)) (+) acc, EmptyBag, first)
    (+) ToBag(Chain(held))

\* No trace item is lost or owned twice: each one is free in the pool or on
\* exactly one chain (no leak from free_trace(), no double put from two
\* dequeues of the same chain, no item linked into two chains).
ItemsOwnedOnce == Owned = SetToBag(Items)

\* The ring never holds more chain heads than its capacity, however the
\* producers' enqueues and the dequeues of oldest chains interleave.
RingBounded == Entries <= Capacity

\* Every gr_mbuf_trace_add() and gr_mbuf_trace_finish() call returns: the
\* oldest-drop loops always find something to free.
TraceCallsReturn == \A w \in Workers : pc[w] # "idle" ~> pc[w] = "idle"

\* The store as spec section 4.H describes it: the pool is the set of free
\* items, each packet's chain is the walk from STAILQ_FIRST, the queue is
\* the walk of each ring slot from cons to prod, and the dump shows the
\* chain it took.
Queue == INSTANCE TraceQueue WITH
    Keys <- Workers \X Mbufs,
    free <- BagToSet(pool),
    building <- [k \in Workers \X Mbufs |-> Chain(first[k])],
    queue <- [i \in 1..Entries |-> Chain(RingChains[i])],
    shown <- Chain(held)

\* With one dequeuer at a time, the ring, the STAILQ chains and the mempool
\* implement the abstract store: chains enter the ring whole, in the order
\* gr_mbuf_trace_finish() enqueues them, and leave it, to be dropped or
\* dumped, oldest first with the items they were built with.
QueueRefinement == Queue!QSpec
=============================================================================
