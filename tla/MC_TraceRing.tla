---------------------------- MODULE MC_TraceRing ----------------------------
(* Model values and bounds for checking TraceRing with TLC.                *)
EXTENDS TraceRing, TLC

CONSTANTS w1, w2, c1, a, b, i1, i2, i3, i4

MC_OneWorker == {w1}
MC_TwoWorkers == {w1, w2}
MC_Control == {c1}
MC_NoControl == {}
MC_OneMbuf == {a}
MC_TwoMbufs == {a, b}
MC_Items == {i1, i2, i3}
MC_FourItems == {i1, i2, i3, i4}

ItemSymmetry == Permutations(MC_Items)

\* A double put can make an item's pool count grow; runs that reach it
\* stop there.
PoolBound == \A i \in BagToSet(pool) : pool[i] <= 2

\* At most one thread is between the load and the claim of a dequeue: the
\* single-consumer discipline RING_F_SC_DEQ requires, with every thread
\* free to dequeue in turn.
OneDequeuer ==
    Cardinality({t \in Threads : pc[t] \in DOMAIN AfterFree \cup {"dump_claim"}}) <= 1

\* The state with the values no later step reads set aside: the link of a
\* free item (rte_mempool_get() hands it out and PoolGet resets it), a
\* ring slot outside cons..prod (overwritten before it is read again), the
\* mbuf of an idle worker and the cons.head copy of a thread that is not
\* between the load and the claim of a dequeue.
LiveView ==
    LET live(j) == \E i \in 1..Entries : (cons + i - 1) % RingSize = j
        loading(t) == pc[t] \in DOMAIN AfterFree \cup {"dump_claim"}
    IN  <<pool,
          [i \in Items |-> IF i \in BagToSet(pool) THEN NULL ELSE next[i]],
          [j \in 0..RingSize - 1 |-> IF live(j) THEN slot[j] ELSE NULL],
          prod, cons, first, last, nadd, pc,
          [w \in Workers |-> IF pc[w] = "idle" THEN NULL ELSE cur[w]],
          [t \in Threads |-> IF loading(t) THEN dh[t] ELSE 0],
          held>>

=============================================================================
