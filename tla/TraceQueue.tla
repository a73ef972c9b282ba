----------------------------- MODULE TraceQueue -----------------------------
(***************************************************************************)
(* What the trace store promises (spec section 4.H): a fixed pool of trace *)
(* items, a chain per packet being traced that grows one item at a time,   *)
(* and a bounded first-in first-out queue of finished chains.  A finished  *)
(* chain leaves the queue only at its head, either to be shown by the dump *)
(* or dropped to make room, and its items then return to the pool.         *)
(*                                                                         *)
(* Nothing here says how the queue is stored; TraceRing refines this       *)
(* module with the rte_ring, the STAILQ links and the mempool.             *)
(***************************************************************************)
EXTENDS Naturals, Sequences, SequencesExt

CONSTANTS
    Keys,        \* the packets being traced (worker, mbuf)
    Items,       \* the trace items of the pool
    Capacity     \* how many finished chains the queue holds

VARIABLES
    free,        \* the items in the pool
    building,    \* key -> the chain of the packet, oldest item first
    queue,       \* the finished chains, oldest first
    shown        \* the chain the dump is formatting, or <<>>

qvars == <<free, building, queue, shown>>

\* A node adds a trace item to the packet's chain.
Add(k) ==
    \E i \in free :
        /\ free' = free \ {i}
        /\ building' = [building EXCEPT ![k] = Append(@, i)]
        /\ UNCHANGED <<queue, shown>>

\* The packet leaves the graph: its chain joins the tail of the queue.
Finish(k) ==
    /\ building[k] # <<>>
    /\ Len(queue) < Capacity
    /\ queue' = Append(queue, building[k])
    /\ building' = [building EXCEPT ![k] = <<>>]
    /\ UNCHANGED <<free, shown>>

\* The oldest chain is dropped and its items are freed.
Drop ==
    /\ queue # <<>>
    /\ free' = free \cup Range(Head(queue))
    /\ queue' = Tail(queue)
    /\ UNCHANGED <<building, shown>>

\* The dump takes the oldest chain ...
Take ==
    /\ shown = <<>>
    /\ queue # <<>>
    /\ shown' = Head(queue)
    /\ queue' = Tail(queue)
    /\ UNCHANGED <<free, building>>

\* ... and frees it once formatted.
Release ==
    /\ shown # <<>>
    /\ free' = free \cup Range(shown)
    /\ shown' = <<>>
    /\ UNCHANGED <<building, queue>>

QInit ==
    /\ free = Items
    /\ building = [k \in Keys |-> <<>>]
    /\ queue = <<>>
    /\ shown = <<>>

QNext ==
    \/ \E k \in Keys : Add(k) \/ Finish(k)
    \/ Drop \/ Take \/ Release

QSpec == QInit /\ [][QNext]_qvars
====
