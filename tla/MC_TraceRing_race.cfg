\* gr_trace_dump() on the control thread and the worker's oldest-drop in
\* gr_mbuf_trace_finish() both dequeue from the RING_F_SC_DEQ ring.
CONSTANTS
    w1 = w1
    w2 = w2
    c1 = c1
    a = a
    b = b
    i1 = i1
    i2 = i2
    i3 = i3
    i4 = i4
    NULL = NULL
    Workers <- MC_OneWorker
    Control <- MC_Control
    Mbufs <- MC_OneMbuf
    Items <- MC_Items
    RingSize = 2
    Wrap = 8
    MaxChain = 2
    DumpFits = 2
SPECIFICATION Spec
SYMMETRY ItemSymmetry
CONSTRAINT PoolBound
INVARIANT ItemsOwnedOnce
