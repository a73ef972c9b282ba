\* One worker and the control thread dumping and clearing, both dequeuing
\* the ring (the worker's oldest-drop, the control thread's dump and clear)
\* but never two at once.  Four items, chains of up to two, a ring of
\* capacity three: up to three chains queue in order, the pool runs dry
\* while chains are in the ring, the ring fills while a chain is built
\* (ENOBUFS), and the counters wrap.  LiveView sets aside ring slots,
\* links and copies that no later step reads.
CONSTANTS
    w1 = w1
    w2 = w2
    c1 = c1
    a = a
    b = b
    i1 = i1
    i2 = i2
    i3 = i3
    i4 = i4
    NULL = NULL
    Workers <- MC_OneWorker
    Control <- MC_Control
    Mbufs <- MC_OneMbuf
    Items <- MC_FourItems
    RingSize = 4
    Wrap = 8
    MaxChain = 2
    DumpFits = 2
SPECIFICATION Spec
VIEW LiveView
CONSTRAINT OneDequeuer
INVARIANT ItemsOwnedOnce
PROPERTY TraceCallsReturn
PROPERTY QueueRefinement
