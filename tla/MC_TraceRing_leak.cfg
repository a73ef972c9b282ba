\* One worker, the control thread dumping into a buffer that holds the
\* lines of one trace item: a two-item chain makes gr_trace_dump() return
\* through err: without freeing it, and the items never come back.
CONSTANTS
    w1 = w1
    w2 = w2
    c1 = c1
    a = a
    b = b
    i1 = i1
    i2 = i2
    i3 = i3
    i4 = i4
    NULL = NULL
    Workers <- MC_OneWorker
    Control <- MC_Control
    Mbufs <- MC_OneMbuf
    Items <- MC_Items
    RingSize = 2
    Wrap = 8
    MaxChain = 2
    DumpFits = 1
SPECIFICATION Spec
CONSTRAINT OneDequeuer
PROPERTY TraceCallsReturn
