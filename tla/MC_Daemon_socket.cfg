\* A second grout process on the socket path of a running one: its failed
\* start must not take the running daemon's socket away.
CONSTANTS
    m1 = m1
    m2 = m2
    m3 = m3
    h1 = h1
    h2 = h2
    t1 = t1
    t2 = t2
    Mods <- MC_Mods
    InitPrio <- MC_InitPrio
    FiniPrio <- MC_FiniPrio
    WithInit <- MC_WithInit
    WithFini <- MC_WithFini
    Handlers <- MC_Handlers
    ReqType <- MC_ReqType
    IntBits = 16
    StalePath = TRUE
    Others = TRUE
    MaxArgs = 2
SPECIFICATION Spec
\* main() returns, or the process is killed.
CHECK_DEADLOCK FALSE
INVARIANT SocketReachable
