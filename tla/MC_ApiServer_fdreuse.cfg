\* A client closes with a response pending; the next client gets the same
\* descriptor.
CONSTANTS
    c1 = c1
    c2 = c2
    NOCONN = NOCONN
    JUNK = JUNK
    Clients <- MC_TwoClients
    Fds <- MC_OneFd
    MaxReq = 2
    PayUnits = 0
    SndBuf = 1
    WholeWrites = TRUE
SPECIFICATION Spec
\* When every client has finished, the server waits for the next one.
CHECK_DEADLOCK FALSE
INVARIANT OwnResponses
