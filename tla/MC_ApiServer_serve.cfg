\* Two clients writing whole requests, a one-response socket buffer so that
\* EAGAIN and write events happen, two descriptors.
CONSTANTS
    c1 = c1
    c2 = c2
    NOCONN = NOCONN
    JUNK = JUNK
    Clients <- MC_TwoClients
    Fds <- MC_TwoFds
    MaxReq = 2
    PayUnits = 1
    SndBuf = 1
    WholeWrites = TRUE
SPECIFICATION Spec
\* When every client has finished, the server waits for the next one.
CHECK_DEADLOCK FALSE
 
PROPERTY RequestsAnswered
