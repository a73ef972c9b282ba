\* Every well-formed packet shape, and neighbour discovery packets with a
\* zero-length option; a buffer of 12 appends, more than any well-formed
\* packet needs.
CONSTANTS
    DEST_UNREACH = DEST_UNREACH
    ECHO_REQUEST = ECHO_REQUEST
    ROUTER_SOLICIT = ROUTER_SOLICIT
    NEIGH_SOLICIT = NEIGH_SOLICIT
    TYPE_OTHER = TYPE_OTHER
    Types <- MC_Types
    Known <- MC_Known
    Body <- MC_Body
    BodyRead <- MC_BodyRead
    WithOpts <- MC_WithOpts
    Packets <- MC_Packets
    MaxOptLen = 2
    MaxHlen = 1
    BufUnits = 12
SPECIFICATION Spec
\* A call that has returned stays returned.
CHECK_DEADLOCK FALSE
INVARIANT HeadersTraced
INVARIANT ReadsInPacket
PROPERTY Terminates
