\* gr_trace_dump() into a 128-byte buffer: a trace_arp_format() text cut at
\* the end of the buffer moves n past len, and the next SAFE_BUF() writes
\* beyond buf.
CONSTANTS
    BufLen = 128
    SizeMax <- MC_SizeMax
    Chains <- MC_Chains
    NameLens <- MC_NameLens
SPECIFICATION Spec
CHECK_DEADLOCK FALSE
INVARIANT WritesInBuffer
