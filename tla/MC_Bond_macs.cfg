\* MAC propagation with one bond over one port (listed once or twice) and
\* two user addresses competing for a one-entry port filter.
CONSTANTS
    p1 = p1
    p2 = p2
    b1 = b1
    b2 = b2
    x1 = x1
    m1 = m1
    m2 = m2
    ZeroMac = ZeroMac
    UNDEF = UNDEF
    Ports <- MC_OnePort
    Bonds <- MC_OneBond
    Others <- MC_Others
    UserMacs <- MC_TwoMacs
    MaxMembers = 2
    FilterCap = 1
    MaxExtra = 2
    Mtus = {1500}
SPECIFICATION Spec
\* The daemon stops for good when bond_event()'s assert fails (see NoAssertFailure).
CHECK_DEADLOCK FALSE
CONSTRAINT StateBound
SYMMETRY MacSymmetry
\* (type checked in the select run)
PROPERTY MacPropagation
