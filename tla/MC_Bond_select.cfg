\* Member selection and back-links with one bond, two ports and no MAC
\* operations.
CONSTANTS
    p1 = p1
    p2 = p2
    b1 = b1
    b2 = b2
    x1 = x1
    m1 = m1
    m2 = m2
    ZeroMac = ZeroMac
    UNDEF = UNDEF
    Ports <- MC_Ports
    Bonds <- MC_OneBond
    Others <- MC_NoOthers
    UserMacs <- MC_NoMacs
    MaxMembers = 2
    FilterCap = 1
    MaxExtra = 0
    Mtus = {1500, 9000}
SPECIFICATION Spec
\* The daemon stops for good when bond_event()'s assert fails (see NoAssertFailure).
CHECK_DEADLOCK FALSE
SYMMETRY Symmetry
INVARIANT TypeOK
INVARIANT MembersLinked
PROPERTY EventSelection
PROPERTY MtuOnMembers
