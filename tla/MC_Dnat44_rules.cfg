\* One interface, every replace address owned by one match, and a non-DNAT
\* nexthop on a4: adds, deletes, retries and failures of each step.
SPECIFICATION Spec
CONSTANTS
    i1 = i1  i2 = i2  v1 = v1  a1 = a1  a2 = a2  a3 = a3  a4 = a4
    NOIFACE = NOIFACE
    Ifaces <- MC_OneIface
    Vrf <- MC_Vrf
    Addrs <- MC_Addrs
    ReqRules <- MC_DistinctReplace
    OtherNh <- MC_OtherNh
INVARIANT RulesConsistent
PROPERTY FailedRequestsChangeNothing
