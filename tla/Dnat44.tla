------------------------------- MODULE Dnat44 -------------------------------
(***************************************************************************)
(* The DNAT44 API handlers of src/modules/ip/api/dnat44.c.                 *)
(*                                                                         *)
(* A DNAT44 rule {iface, match, replace} is two pieces of state kept by    *)
(* subsystems outside src/: a DNAT nexthop for `match' routed in the VRF   *)
(* of the interface (nexthop_new + rib4_insert), and a static SNAT44 rule  *)
(* keyed by (iface, replace) that maps back to `match'                     *)
(* (snat44_static_rule_add).  Both are modelled as sets of rule records;   *)
(* the nexthop table holds only routed nexthops.  Handlers run on the      *)
(* single control thread, so each is one atomic action.                    *)
(***************************************************************************)
EXTENDS FiniteSets, Functions

CONSTANTS
    Ifaces,     \* interface ids that exist
    Vrf,        \* iface -> vrf_id
    Addrs,      \* IPv4 addresses
    ReqRules,   \* the <<match, replace>> pairs requests carry
    OtherNh,    \* <<vrf, addr>> pairs holding a nexthop that is not DNAT
    NOIFACE     \* an interface id iface_from_id() does not know

VARIABLES
    dnat,       \* the DNAT nexthops in the RIB, as rules
    snat,       \* the static SNAT44 rules, as the DNAT rules they reverse
    last        \* the last request handled and its result

vars == <<dnat, snat, last>>

Rule == [iface : Ifaces, match : Addrs, replace : Addrs]

\* The requests gr_dnat44_add_req / gr_dnat44_del_req; `ok' is exist_ok
\* for an add and missing_ok for a delete.
Reqs == {r \in [iface : Ifaces \cup {NOIFACE}, match : Addrs,
                replace : Addrs, ok : BOOLEAN] :
            <<r.match, r.replace>> \in ReqRules}

RuleOf(req) == [iface |-> req.iface, match |-> req.match, replace |-> req.replace]

-----------------------------------------------------------------------------

\* nh4_lookup(iface->vrf_id, match): the DNAT rules found there ...
Existing(req) == {r \in dnat : Vrf[r.iface] = Vrf[req.iface] /\ r.match = req.match}

\* ... and whether any nexthop, DNAT or not, is found.
Found(req) == <<Vrf[req.iface], req.match>> \in OtherNh \/ Existing(req) # {}

\* nh->type != GR_NH_T_DNAT || data->replace != req->rule.replace
Conflict(req) ==
    \/ <<Vrf[req.iface], req.match>> \in OtherNh
    \/ \E r \in Existing(req) : r.replace # req.replace

\* snat44_static_rule_del(iface, replace): removes the rule with that key.
snat44_static_rule_del(s, i, rep) == {x \in s : ~(x.iface = i /\ x.replace = rep)}

\* snat44_static_rule_add() fails with EEXIST when the key is taken.
SnatTaken(i, rep) == \E x \in snat : x.iface = i /\ x.replace = rep

Reply(op, req, ret) == last' = [op |-> op, req |-> req, ret |-> ret]

\* dnat44_add() on a nexthop already there: the idempotency check.
AddExisting(req) ==
    IF Conflict(req) THEN "EADDRINUSE" ELSE IF req.ok THEN "OK" ELSE "EEXIST"

\* Mutant: the rollback forgets rib4_delete().
Rollback_norib(req, inserted, err) ==
    /\ dnat' = inserted
    /\ snat' = snat44_static_rule_del(snat, req.iface, req.replace)
    /\ Reply("add", req, err)

\* The fail: label of dnat44_add(): delete the route just inserted and the
\* SNAT rule of (iface, replace), whoever it belongs to.
Rollback(req, inserted, err) ==
    /\ dnat' = inserted \ {RuleOf(req)}
    /\ snat' = snat44_static_rule_del(snat, req.iface, req.replace)
    /\ Reply("add", req, err)

\* dnat44_add() once no nexthop exists: nexthop_new and rib4_insert (either
\* may fail with nothing changed), then snat44_static_rule_add.
AddNew(req) ==
    \/ Reply("add", req, "ENOMEM") /\ UNCHANGED <<dnat, snat>>
    \/ LET inserted == dnat \cup {RuleOf(req)} IN
       IF SnatTaken(req.iface, req.replace)
       THEN Rollback(req, inserted, "EEXIST")
       ELSE \/ /\ dnat' = inserted
               /\ snat' = snat \cup {RuleOf(req)}
               /\ Reply("add", req, "OK")
            \/ Rollback(req, inserted, "ENOMEM")

dnat44_add(req) ==
    \/ req.iface = NOIFACE /\ Reply("add", req, "ENODEV") /\ UNCHANGED <<dnat, snat>>
    \/ /\ req.iface # NOIFACE /\ Found(req)
       /\ Reply("add", req, AddExisting(req)) /\ UNCHANGED <<dnat, snat>>
    \/ req.iface # NOIFACE /\ ~Found(req) /\ AddNew(req)

\* Mutant: the SNAT rule is left behind.
DelRule_nosnat(req) ==
    /\ dnat' = dnat \ Existing(req)
    /\ UNCHANGED snat
    /\ Reply("del", req, "OK")

\* rib4_delete() of the nexthop found, then snat44_static_rule_del() of the
\* request's (iface, replace).
DelRule(req) ==
    /\ dnat' = dnat \ Existing(req)
    /\ snat' = snat44_static_rule_del(snat, req.iface, req.replace)
    /\ Reply("del", req, "OK")

dnat44_del(req) ==
    \/ req.iface = NOIFACE /\ Reply("del", req, "ENODEV") /\ UNCHANGED <<dnat, snat>>
    \/ /\ req.iface # NOIFACE /\ ~Found(req)
       /\ Reply("del", req, IF req.ok THEN "OK" ELSE "ENOENT")
       /\ UNCHANGED <<dnat, snat>>
    \/ /\ req.iface # NOIFACE /\ Found(req) /\ Conflict(req)
       /\ Reply("del", req, "EADDRINUSE") /\ UNCHANGED <<dnat, snat>>
    \/ req.iface # NOIFACE /\ Found(req) /\ ~Conflict(req) /\ DelRule(req)

Init ==
    /\ dnat = {}
    /\ snat = {}
    /\ last = [op |-> "none", req |-> CHOOSE r \in Reqs : TRUE, ret |-> "OK"]

Next ==
    \E req \in Reqs : dnat44_add(req) \/ dnat44_del(req)

Spec == Init /\ [][Next]_vars

-----------------------------------------------------------------------------
(* Properties.                                                             *)

\* Every variable holds a value of its type.
TypeOK ==
    /\ dnat \subseteq Rule /\ snat \subseteq Rule
    /\ last.op \in {"none", "add", "del"} /\ last.req \in Reqs

\* Every DNAT rule in the RIB has its reverse SNAT rule and every static
\* SNAT rule belongs to a DNAT rule: dnat44_add() installs both or, through
\* its rollback, neither, and dnat44_del() removes both.
RulesConsistent == snat = dnat

\* A request that fails leaves the rule tables as they were: the rollback
\* of dnat44_add() undoes the route it inserted.
FailedRequestsChangeNothing ==
    [][last'.ret # "OK" => UNCHANGED <<dnat, snat>>]_vars
====
