-------------------------------- MODULE Bond --------------------------------
(***************************************************************************)
(* The bond interface type of the grout control plane                      *)
(* (src/modules/infra/control/bond.c) together with the part of the        *)
(* member ports it reads and writes.                                       *)
(*                                                                         *)
(* Every handler runs to completion on the single control thread, so each  *)
(* API request (create, reconfig, destroy, MAC add/del/set, up/down) and   *)
(* each link status event is one atomic step.  A handler that stops on an  *)
(* error keeps every effect it made before the error: nothing in bond.c    *)
(* rolls back.                                                             *)
(*                                                                         *)
(* Interfaces are named by model values.  A port's own hardware address is *)
(* the port itself; user-supplied addresses come from UserMacs.            *)
(***************************************************************************)
EXTENDS Naturals, SequencesExt, BagsExt

CONSTANTS
    Ports,       \* ids of GR_IFACE_TYPE_PORT interfaces (they always exist)
    Bonds,       \* ids a GR_IFACE_TYPE_BOND interface may be created with
    Others,      \* ids of other interfaces, or of none (not valid members)
    UserMacs,    \* Ethernet addresses a client may configure
    ZeroMac,     \* 00:00:00:00:00:00
    UNDEF,       \* GR_IFACE_ID_UNDEF
    MaxMembers,  \* ARRAY_DIM(members): capacity of the members array
    FilterCap,   \* distinct unicast addresses a port's MAC filter holds
    MaxExtra,    \* bound on Len(extra_macs), to keep the model finite
    Mtus         \* the MTUs a port may have or a client may ask for

ASSUME Ports \cap Bonds = {} /\ Others \cap (Ports \cup Bonds) = {}
ASSUME UNDEF \notin Ports \cup Bonds \cup Others
ASSUME ZeroMac \notin UserMacs \cup Ports
ASSUME Mtus \subseteq Nat \ {0}
ASSUME MaxMembers \in Nat \ {0} /\ FilterCap \in Nat \ {0} /\ MaxExtra \in Nat

Ifaces == Ports \cup Bonds
Macs == UserMacs \cup Ports

\* UINT8_MAX, the "no active member" value of active_member.
NONE == 255

\* The bond attribute bits of set_attrs (GR_BOND_SET_*).  GR_BOND_SET_MODE
\* is left out: ACTIVE_BACKUP is the only mode, so setting it changes nothing.
SET_MAC == "mac"
SET_MEMBERS == "members"
SET_PRIMARY == "primary"
SET_ALL == {SET_MAC, SET_MEMBERS, SET_PRIMARY}

VARIABLES
    bonds,           \* ids of the bond interfaces that exist
    up,              \* port -> GR_IFACE_F_UP in iface->flags
    running,         \* port -> GR_IFACE_S_RUNNING in iface->state
    active,          \* port -> GR_IFACE_S_ACTIVE in iface->state
    bond_iface_id,   \* port -> iface_info_port.bond_iface_id
    filter,          \* port -> bag of addresses in the port's MAC filter
    members,         \* bond -> members[0 .. n_members-1], as a sequence
    primary_member,  \* bond -> index
    active_member,   \* bond -> index or NONE
    mac,             \* bond -> iface_info_bond.mac
    extra_macs,      \* bond -> gr_vec extra_macs, as a sequence
    aborted,         \* an assert() in bond_event failed: the daemon is gone
    mtu              \* iface -> iface->mtu (0 for a bond: inherit)

vars == <<bonds, up, running, active, bond_iface_id, filter, members,
          primary_member, active_member, mac, extra_macs, aborted, mtu>>

-----------------------------------------------------------------------------
(* Port operations the bond calls through the generic iface helpers.  The  *)
(* port type is not part of the sources under src/; its MAC filter is      *)
(* modelled from the interface contract: a reference-counted set of        *)
(* addresses holding at most FilterCap distinct ones, where adding to a     *)
(* full filter and deleting an absent address are errors.                  *)

\* iface_add_eth_addr(port, m) succeeds on the filter bag f.
PortCanAdd(f, m) == m \in DOMAIN f \/ Cardinality(DOMAIN f) < FilterCap

\* iface_del_eth_addr(port, m) succeeds on the filter bag f.
PortCanDel(f, m) == m \in DOMAIN f

(* A control-plane snapshot that the steps of one handler thread through:  *)
(* the port state it may change, the private state of one bond, and        *)
(* whether the handler is still running (ok) or has returned an error.     *)
World(b) ==
    [flt |-> filter, bo |-> bond_iface_id, act |-> active,
     mems |-> members[b], prim |-> primary_member[b],
     am |-> active_member[b], mac |-> mac[b], ok |-> TRUE]

\* One iface_add_eth_addr / iface_del_eth_addr call on port p, inside a loop
\* that returns at the first error.
AddEthAddr(w, p, m) ==
    IF ~w.ok THEN w
    ELSE IF PortCanAdd(w.flt[p], m)
         THEN [w EXCEPT !.flt[p] = BagAdd(@, m)]
         ELSE [w EXCEPT !.ok = FALSE]

DelEthAddr(w, p, m) ==
    IF ~w.ok THEN w
    ELSE IF PortCanDel(w.flt[p], m)
         THEN [w EXCEPT !.flt[p] = BagRemove(@, m)]
         ELSE [w EXCEPT !.ok = FALSE]

\* Mutant: the member loop stops one short and never reaches the last member.
AllMemberMac_skiplast(w, m, add) ==
    FoldLeft(LAMBDA acc, p : IF add THEN AddEthAddr(acc, p, m)
                                    ELSE DelEthAddr(acc, p, m),
             w, Front(w.mems))

\* bond_all_member_mac(): add or delete m on every member, stopping at the
\* first member that fails.
AllMemberMac(w, m, add) ==
    FoldLeft(LAMBDA acc, p : IF add THEN AddEthAddr(acc, p, m)
                                    ELSE DelEthAddr(acc, p, m),
             w, w.mems)

-----------------------------------------------------------------------------
(* Membership changes.                                                     *)

\* bond_init_new_members(): for each requested member that is not already a
\* member, configure every extra MAC on it and point it back at the bond.
InitNewMember(b, w, m) ==
    IF ~w.ok THEN w
    ELSE IF m \notin Ports THEN [w EXCEPT !.ok = FALSE]   \* NULL or EMEDIUMTYPE
    ELSE IF Contains(w.mems, m) THEN w                     \* goto skip
    ELSE LET cfg == FoldLeft(LAMBDA acc, x : AddEthAddr(acc, m, x),
                             w, extra_macs[b])
         IN IF cfg.ok THEN [cfg EXCEPT !.bo[m] = b] ELSE cfg

InitNewMembers(b, w, new) ==
    FoldLeft(LAMBDA acc, m : InitNewMember(b, acc, m), w, new)

\* Mutant: every old member is released, kept ones included.
FiniOldMembers_all(b, w, new) ==
    LET gone == {p \in Ports : Contains(w.mems, p)}
        k(p) == Cardinality({i \in DOMAIN w.mems : w.mems[i] = p})
        drop(f) == FoldLeft(LAMBDA g, x : BagRemove(g, x), f, extra_macs[b])
        dropK(f, p) == FoldLeft(LAMBDA g, i : drop(g), f, [i \in 1..k(p) |-> i])
    IN [w EXCEPT
          !.flt = [p \in Ports |-> IF p \in gone THEN dropK(w.flt[p], p)
                                                  ELSE w.flt[p]],
          !.bo = [p \in Ports |-> IF p \in gone THEN UNDEF ELSE w.bo[p]]]

\* bond_fini_old_members(): every current member that is not in the new
\* list loses the extra MACs (errors only logged) and its back-link.  A
\* port listed k times in the members array goes through this k times.
FiniOldMembers(b, w, new) ==
    LET gone == {p \in Ports : Contains(w.mems, p) /\ ~Contains(new, p)}
        k(p) == Cardinality({i \in DOMAIN w.mems : w.mems[i] = p})
        drop(f) == FoldLeft(LAMBDA g, x : BagRemove(g, x), f, extra_macs[b])
        dropK(f, p) == FoldLeft(LAMBDA g, i : drop(g), f, [i \in 1..k(p) |-> i])
    IN [w EXCEPT
          !.flt = [p \in Ports |-> IF p \in gone THEN dropK(w.flt[p], p)
                                                  ELSE w.flt[p]],
          !.bo = [p \in Ports |-> IF p \in gone THEN UNDEF ELSE w.bo[p]]]

-----------------------------------------------------------------------------
(* Active member selection, bond_set_active_members() in ACTIVE_BACKUP.    *)

\* run is the RUNNING state the handler sees (the event path has just
\* changed one port's).
Eligible(p, run) == up[p] /\ run[p]

\* Mutant: the "no member selected yet" test is missing, so the last
\* eligible member wins.
SelectActive_last(mems, prim, run) ==
    FoldLeft(LAMBDA acc, i : IF Eligible(mems[i + 1], run) THEN i ELSE acc,
             NONE, [k \in 1..Len(mems) |-> k - 1])

\* The selection loop: the first eligible member, replaced by a later one
\* only when that one is the primary.
SelectActive(mems, prim, run) ==
    FoldLeft(LAMBDA acc, i :
                 IF Eligible(mems[i + 1], run) /\ (acc = NONE \/ i = prim)
                 THEN i ELSE acc,
             NONE, [k \in 1..Len(mems) |-> k - 1])

\* The last index at which port p appears in mems (the update loop visits
\* every index, so the last visit decides p's ACTIVE bit).
LastIndexOf(mems, p) ==
    Max({i - 1 : i \in {j \in DOMAIN mems : mems[j] = p}})

SetActiveMembers(w, run) ==
    LET am == SelectActive(w.mems, w.prim, run)
    IN [w EXCEPT
          !.am = am,
          !.mac = IF am = NONE THEN @ ELSE w.mems[am + 1],
          !.act = [p \in Ports |->
                     IF Contains(w.mems, p) THEN LastIndexOf(w.mems, p) = am
                     ELSE w.act[p]]]

-----------------------------------------------------------------------------
(* bond_reconfig(), one stage per block of the function.  reconfig is      *)
(* FALSE on the create path, where set_attrs is IFACE_SET_ALL.             *)

ReconfigDelOldMac(w, attrs, reconfig) ==
    IF SET_MAC \in attrs /\ reconfig
    THEN [AllMemberMac(w, w.mac, FALSE) EXCEPT !.ok = w.ok]  \* result ignored
    ELSE w

\* Mutant: the n_members > ARRAY_DIM(members) check is missing.
ReconfigMembers_nocheck(b, w, attrs, api) ==
    IF ~w.ok \/ SET_MEMBERS \notin attrs THEN w
    ELSE LET ini == InitNewMembers(b, w, api.members)
         IN IF ~ini.ok THEN ini
            ELSE [FiniOldMembers(b, ini, api.members) EXCEPT !.mems = api.members]

ReconfigMembers(b, w, attrs, api) ==
    IF ~w.ok \/ SET_MEMBERS \notin attrs THEN w
    ELSE IF Len(api.members) > MaxMembers THEN [w EXCEPT !.ok = FALSE]  \* ERANGE
    ELSE LET ini == InitNewMembers(b, w, api.members)
         IN IF ~ini.ok THEN ini
            ELSE [FiniOldMembers(b, ini, api.members) EXCEPT !.mems = api.members]

ReconfigPrimary(w, attrs, api) ==
    IF ~w.ok \/ SET_PRIMARY \notin attrs THEN w
    ELSE IF api.primary >= Len(w.mems) THEN [w EXCEPT !.ok = FALSE]     \* ERANGE
    ELSE [w EXCEPT !.prim = api.primary]

ReconfigActive(w, attrs) ==
    IF ~w.ok \/ attrs \cap {SET_MEMBERS, SET_PRIMARY} = {} THEN w
    ELSE SetActiveMembers(w, running)

ReconfigMac(w, attrs, api) ==
    IF ~w.ok \/ SET_MAC \notin attrs \/ api.mac = ZeroMac THEN w
    ELSE LET r == AllMemberMac(w, api.mac, TRUE)
         IN IF r.ok THEN [r EXCEPT !.mac = api.mac] ELSE r

bond_reconfig(b, w, attrs, api, reconfig) ==
    LET s1 == ReconfigDelOldMac(w, attrs, reconfig)
        s2 == ReconfigMembers(b, s1, attrs, api)
        s3 == ReconfigPrimary(s2, attrs, api)
        s4 == ReconfigActive(s3, attrs)
    IN ReconfigMac(s4, attrs, api)

-----------------------------------------------------------------------------
(* Writing a snapshot back.                                                *)

CommitPorts(w) ==
    /\ filter' = w.flt
    /\ bond_iface_id' = w.bo
    /\ active' = w.act

CommitBond(b, w) ==
    /\ members' = [members EXCEPT ![b] = w.mems]
    /\ primary_member' = [primary_member EXCEPT ![b] = w.prim]
    /\ active_member' = [active_member EXCEPT ![b] = w.am]
    /\ mac' = [mac EXCEPT ![b] = w.mac]

\* The zeroed private area of a freshly allocated (or freed) bond.
ResetBond(b) ==
    /\ members' = [members EXCEPT ![b] = <<>>]
    /\ primary_member' = [primary_member EXCEPT ![b] = 0]
    /\ active_member' = [active_member EXCEPT ![b] = 0]
    /\ mac' = [mac EXCEPT ![b] = ZeroMac]
    /\ extra_macs' = [extra_macs EXCEPT ![b] = <<>>]

-----------------------------------------------------------------------------
(* Inputs.                                                                 *)

\* Member lists that fit the array, and one list one entry longer: bond_reconfig()
\* rejects every n_members > ARRAY_DIM(members) with ERANGE before reading
\* any entry, so that list stands for all of them.
ApiMembers ==
    BoundedSeq(Ifaces \cup Others, MaxMembers)
    \cup {[i \in 1..MaxMembers + 1 |-> CHOOSE p \in Ports : TRUE]}
ApiPrimary == 0..MaxMembers
ApiMac == UserMacs \cup {ZeroMac}

\* The gr_iface_info_bond payloads of a request; fields the attribute mask
\* does not select are never read, so they are fixed.
ApiBond(attrs) ==
    [members : IF SET_MEMBERS \in attrs THEN ApiMembers ELSE {<<>>},
     primary : IF SET_PRIMARY \in attrs THEN ApiPrimary ELSE {0},
     mac : IF SET_MAC \in attrs THEN ApiMac ELSE {ZeroMac}]

Attrs == SUBSET SET_ALL \ {{}}

-----------------------------------------------------------------------------
(* Actions.                                                                *)

\* iface_create() of a bond: bond_init() is bond_reconfig(IFACE_SET_ALL) on
\* a zeroed private area.  On failure the interface slot is released and no
\* fini callback runs, so port effects made before the error persist.
CreateBond(b, api) ==
    LET w0 == [World(b) EXCEPT !.mems = <<>>, !.prim = 0, !.am = 0,
                               !.mac = ZeroMac]
        w == bond_reconfig(b, w0, SET_ALL, api, FALSE)
    IN /\ ~aborted
       /\ b \notin bonds
       /\ CommitPorts(w)
       /\ IF w.ok
          THEN /\ bonds' = bonds \cup {b}
               /\ CommitBond(b, w)
               /\ UNCHANGED <<extra_macs, mtu>>
          ELSE /\ UNCHANGED <<bonds, mtu>>
               /\ ResetBond(b)
       /\ UNCHANGED <<up, running, aborted>>

\* iface_reconfig() of an existing bond with a subset of the bond attributes.
ReconfigBond(b, attrs, api) ==
    LET w == bond_reconfig(b, World(b), attrs, api, TRUE)
    IN /\ ~aborted
       /\ b \in bonds
       /\ CommitPorts(w)
       /\ CommitBond(b, w)
       /\ UNCHANGED <<mtu, bonds, up, running, extra_macs, aborted>>

\* iface_destroy() of a bond: bond_fini() releases every member, then the
\* interface is freed.
DestroyBond(b) ==
    LET w == FiniOldMembers(b, World(b), <<>>)
    IN /\ ~aborted
       /\ b \in bonds
       /\ CommitPorts(w)
       /\ bonds' = bonds \ {b}
       /\ ResetBond(b)
       /\ mtu' = [mtu EXCEPT ![b] = 0]
       /\ UNCHANGED <<up, running, aborted>>

\* bond_mac_add(): configure m on every member, then remember it.
BondMacAdd(b, m) ==
    LET w == AllMemberMac(World(b), m, TRUE)
    IN /\ ~aborted
       /\ b \in bonds
       /\ Len(extra_macs[b]) < MaxExtra
       /\ CommitPorts(w)
       /\ extra_macs' = IF w.ok THEN [extra_macs EXCEPT ![b] = Append(@, m)]
                                ELSE extra_macs
       /\ UNCHANGED <<mtu, bonds, up, running, members, primary_member,
                      active_member, mac, aborted>>

\* bond_mac_del(): delete m from the members (result ignored), then drop its
\* first occurrence from extra_macs.
BondMacDel(b, m) ==
    LET w == AllMemberMac(World(b), m, FALSE)
    IN /\ ~aborted
       /\ b \in bonds
       /\ CommitPorts(w)
       /\ extra_macs' = [extra_macs EXCEPT ![b] = RemoveFirst(@, m)]
       /\ UNCHANGED <<mtu, bonds, up, running, members, primary_member,
                      active_member, mac, aborted>>

\* bond_mac_set(): delete the current bond MAC from the members and add m,
\* returning at the first error.
BondMacSet(b, m) ==
    LET del == AllMemberMac(World(b), mac[b], FALSE)
        add == AllMemberMac(del, m, TRUE)
    IN /\ ~aborted
       /\ b \in bonds
       /\ CommitPorts(add)
       /\ mac' = IF add.ok THEN [mac EXCEPT ![b] = m] ELSE mac
       /\ UNCHANGED <<mtu, bonds, up, running, members, primary_member,
                      active_member, extra_macs, aborted>>

\* bond_up_down(): iface_set_up_down() on each member in order; the port
\* call may fail (the driver refuses), in which case the members before it
\* keep the new flag.  k is the number of members that succeed.  The bond's
\* own UP flag, set when all succeed, is read by nothing modelled here.
BondUpDown(b, v) ==
    /\ ~aborted
    /\ b \in bonds
    /\ \E k \in 0..Len(members[b]) :
          LET done == {members[b][i] : i \in 1..k}
          IN up' = [p \in Ports |-> IF p \in done THEN v ELSE up[p]]
    /\ UNCHANGED <<mtu, bonds, running, active, bond_iface_id, filter, members,
                   primary_member, active_member, mac, extra_macs, aborted>>

\* The member loop of bond_mtu_set() when the member call number k (the
\* k-th member, counting from 1) is the first iface_set_mtu() the port
\* refuses; k > Len(mems) when none is refused.  Mtu 0 takes the MTU of the
\* first member that has one, and that member is not set.
MtuSetLoop(mems, m, k) ==
    FoldLeft(LAMBDA acc, i :
                 LET p == mems[i] IN
                 IF ~acc.ok THEN acc
                 ELSE IF acc.mtu = 0 /\ acc.pm[p] # 0 THEN [acc EXCEPT !.mtu = acc.pm[p]]
                 ELSE IF i = k THEN [acc EXCEPT !.ok = FALSE]
                 ELSE [acc EXCEPT !.pm[p] = acc.mtu],
             [mtu |-> m, pm |-> mtu, ok |-> TRUE], [i \in 1..Len(mems) |-> i])

\* Mutant: the bond records the MTU even when a member refused it.
BondMtuSet_noret(b, m) ==
    /\ ~aborted
    /\ b \in bonds
    /\ \E k \in 1..Len(members[b]) + 1 :
          LET r == MtuSetLoop(members[b], m, k)
          IN mtu' = [r.pm EXCEPT ![b] = r.mtu]
    /\ UNCHANGED <<bonds, up, running, active, bond_iface_id, filter, members,
                   primary_member, active_member, mac, extra_macs, aborted>>

\* bond_mtu_set(): iface_set_mtu() on each member, returning at the first
\* error with the members before it changed; iface->mtu is set only when
\* the loop completes.
BondMtuSet(b, m) ==
    /\ ~aborted
    /\ b \in bonds
    /\ \E k \in 1..Len(members[b]) + 1 :
          LET r == MtuSetLoop(members[b], m, k)
          IN mtu' = IF r.ok THEN [r.pm EXCEPT ![b] = r.mtu] ELSE r.pm
    /\ UNCHANGED <<bonds, up, running, active, bond_iface_id, filter, members,
                   primary_member, active_member, mac, extra_macs, aborted>>

\* The administrative state of a port, set by a client on the port itself.
PortSetUpDown(p, v) ==
    /\ ~aborted
    /\ up' = [up EXCEPT ![p] = v]
    /\ UNCHANGED <<mtu, bonds, running, active, bond_iface_id, filter, members,
                   primary_member, active_member, mac, extra_macs, aborted>>

\* A port's link goes up or down: GR_EVENT_IFACE_STATUS_UP/DOWN is published
\* and bond_event() runs synchronously.  bond_event() asserts that the
\* back-link names an existing bond; a failed assert aborts the daemon.
LinkStatus(p, r) ==
    LET b == bond_iface_id[p]
    IN /\ ~aborted
       /\ running[p] # r
       /\ running' = [running EXCEPT ![p] = r]
       /\ UNCHANGED <<mtu, bonds, up, extra_macs>>
       /\ IF b = UNDEF
          THEN UNCHANGED <<active, bond_iface_id, filter, members,
                           primary_member, active_member, mac, aborted>>
          ELSE IF b \notin bonds
          THEN /\ aborted' = TRUE
               /\ UNCHANGED <<active, bond_iface_id, filter, members,
                              primary_member, active_member, mac>>
          ELSE LET w == SetActiveMembers(World(b), running')
               IN /\ CommitPorts(w)
                  /\ CommitBond(b, w)
                  /\ UNCHANGED aborted

-----------------------------------------------------------------------------

Init ==
    /\ bonds = {}
    /\ up \in [Ports -> BOOLEAN]
    /\ running \in [Ports -> BOOLEAN]
    /\ active = [p \in Ports |-> FALSE]
    /\ bond_iface_id = [p \in Ports |-> UNDEF]
    /\ filter = [p \in Ports |-> EmptyBag]
    /\ members = [b \in Bonds |-> <<>>]
    /\ primary_member = [b \in Bonds |-> 0]
    /\ active_member = [b \in Bonds |-> 0]
    /\ mac = [b \in Bonds |-> ZeroMac]
    /\ extra_macs = [b \in Bonds |-> <<>>]
    /\ aborted = FALSE
    /\ \E pm \in [Ports -> Mtus] : mtu = pm @@ [b \in Bonds |-> 0]

Next ==
    \/ \E b \in Bonds, api \in ApiBond(SET_ALL) : CreateBond(b, api)
    \/ \E b \in Bonds, attrs \in Attrs : \E api \in ApiBond(attrs) :
          ReconfigBond(b, attrs, api)
    \/ \E b \in Bonds : DestroyBond(b)
    \/ \E b \in Bonds, m \in UserMacs : BondMacAdd(b, m)
    \/ \E b \in Bonds, m \in UserMacs : BondMacDel(b, m)
    \/ \E b \in Bonds, m \in UserMacs : BondMacSet(b, m)
    \/ \E b \in Bonds, v \in BOOLEAN : BondUpDown(b, v)
    \/ \E b \in Bonds, m \in Mtus \cup {0} : BondMtuSet(b, m)
    \/ \E p \in Ports, v \in BOOLEAN : PortSetUpDown(p, v)
    \/ \E p \in Ports, r \in BOOLEAN : LinkStatus(p, r)

Spec == Init /\ [][Next]_vars

-----------------------------------------------------------------------------
(* Properties.                                                             *)

\* Every variable holds a value of its C type; members are ports only.
TypeOK ==
    /\ bonds \subseteq Bonds
    /\ up \in [Ports -> BOOLEAN]
    /\ running \in [Ports -> BOOLEAN]
    /\ active \in [Ports -> BOOLEAN]
    /\ bond_iface_id \in [Ports -> Bonds \cup {UNDEF}]
    /\ \A p \in Ports : IsABag(filter[p]) /\ BagToSet(filter[p]) \subseteq Macs
    /\ members \in [Bonds -> Seq(Ports)]
    /\ \A b \in Bonds : Len(members[b]) <= MaxMembers
    /\ primary_member \in [Bonds -> 0..MaxMembers]
    /\ active_member \in [Bonds -> 0..MaxMembers \cup {NONE}]
    /\ mac \in [Bonds -> Macs \cup {ZeroMac}]
    /\ extra_macs \in [Bonds -> Seq(UserMacs)]
    /\ aborted \in BOOLEAN
    /\ mtu \in [Ifaces -> Mtus \cup {0}] /\ \A p \in Ports : mtu[p] \in Mtus

\* The assert(bond != NULL) of bond_event() never fails: a port whose
\* bond_iface_id is set always points at an existing bond.
NoAssertFailure == ~aborted

\* active_member of a bond is NONE or the index of one of its members, as
\* bond_set_active_members() and the members[active_member] reads assume.
ActiveMemberInRange ==
    \A b \in bonds : active_member[b] # NONE => active_member[b] < Len(members[b])

\* A port has GR_IFACE_S_ACTIVE only while it is the active member of some
\* bond: membership changes and selection keep the bit in step.
ActiveBitOnActiveMember ==
    \A p \in Ports : active[p] =>
        \E b \in bonds : /\ active_member[b] < Len(members[b])
                         /\ members[b][active_member[b] + 1] = p

\* Every address in a bond's extra_macs holds a reference in the MAC filter
\* of every member (bond_mac_add / bond_init_new_members put it there, and
\* no other bond operation may take it away).
ExtraMacsProgrammed ==
    \A b \in bonds : \A p \in Range(members[b]) :
        ToBag(extra_macs[b]) \sqsubseteq filter[p]

\* Every member of an existing bond points back at that bond through
\* bond_iface_id, which bond_event() uses to find the bond of a port.
MembersLinked ==
    \A b \in bonds : \A p \in Range(members[b]) : bond_iface_id[p] = b

\* The ACTIVE_BACKUP rule: the primary if it is up and running, otherwise
\* the first member that is, otherwise none.
SpecSelect(b) ==
    LET elig == {i \in 0..Len(members[b]) - 1 :
                    up[members[b][i + 1]] /\ running[members[b][i + 1]]}
    IN IF elig = {} THEN NONE
       ELSE IF primary_member[b] \in elig THEN primary_member[b] ELSE Min(elig)

\* After a link status event on a member port, bond_event() has chosen the
\* active member the ACTIVE_BACKUP rule picks and given the bond that
\* member's address.
EventSelection ==
    [][\A p \in Ports :
         (running'[p] # running[p] /\ bond_iface_id[p] \in bonds) =>
            LET b == bond_iface_id[p] IN
            /\ active_member'[b] = SpecSelect(b)'
            /\ active_member'[b] # NONE => mac'[b] = members'[b][active_member'[b] + 1]
      ]_vars

\* When bond_mac_add() records a new extra address, or the bond MAC changes
\* to a user address, every member's filter holds that address.
MacPropagation ==
    [][\A b \in bonds' :
         /\ Len(extra_macs'[b]) > Len(extra_macs[b]) =>
               \A p \in Range(members'[b]) : Last(extra_macs'[b]) \in DOMAIN filter'[p]
         /\ (mac'[b] # mac[b] /\ mac'[b] \in UserMacs) =>
               \A p \in Range(members'[b]) : mac'[b] \in DOMAIN filter'[p]
      ]_vars

\* When bond_mtu_set() changes the MTU a bond records, every member has
\* that MTU: a member that refused it leaves the bond's MTU as it was, and
\* an inherited MTU (a request for 0) is the one the members were set to.
MtuOnMembers ==
    [][\A b \in bonds' :
         mtu'[b] # mtu[b] /\ b \in bonds =>
            \A p \in Range(members'[b]) : mtu'[p] = mtu'[b]
      ]_vars
=============================================================================
