----------------------------- MODULE MC_TraceLog -----------------------------
(* Packets built from layers: Ethernet with the VLAN tag absent, stripped *)
(* by the NIC or in the frame; IPv4 with ICMP or another protocol, alone   *)
(* or inside IPIP; IPv6 with up to two extension headers (hop-by-hop of 8  *)
(* or 16 bytes, fragment) before ICMPv6 or another protocol; ARP; another *)
(* ether type.  ICMPv6 has one type of each shape: an error (no body, no   *)
(* options), echo request, router solicit (4-byte body, options), neighbour*)
(* solicit (20-byte body, options), and a type the switch does not know.   *)
(* Header sizes are those of RFC 791, 8200, 4443 and 4861.                 *)
EXTENDS TraceLog, SequencesExt

CONSTANTS DEST_UNREACH, ECHO_REQUEST, ROUTER_SOLICIT, NEIGH_SOLICIT, TYPE_OTHER

MC_Types == {DEST_UNREACH, ECHO_REQUEST, ROUTER_SOLICIT, NEIGH_SOLICIT, TYPE_OTHER}
MC_Known == {DEST_UNREACH, ECHO_REQUEST, ROUTER_SOLICIT, NEIGH_SOLICIT}
MC_Body == [t \in MC_Types |->
              IF t \in {ECHO_REQUEST, ROUTER_SOLICIT} THEN 4
              ELSE IF t = NEIGH_SOLICIT THEN 20 ELSE 0]
\* echo: ident and seqnum; neighbour solicit: the target address.
MC_BodyRead == [t \in MC_Types |->
                  IF t = ECHO_REQUEST THEN 4 ELSE IF t = NEIGH_SOLICIT THEN 16 ELSE 0]
MC_WithOpts == {ROUTER_SOLICIT, NEIGH_SOLICIT}

(* Layers: <<header record, bytes>>. *)
EthL(e)     == <<[kind |-> "eth", etype |-> e], 14>>
VlanL(e)    == <<[kind |-> "vlan", etype |-> e], 4>>
Ip4L(p)     == <<[kind |-> "ip4", proto |-> p], 20>>
IcmpL       == <<[kind |-> "icmp"], 8>>
ArpL        == <<[kind |-> "arp"], 28>>
Ip6L(n, p)  == <<[kind |-> "ip6", plen |-> n, proto |-> p], 40>>
Icmp6L(t)   == <<[kind |-> "icmp6", type |-> t], 4 + MC_Body[t]>>
OptL(l)     == <<[kind |-> "opt", len |-> l], 8 * l>>
\* An option whose length byte is 0 in front of 8 bytes of option data.
ZeroOptL    == <<[kind |-> "opt", len |-> 0], 8>>
ExtKind(x)  == IF x = "frag" THEN "frag" ELSE "hop"
ExtL(x, nx) == <<[kind |-> "ext", next |-> nx, hlen |-> IF x = "hop1" THEN 1 ELSE 0],
                 IF x = "hop1" THEN 16 ELSE 8>>

Bytes(ls) == FoldLeft(LAMBDA a, l : a + l[2], 0, ls)

\* The packet whose headers are the layers ls, laid end to end.
Frame(stripped, ls) ==
    LET at == [i \in DOMAIN ls |-> Bytes(SubSeq(ls, 1, i - 1))] IN
    [size |-> Bytes(ls), stripped |-> stripped,
     hdr |-> [o \in {at[i] : i \in DOMAIN ls} |->
                 ls[CHOOSE i \in DOMAIN ls : at[i] = o][1]]]

\* The three link layers of a frame carrying ether type e.
Frames(e, ls) ==
    {Frame(TRUE, <<EthL(e)>> \o ls), Frame(FALSE, <<EthL(e)>> \o ls),
     Frame(FALSE, <<EthL("vlan"), VlanL(e)>> \o ls)}

Ip4Chains ==
    {<<Ip4L("icmp"), IcmpL>>, <<Ip4L("other")>>,
     <<Ip4L("ipip"), Ip4L("icmp"), IcmpL>>, <<Ip4L("ipip"), Ip4L("other")>>}

\* ICMPv6 messages: the type, then its options.
Icmp6Msgs(lens, n) ==
    UNION {{<<Icmp6L(t)>> \o [i \in DOMAIN os |-> OptL(os[i])] :
               os \in IF t \in MC_WithOpts THEN BoundedSeq(lens, n) ELSE {<<>>}} :
           t \in MC_Types}

\* An IPv6 packet: the extension headers xs, then the upper layer up of
\* protocol u; payload_len counts both.
Ip6Layers(xs, u, up) ==
    LET ext == [i \in DOMAIN xs |->
                  ExtL(xs[i], IF i < Len(xs) THEN ExtKind(xs[i + 1]) ELSE u)]
    IN <<Ip6L(Bytes(ext \o up), IF xs = <<>> THEN u ELSE ExtKind(xs[1]))>> \o ext \o up

Ip6Chains ==
    UNION {{Ip6Layers(xs, "icmp6", up) : up \in Icmp6Msgs({1, 2, 3}, 2)}
             \cup {Ip6Layers(xs, "other", <<>>)} :
           xs \in BoundedSeq({"hop0", "hop1", "frag"}, 2)}

\* Packets whose length fields are right.
MC_WellFormed ==
    UNION {Frames("ip4", ls) : ls \in Ip4Chains}
    \cup UNION {Frames("ip6", ls) : ls \in Ip6Chains}
    \cup Frames("arp", <<ArpL>>) \cup Frames("other", <<>>)

\* Neighbour discovery packets whose last option has a zero length byte.
MC_ZeroLen ==
    {Frame(FALSE, <<EthL("ip6")>> \o Ip6Layers(<<>>, "icmp6", m)) :
        m \in {<<Icmp6L(t)>> \o os : t \in MC_WithOpts,
                                     os \in {<<ZeroOptL>>, <<OptL(1), ZeroOptL>>}}}

MC_Packets == MC_WellFormed \cup MC_ZeroLen

\* IPv6 packets whose payload_len is smaller than the ICMPv6 headers.
MC_Short ==
    UNION {{Frame(FALSE, <<EthL("ip6"), Ip6L(n, "icmp6"), Icmp6L(t)>>) :
               n \in 0..3 + MC_Body[t]} : t \in MC_Known}
====
