------------------------------ MODULE TraceLog ------------------------------
(***************************************************************************)
(* trace_log_packet() and trace_icmp6() of                                 *)
(* src/modules/infra/datapath/trace.c: the one-line log of a traced packet *)
(* that a datapath worker writes.  One behaviour is one call on one packet.*)
(*                                                                         *)
(* The function walks the headers with a byte offset it advances by the   *)
(* header sizes, trusting the length fields the packet carries (the IPv6  *)
(* payload_len, extension header lengths, option lengths), and never      *)
(* compares the offset with the length of the mbuf.                        *)
(*                                                                         *)
(* A packet is its length and the headers it holds, by offset.  A read at  *)
(* an offset where the packet has no header of the kind the code expects   *)
(* (option data, or memory past the end of the packet) may see any value.  *)
(*                                                                         *)
(* Text is abstracted to its length: every SAFE_BUF() append takes one     *)
(* unit of the BUFSIZ buffer, and an append that does not fit jumps to     *)
(* the err: label, which logs an error and returns.                         *)
(***************************************************************************)
EXTENDS Integers

CONSTANTS
    Types,      \* ICMPv6 types
    Known,      \* the types with a case of their own in trace_icmp6()
    Body,       \* type -> bytes of the type's header after struct icmp6
    BodyRead,   \* type -> bytes of that header the case reads
    WithOpts,   \* the types whose case sets opt (RS, RA, NS, NA)
    Packets,    \* [size, stripped, hdr]: the frame length, whether the VLAN
                \* tag was stripped by the NIC, and offset -> header record
    MaxOptLen,  \* the largest opt->len value unrelated bytes stand for
    MaxHlen,    \* the largest extension header length byte they stand for
    BufUnits    \* the appends buf[BUFSIZ] has room for

ASSUME Known \subseteq Types /\ WithOpts \subseteq Known

\* payload_len is a uint16_t: subtraction wraps.
U16 == 65536

EtherTypes == {"ip4", "ip6", "arp", "vlan", "other"}

\* ip->next_proto_id and the IPv6 next header values the code tells apart.
Protos4 == {"icmp", "ipip", "other"}
Protos6 == {"hop", "frag", "icmp6", "other"}

\* The records a read of a header of kind k may return from bytes that are
\* not such a header.
GarbageOf(k) ==
    CASE k \in {"eth", "vlan"} -> [kind : {k}, etype : EtherTypes]
      [] k = "ip4"   -> [kind : {"ip4"}, proto : Protos4]
      [] k = "ip6"   -> [kind : {"ip6"}, plen : {0}, proto : Protos6]
      [] k = "ext"   -> [kind : {"ext"}, next : Protos6, hlen : 0..MaxHlen]
      [] k = "icmp6" -> [kind : {"icmp6"}, type : Types]
      [] k = "opt"   -> [kind : {"opt"}, len : 0..MaxOptLen]
      [] OTHER       -> {[kind |-> k]}

VARIABLES
    pkt,      \* the mbuf
    off,      \* offset
    etype,    \* ether_type
    proto,    \* proto (IPv6 next header) or ip->next_proto_id
    pl,       \* payload_len
    opt,      \* opt != NULL
    reads,    \* the header reads made: [off, len]
    used,     \* buffer units written (n)
    pc

vars == <<pkt, off, etype, proto, pl, opt, reads, used, pc>>

-----------------------------------------------------------------------------

\* rte_pktmbuf_mtod_offset(m, <kind> *, o) followed by reads of its fields.
ReadAt(o, k) ==
    IF o \in DOMAIN pkt.hdr /\ pkt.hdr[o].kind = k THEN {pkt.hdr[o]} ELSE GarbageOf(k)

Read(o, len) == reads' = reads \cup {[off |-> o, len |-> len]}

\* Mutant: an append whose truncation is not checked (the unguarded
\* n += of gr_trace_dump): the text is cut and the walk goes on.
SafeBuf_noerr(k, to) ==
    /\ used' = (IF used + k <= BufUnits THEN used + k ELSE used)
    /\ pc' = to

\* SAFE_BUF(): k appends, or a jump to err: when the buffer is full.
SafeBuf(k, to) ==
    IF used + k <= BufUnits
    THEN used' = used + k /\ pc' = to
    ELSE used' = used /\ pc' = "err"

\* rte_ipv6_get_next_ext(): the size of the extension header of type p.
ExtSize(p, h) == IF p = "frag" THEN 8 ELSE (h.hlen + 1) * 8

\* The Ethernet header, then the VLAN tag, stripped or in the frame.
Eth ==
    /\ pc = "eth"
    /\ \E e \in ReadAt(0, "eth") :
        /\ IF pkt.stripped \/ e.etype # "vlan"
           THEN /\ Read(0, 14) /\ off' = 14 /\ etype' = e.etype
                /\ SafeBuf(IF pkt.stripped THEN 2 ELSE 1, "l3")
           ELSE \E v \in ReadAt(14, "vlan") :
                /\ reads' = reads \cup {[off |-> 0, len |-> 14], [off |-> 14, len |-> 4]}
                /\ off' = 18 /\ etype' = v.etype
                /\ SafeBuf(2, "l3")
    /\ UNCHANGED <<pkt, proto, pl, opt>>

\* case IPV4 (and the ipv4: label IPPROTO_IPIP jumps back to).
Ip4 ==
    /\ \/ pc = "l3" /\ etype = "ip4"
       \/ pc = "ipip"
    /\ \E ip \in ReadAt(off, "ip4") :
        /\ proto' = ip.proto
        /\ IF ip.proto = "icmp"
           THEN /\ reads' = reads \cup {[off |-> off, len |-> 20], [off |-> off + 20, len |-> 8]}
                /\ SafeBuf(5, "final")
           ELSE /\ Read(off, 20)
                /\ SafeBuf(2, IF ip.proto = "ipip" THEN "ipip" ELSE "final")
    /\ off' = off + 20
    /\ UNCHANGED <<pkt, etype, pl, opt>>

\* case IPV6: the fixed header.
Ip6 ==
    /\ pc = "l3" /\ etype = "ip6"
    /\ \E ip6 \in ReadAt(off, "ip6") :
        /\ pl' = ip6.plen /\ proto' = ip6.proto
    /\ Read(off, 40)
    /\ off' = off + 40
    /\ SafeBuf(2, "ext")
    /\ UNCHANGED <<pkt, etype, opt>>

\* One iteration of the extension header loop.
ExtStep ==
    /\ pc = "ext" /\ proto \in {"hop", "frag"}
    /\ \E h \in ReadAt(off, "ext") :
        /\ Read(off, IF proto = "frag" THEN 1 ELSE 2)
        /\ off' = off + ExtSize(proto, h)
        /\ pl' = (pl - ExtSize(proto, h)) % U16
        /\ proto' = h.next
        /\ SafeBuf(IF proto = "hop" THEN 0 ELSE 1, "ext")
    /\ UNCHANGED <<pkt, etype, opt>>

\* rte_ipv6_get_next_ext() < 0: the loop ends; ICMPv6 is formatted.
ExtEnd ==
    /\ pc = "ext" /\ proto \notin {"hop", "frag"}
    /\ pc' = IF proto = "icmp6" THEN "icmp6" ELSE "final"
    /\ UNCHANGED <<pkt, off, etype, proto, pl, opt, reads, used>>

\* trace_icmp6() up to its option loop: the switch on icmp6->type moves
\* offset past struct icmp6 and the type's header, payload_len loses them
\* (the default case sets it to 0), and the neighbour discovery cases
\* point opt at the first option.
Icmp6Start ==
    /\ pc = "icmp6"
    /\ \E h \in ReadAt(off, "icmp6") :
        LET t == h.type IN
        /\ Read(off, 4 + (IF t \in Known THEN BodyRead[t] ELSE 0))
        /\ off' = off + 4 + (IF t \in Known THEN Body[t] ELSE 0)
        /\ pl' = IF t \in Known THEN (pl - 4 - Body[t]) % U16 ELSE 0
        /\ opt' = (t \in WithOpts)
    /\ SafeBuf(2, "opts")
    /\ UNCHANGED <<pkt, etype, proto>>

\* Mutant: the loop runs while payload_len > 8.
LoopGuard_gt8(p, o) == p > 8 /\ o

\* Mutant: the loop ignores payload_len.
LoopGuard_any(p, o) == p >= 0 /\ o

\* while (payload_len >= 8 && opt != NULL)
LoopGuard(p, o) == p >= 8 /\ o

\* One iteration: print the option at offset, advance offset and shrink
\* payload_len by opt->len * 8, point opt at the new offset.
OptStep ==
    /\ pc = "opts"
    /\ LoopGuard(pl, opt)
    /\ \E h \in ReadAt(off, "opt") :
        /\ Read(off, 2)
        /\ off' = off + h.len * 8
        /\ pl' = (pl - h.len * 8) % U16
    /\ SafeBuf(1, "opts")
    /\ UNCHANGED <<pkt, etype, proto, opt>>

\* The loop exits and trace_icmp6() returns.
OptEnd ==
    /\ pc = "opts"
    /\ ~LoopGuard(pl, opt)
    /\ pc' = "final"
    /\ UNCHANGED <<pkt, off, etype, proto, pl, opt, reads, used>>

\* case ARP.
Arp ==
    /\ pc = "l3" /\ etype = "arp"
    /\ Read(off, 28)
    /\ SafeBuf(2, "final")
    /\ UNCHANGED <<pkt, off, etype, proto, pl, opt>>

\* default: the ether type only.
OtherType ==
    /\ pc = "l3" /\ etype \notin {"ip4", "ip6", "arp"}
    /\ SafeBuf(2, "final")
    /\ UNCHANGED <<pkt, off, etype, proto, pl, opt, reads>>

\* The packet length, then LOG(NOTICE).
Final ==
    /\ pc = "final"
    /\ SafeBuf(1, "done")
    /\ UNCHANGED <<pkt, off, etype, proto, pl, opt, reads>>

Init ==
    /\ pkt \in Packets
    /\ off = 0
    /\ etype = "other"
    /\ proto = "other"
    /\ pl = 0
    /\ opt = FALSE
    /\ reads = {}
    /\ used = 0
    /\ pc = "eth"

Next ==
    \/ Eth \/ Ip4 \/ Ip6 \/ ExtStep \/ ExtEnd \/ Arp \/ OtherType
    \/ Icmp6Start \/ OptStep \/ OptEnd \/ Final

\* The call runs on a datapath worker that is never descheduled.
Spec == Init /\ [][Next]_vars /\ WF_vars(Next)

-----------------------------------------------------------------------------
(* Properties.                                                             *)

\* On a packet whose length fields are right, the log reads exactly the
\* headers the packet holds: none skipped at the end of an option list or
\* an extension header chain, none read from option data or padding.
HeadersTraced == pc = "done" => {r.off : r \in reads} = DOMAIN pkt.hdr

\* Every header read lies inside the packet: the walk, driven by the length
\* fields of the packet, never reads past the end of the mbuf.
ReadsInPacket == \A r \in reads : r.off + r.len <= pkt.size

\* trace_log_packet() returns, with its line or with an error: a loop that
\* does not advance (a zero option length) ends when the buffer is full.
Terminates == <>(pc \in {"done", "err"})
====
