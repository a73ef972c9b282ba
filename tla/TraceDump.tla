------------------------------ MODULE TraceDump ------------------------------
(***************************************************************************)
(* gr_trace_dump() of src/modules/infra/datapath/trace.c writing one       *)
(* traced packet into the caller's buffer buf[len]: a header line, one     *)
(* line per trace item (the node name, then the text of the node's         *)
(* trace_format callback), free_trace(), and an empty line.                *)
(*                                                                         *)
(* Text is abstracted to its length.  A write is a call                    *)
(* func(buf + n, len - n, ...) where len - n is a size_t: once n passes    *)
(* len the size wraps to nearly SIZE_MAX and the callee writes freely.    *)
(* The formatters are those of trace.c: trace_arp_format returns what      *)
(* snprintf() returns, the length the text would have had;                 *)
(* trace_ip_format and trace_ip6_format return -1 when their text is cut.  *)
(***************************************************************************)
EXTENDS Integers, Sequences

CONSTANTS
    BufLen,      \* len, the size of buf
    SizeMax,     \* SIZE_MAX + 1, the modulus of size_t
    Chains,      \* the chains the ring may hold: sequences of formatter kinds
    NameLens     \* lengths of the node names rte_node_id_to_name() returns

Kinds == {"none", "arp", "ip", "ip6"}

VARIABLES
    chain,       \* the chain dequeued, <<>> when the ring was empty
    i,           \* the item being printed
    n,           \* n
    hi,          \* one past the highest byte of buf written
    freed,       \* free_trace(head) has run
    ret,         \* the value returned
    pc

vars == <<chain, i, n, hi, freed, ret, pc>>

-----------------------------------------------------------------------------
(* Lengths of the texts.                                                   *)

Digits(x) == IF x < 10 THEN 1 ELSE IF x < 100 THEN 2 ELSE 3

\* ip_proto_str(): <<length of the name, protocol number>>.
KnownProtos ==
    {<<6, 0>>, <<4, 1>>, <<4, 2>>, <<4, 4>>, <<3, 6>>, <<3, 17>>, <<4, 41>>,
     <<9, 43>>, <<8, 44>>, <<3, 47>>, <<3, 50>>, <<2, 51>>, <<3, 92>>,
     <<6, 58>>, <<6, 59>>, <<7, 60>>, <<4, 132>>, <<3, 255>>}

\* ip_proto_format(): "%s(%d)" for a known protocol, "%d" for another.
ProtoLens ==
    {p[1] + 2 + Digits(p[2]) : p \in KnownProtos}
    \cup {Digits(x) : x \in (0..255) \ {p[2] : p \in KnownProtos}}

\* Dotted IPv4 addresses, inet_ntop() IPv6 addresses, MAC addresses.
Ip4Lens == 7..15
Ip6Lens == 2..39

\* "<src> > <dst> ttl=<ttl> proto=", then ip_proto_format().
IpFmtLens(a) ==
    {s + 3 + d + 5 + t + 7 + p : s \in a, d \in a, t \in 1..3, p \in ProtoLens}

\* trace_arp_format(): request, reply, or another opcode.
ArpLens ==
    {16 + t + 7 + s : t \in Ip4Lens, s \in Ip4Lens}
    \cup {6 + s + 7 + 17 : s \in Ip4Lens}
    \cup {7 + d : d \in 1..5}

FmtLens(k) ==
    CASE k = "arp" -> ArpLens [] k = "ip" -> IpFmtLens(Ip4Lens)
      [] k = "ip6" -> IpFmtLens(Ip6Lens) [] OTHER -> {0}

-----------------------------------------------------------------------------
(* The writes.  A state of the text is [n, hi, err].                       *)

\* len - n as a size_t.
Size(x) == (BufLen - x) % SizeMax

\* Bytes snprintf() stores for a text of k characters into size s.
Stored(k, s) == IF s = 0 THEN 0 ELSE IF k < s THEN k + 1 ELSE s

\* A callee writing k characters at n (one past the last byte it stores).
Wrote(st, k) == IF st.hi >= st.n + Stored(k, Size(st.n)) THEN st.hi
                ELSE st.n + Stored(k, Size(st.n))

\* SAFE_BUF(snprintf, len, ...) of a text of k characters: the call, then
\* err: when the result does not fit the size it was given.
Put(st, k) ==
    IF st.err THEN st
    ELSE [n |-> IF k < Size(st.n) THEN st.n + k ELSE st.n,
          hi |-> Wrote(st, k), err |-> k >= Size(st.n)]

\* n += strftime(buf + n, len - n, ...): 0 when the 19 characters do not
\* fit (the contents of buf are then indeterminate).
Strftime(st) ==
    [st EXCEPT !.n = IF 19 < Size(st.n) THEN st.n + 19 ELSE st.n,
               !.hi = Wrote(st, 19)]

\* What info->trace_format(buf + n, len - n, ...) returns for a text of c
\* characters: snprintf()'s result, or -1 when trace_ip*_format()'s
\* SAFE_BUF() finds it cut.
FormatResult(k, c, s) == IF k = "arp" \/ c < s THEN c ELSE -1

\* n += info->trace_format(buf + n, len - n, t->data, t->len): unchecked.
AddFormat(st, k, c) ==
    IF st.err THEN st
    ELSE [st EXCEPT !.n = st.n + FormatResult(k, c, Size(st.n)),
                    !.hi = Wrote(st, c)]

-----------------------------------------------------------------------------

\* The end of a step: err: returns -1, or the walk goes on at next.
Go(st, next) ==
    /\ n' = st.n /\ hi' = st.hi
    /\ IF st.err THEN pc' = "done" /\ ret' = -1 ELSE pc' = next /\ UNCHANGED ret

\* rte_ring_dequeue() and the header: the time, the nanoseconds (%09lu)
\* and " cpu %u ---------\n".
Header ==
    /\ pc = "deq"
    /\ IF chain = <<>>
       THEN pc' = "done" /\ ret' = 0 /\ UNCHANGED <<n, hi>>
       ELSE \E d \in 1..3 :
              Go(Put(Put(Strftime([n |-> n, hi |-> hi, err |-> FALSE]), 9), 16 + d), "item")
    /\ UNCHANGED <<chain, i, freed>>

\* One turn of while (t): "%s:", then " " and the trace_format text when
\* the node has one, then "\n".
Item ==
    /\ pc = "item" /\ i <= Len(chain)
    /\ \E nl \in NameLens, c \in FmtLens(chain[i]) :
         LET st0 == Put([n |-> n, hi |-> hi, err |-> FALSE], nl + 1)
             st1 == IF chain[i] = "none" THEN st0
                    ELSE AddFormat(Put(st0, 1), chain[i], c)
         IN  Go(Put(st1, 1), "item")
    /\ i' = i + 1
    /\ UNCHANGED <<chain, freed>>

\* The loop ends: free_trace(head), then the empty line, and return n.
Finish ==
    /\ pc = "item" /\ i > Len(chain)
    /\ freed' = TRUE
    /\ LET st == Put([n |-> n, hi |-> hi, err |-> FALSE], 1) IN
       /\ n' = st.n /\ hi' = st.hi /\ pc' = "done"
       /\ ret' = IF st.err THEN -1 ELSE st.n
    /\ UNCHANGED <<chain, i>>

Init ==
    /\ chain \in Chains \cup {<<>>}
    /\ i = 1 /\ n = 0 /\ hi = 0
    /\ freed = FALSE /\ ret = 0
    /\ pc = "deq"

Next == Header \/ Item \/ Finish

\* The control thread runs the call to its end.
Spec == Init /\ [][Next]_vars /\ WF_vars(Next)

-----------------------------------------------------------------------------
(* Properties.                                                             *)

\* No byte is written outside buf[0 .. len - 1], whatever the formatters
\* return (trace.c:522 adds a formatter's result to n unchecked).
WritesInBuffer == hi <= BufLen

\* A chain gr_trace_dump() dequeued is freed before it returns (spec
\* section 4.H: the consumer formats each item and frees the chain).
ChainFreed == (pc = "done" /\ chain # <<>>) => freed
====
