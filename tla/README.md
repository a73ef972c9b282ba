# TLA+ models of grout

This directory holds TLA+ models of the parts of grout (the DPDK graph
router under `../src`) where the order of events matters. TLC checks them.
Every module translates the C code at the lines `PROJECT.json` ("map") gives
for each definition. A few definitions stand for code that is not under
`src/` (the interface table, the SNAT44 and RIB subsystems, the rte_ring
dequeue, the `SAFE_BUF` macro). They are modelled from `spec.md` and marked `spec_modelled`.

## The system and how its parts interact

grout runs two kinds of threads:

- **The control thread** runs a libevent loop (`src/main/main.c`). It
  accepts API clients on a UNIX socket, reads one request at a time, calls
  the handler registered for the request type (`src/main/control.c`), and
  sends the response. Handlers and interface-type callbacks (for example the
  bond type in `src/modules/infra/control/bond.c`) run to completion on this
  thread. Every handler is therefore one atomic step of the models.
- **Datapath workers** are lcores that busy-poll their ports and run graph
  nodes. When packet tracing is on, they build a chain of trace items for
  each mbuf (`gr_mbuf_trace_add`) and push the chain head onto the
  `traced_packets` rte_ring when the packet leaves the graph
  (`gr_mbuf_trace_finish`).
- **Where the two meet:** the control thread pops chains off that ring for
  `gr_trace_dump` and `gr_trace_clear`. The trace log (`trace_log_packet`
  and `trace_icmp6` in `trace.c`) prints a packet's headers on the worker
  that handles it.

Modules register with constructors before `main()`. `modules_init` then
sorts them by priority and initialises them. Interface types, the event bus
and the RIB/NAT subsystems are called from the handlers.

## Modules

| module | code | state (VARIABLES) | actions |
|---|---|---|---|
| `Bond` | `bond.c`, `gr_bond.h` | bond ids, each port's UP/RUNNING/ACTIVE bits, `bond_iface_id` back-link and MAC filter (a bag: the port refcounts addresses), each interface's MTU, and each bond's members, primary, active member, MAC and extra MACs | `CreateBond` (`bond_init`), `ReconfigBond` (`bond_reconfig`, its stages in order: old MAC removal, members, primary, active selection, MAC set), `DestroyBond` (`bond_fini`), `BondMacAdd/Del/Set`, `BondUpDown`, `BondMtuSet` (`bond_mtu_set`), `LinkStatus` (`bond_event`), plus `PortSetUpDown` (the port's own API) |
| `TraceRing` | `trace.c` (trace store) | the item mempool (a bag, so a double free is visible), `STAILQ_NEXT` links, ring slots, `prod`/`cons` counters modulo `Wrap`, each (worker, mbuf) chain, and a program counter per thread | `TraceAdd` (the pool loop, including freeing the oldest chain when the pool is empty), `TraceFinish` (enqueue; when the ring is full, drop the oldest chain and retry), `WorkerBusy` (the steps inside a call), `DumpStart`/`DumpFree`, `ClearStart`, `DeqLoad`/`DeqClaim` |
| `TraceQueue` | spec section 4.H (the trace store's promise) | the item pool, the chain each packet is building, the bounded FIFO of finished chains, the chain being shown | `Add`, `Finish`, `Drop`, `Take`, `Release` |
| `TraceLog` | `trace.c` `trace_log_packet`, `trace_icmp6` | the packet (its length and its headers by offset), `offset`, `ether_type`, `proto`, `payload_len` (uint16), `opt`, the header reads made, the buffer units written, the program counter | `Eth` (Ethernet and VLAN), `Ip4` (including the IPIP `goto ipv4`), `Ip6`, `ExtStep`/`ExtEnd` (the extension header loop), `Icmp6Start` (the type switch), `OptStep`/`OptEnd` (the option loop), `Arp`, `OtherType`, `Final` |
| `TraceDump` | `trace.c` `gr_trace_dump` and the text formatters | the chain dequeued (its items' formatter kinds), the item being printed, `n`, the highest byte of `buf` written, whether `free_trace()` ran, the value returned, the program counter | `Header` (dequeue, `strftime`, nanoseconds, cpu), `Item` (one turn of the item loop: the node name, the formatter's text added to `n` unchecked, the newline), `Finish` (`free_trace(head)` and the empty line) |
| `ApiServer` | `main.c` | each client's connection, bytes written and responses read, the two socket directions, the listen backlog, the descriptor table, read events and pending write events, the requests dispatched, whether the reactor was torn down and the teardown's `close()` calls | `ListenCb`, `ApiReadCb` (header read, payload read, dispatch, send or arm write event, close paths), `ApiWriteCb`, `Teardown` (the `shutdown:` label's `ev_listen` finalizer and `ev_close()`); clients `Connect`, `ClientWrite`, `ClientRecv`, `ClientClose` |
| `Registry` | `control.c` | the modules and handlers lists (`LIST_INSERT_HEAD`), the phase, and the init/fini callbacks called | `br_register_module`, `br_register_api_handler` (ABORT on duplicate), `modules_init`, `modules_fini` (qsort as every ordering the comparator allows) |
| `Daemon` | `main.c` `main`, `parse_args`, `listen_api_socket`, composed with `Registry` | where `main()` is, the file at the socket path (none, ours, another instance's, stale), the listener's state and its `close()` count, `ev_listen`, `ev_base`, `err`, `ret`, the `sd_notify` messages sent, and the other instance | `Ctor`/`EnterMain` (constructors), `StartMain` (locale, libevent threads, `ParseArgs`, `dpdk_log_init`), `DpdkInit`, `EventBaseNew` (with `modules_init`), `ListenApiSocket`, `RegisterSignals`, `Dispatch`, `Shutdown` (with `modules_fini` and `DpdkStop`), `Kill`; the other instance's `OtherStart`/`OtherStop` |
| `Dnat44` | `ip/api/dnat44.c` | DNAT nexthops in the RIB, static SNAT44 rules, the last reply | `dnat44_add` (found/conflict/idempotent cases; nexthop, RIB and SNAT steps, each of which may fail, and the `fail:` rollback), `dnat44_del` |

How the models abstract the code:

- **TraceRing, the ring dequeue.** The SC dequeue of the ring is two steps.
  The load of `cons.head` is separated from the store of the new head and
  the read of the slot, because a `RING_F_SC_DEQ` ring takes no atomic
  operation on dequeue. The MP/RTS enqueue and the mempool get/put are
  atomic, as in DPDK.
- **TraceRing refines TraceQueue.** `TraceRing` instantiates `TraceQueue`
  (`Queue == INSTANCE TraceQueue WITH ...`). The mapping:
  - the pool is the set of items in the mempool;
  - a packet's chain is the `STAILQ` list from its head item;
  - the queue is the list of chains in the ring slots, oldest first;
  - the shown chain is the one the dump holds.

  `QueueRefinement` (`Queue!QSpec`) is checked as a temporal property.
- **TraceLog, packets.** A packet is its length and a map from offsets to
  header records. A read of a header kind at an offset holding no such
  header (option data, or memory past the packet) may return any record
  of that kind (`GarbageOf`). Header sizes are those of RFC 791, 8200,
  4443 and 4861; the structs are defined outside `src/`.
- **TraceLog, the text.** Every `SAFE_BUF()` append is one unit of the
  `BUFSIZ` buffer (`BufUnits = 12`). `SAFE_BUF` jumps to `err:` when a
  write does not fit. That check is what ends the walk on a zero-length
  option: the loop repeats until the buffer is full.
- **TraceLog, extension headers.** `rte_ipv6_get_next_ext` (DPDK) returns
  8 bytes for a fragment header and `(len + 1) * 8` for hop-by-hop. The
  other extension types have the same shape as hop-by-hop and are not
  enumerated.
- **Daemon, failures.** Every library call of `main()` that can fail is
  a disjunct that takes the goto of its call site; errno values are one
  flag. `ParseArgs` translates `parse_args()` over command lines of
  `getopt_long()` results. Of the other instance only what it does to the
  socket path is kept. `Registry` is instantiated with the same variables
  (`Reg == INSTANCE Registry`), and its actions run inside `main()`'s.
- **TraceDump, text as lengths.** A text is its length. The lengths a
  formatter can produce are computed from its format string:
  `ip_proto_str()`'s names, dotted IPv4 and `inet_ntop()` IPv6
  addresses, and the three cases of `trace_arp_format()`. A write
  `func(buf + n, len - n, ...)` takes `len - n` as a `size_t` (modulo
  `SizeMax`). `SAFE_BUF` (defined outside `src/`) goes to `err:` when the
  result does not fit. `trace_arp_format()` returns `snprintf()`'s result;
  `trace_ip_format()` and `trace_ip6_format()` return -1 when cut.
- **TraceRing, the dump buffer.** `DumpFits` is the number of trace items
  whose text fits the buffer given to `gr_trace_dump()`. A longer chain
  takes `err:`, which skips `free_trace(head)`.
- **Registry, comparators.** `init_prio - init_prio` is an `int`
  subtraction, wrapped to `IntBits` bits (`ToInt`). `qsort()` with a
  comparator that is not a consistent order (`Consistent`) may return any
  permutation; with one that is, any permutation it sorts.
- **ApiServer, streams.** A stream is a sequence of units: one header, then
  `PayUnits` payload units. A response is one unit of the socket buffer,
  which holds `SndBuf` of them.

The `MC_*` modules give the constants values for TLC. They define model
values, small sets, symmetry sets and named state bounds.

## Runs

The `.cfg` files and `PROJECT.json` ("runs") list the runs.

Passing runs (TLC finds no error):

- **`MC_Bond_select`**:
  - Setup: one bond, two ports of MTU 1500 or 9000, every
    create/reconfig/destroy/up-down/MTU/link sequence; any member may refuse
    an MTU.
  - `MembersLinked`: the members of a bond and the ports whose
    `bond_iface_id` names it are the same set.
  - `EventSelection`: after a link event the active member is the one the
    ACTIVE_BACKUP rule picks: the primary if it is eligible, otherwise the
    first eligible member.
  - `MtuOnMembers`: when `bond_mtu_set()` changes the bond's MTU, every
    member has it. A member that refuses leaves the bond's MTU unchanged
    (the members before it keep the new one), and a request for 0 takes
    the first member's MTU and sets the others to it.
- **`MC_Bond_macs`**:
  - Setup: one port (listed once or twice as a member), two user MACs, a
    one-entry port filter.
  - `MacPropagation`: a MAC the bond records is in every member's filter.
    The operations in question are `bond_mac_add`, `bond_mac_set` and the
    MAC stage of reconfig.
- **`MC_TraceRing_store`**:
  - Setup: one worker, the control thread dumping and clearing, four
    items, a four-slot ring (capacity 3), chains of up to two items,
    counters modulo 8 so that they wrap. Up to three chains wait in the
    ring, so the order in which they leave it matters; the ring fills
    while a chain is built (ENOBUFS) and the pool runs dry. The constraint
    `OneDequeuer` limits the exploration to states where at most one
    thread is dequeuing; the race between two dequeuers is the subject of
    `MC_TraceRing_race`. `VIEW LiveView` identifies states that differ
    only in values no later step reads (ring slots outside `cons..prod`,
    the links of free items, the `cons.head` copy of a thread that is not
    dequeuing, the mbuf of an idle worker).
  - `ItemsOwnedOnce`: every item is in exactly one place (the pool, a
    chain being built, a ring chain, or the chain being dumped), and the
    dump frees exactly what it took.
  - `TraceCallsReturn`: every trace call of the worker returns, also
    while the control thread holds a chain.
  - `QueueRefinement`: with a single dequeuer at a time, the ring, links
    and mempool implement the abstract FIFO of chains (`TraceQueue`):
    chains enter whole in `gr_mbuf_trace_finish()` order and leave oldest
    first, whether the worker's oldest-drop, the dump or the clear takes
    them, and the queue never exceeds its capacity.
- **`MC_TraceLog_packets`**:
  - Setup: every packet shape of `MC_WellFormed`. That is Ethernet with
    the VLAN tag absent, stripped or in the frame; IPv4 (ICMP or other,
    alone or in IPIP); IPv6 with up to two extension headers, then ICMPv6
    with up to two options of lengths 1-3, or another protocol; ARP; and
    another ether type. Added to these are neighbour discovery messages
    ending in a zero-length option.
  - `HeadersTraced`: a completed log read exactly the packet's headers.
  - `ReadsInPacket`: it reads inside the packet.
  - `Terminates`: it returns, including on a zero-length option.
- **`MC_ApiServer_serve`**:
  - Setup: two clients that write each request with one `send()`
    (`WholeWrites = TRUE`, so a payload never arrives short), two
    descriptors, a one-response socket buffer (EAGAIN happens). Requests
    that arrive in pieces are the subject of `MC_ApiServer_split`.
  - `RequestsAnswered`: every request a connected client sent is answered,
    unless the daemon is stopped first (a stop discards pending responses,
    spec section 5).
- **`MC_Daemon_life`**:
  - Setup: three modules (two with equal init priority, one without a
    fini) and two handlers registered in every constructor order; command
    lines of up to two arguments; a stale socket file or none at start;
    a second grout process on the same path.
  - `ModuleOrder`: every non-NULL init and fini is called once, in
    priority order, all inits before any fini, and only when `main()`
    reaches `modules_init()` and `modules_fini()`.
  - `CleanStop`: a daemon stopped by a signal exits 0 after READY then
    STOPPING (and no ERRNO), has run the fini pass, has closed its
    listener exactly once, and has left no socket file of its own.
- **`MC_Dnat44_rules`**:
  - Setup: one interface, distinct replace addresses, a conflicting
    non-DNAT nexthop.
  - `RulesConsistent`: DNAT and SNAT rules stay paired.
  - `FailedRequestsChangeNothing`: a failed request changes nothing.

Runs that find a violation (each is a finding in `PROJECT.json`):

- **`MC_TraceRing_race` (`ItemsOwnedOnce`).**
  - The ring is created `RING_F_SC_DEQ` (`trace.c:564`).
  - But the worker's oldest-drop (`trace.c:465`, `493`) and the control
    thread's dump (`509`, `540`) both dequeue.
  - Both load the same `cons.head` and both free the same chain, so the
    pool gets its items twice.
- **`MC_TraceRing_leak` (`TraceCallsReturn`).**
  - The dump's buffer holds the text of one item (`DumpFits = 1`).
  - A two-item chain makes a `SAFE_BUF()` fail; `gr_trace_dump()` returns
    -1 through `err:` (`trace.c:534`) without reaching `free_trace(head)`
    (`528`), and the chain's items are in neither the ring nor the pool.
  - The worker's next `gr_mbuf_trace_add()` finds the pool and the ring
    empty and loops forever (`trace.c:463-467`).
- **`MC_TraceDump_overflow` (`WritesInBuffer`).**
  - A 128-byte buffer, a chain of a node without formatter and an ARP
    node.
  - `trace_arp_format()` returns the length its text would have had, and
    `trace.c:522` adds it to `n` unchecked: `n` passes `len`, `len - n`
    wraps, and the `SAFE_BUF("\n")` after it writes past `buf`.
- **`MC_ApiServer_fdreuse` (`OwnResponses`).**
  - A pending write event is not freed when its connection closes
    (`main.c:264-268`).
  - `accept4()` reuses the descriptor, and the old response goes to the
    new client.
- **`MC_Daemon_socket` (`SocketReachable`).**
  - A second grout is started on the path of one that is serving. Its
    `bind()` fails with EADDRINUSE, or an earlier step such as
    `event_base_new()` fails.
  - Either way it reaches the `shutdown:` label, whose `unlink()`
    (`main.c:425`) removes the running daemon's socket file. The running
    daemon keeps serving on a socket no client can reach.

A zero-length ICMPv6 option does not loop forever. Each iteration appends
to the buffer, and `SAFE_BUF` returns through `err:` once the buffer is
full. `Terminates` in `MC_TraceLog_packets` covers this.

## More configurations

Some cfgs are not in the run list of `PROJECT.json`. Each shows a further
disagreement between the code and `spec.md`, and each gives a
counterexample under `tlc`:

- **`MC_Bond_assert` (`NoAssertFailure`).** A create fails on its second
  member. The first member keeps `bond_iface_id` set
  (`bond_init_new_members`, `bond.c:197-198`), and its next link event
  asserts in `bond_event`.
- **`MC_TraceLog_short` (`ReadsInPacket`).**
  - An IPv6 `payload_len` smaller than the ICMPv6 headers wraps
    (`trace.c:319`).
  - The option loop then reads option headers past the packet.
- **`MC_TraceDump_leak` (`ChainFreed`).** An IPv6 chain whose text does
  not fit returns -1 with the chain not freed: the same leak as
  `MC_TraceRing_leak`, seen in the text-level model.
- **`MC_Registry_overflow` (`ModuleOrder`).** Init priorities 20000 and
  -20000 in a 16-bit `int`: their difference overflows and the comparator
  orders them backwards (`control.c:53`). Priorities of +-2^30 do the same
  to the code's 32-bit `int`.
- **`MC_Bond_erange` (`ActiveMemberInRange`).** The members are replaced
  before the primary index is rejected (`bond.c:303-310`), and
  `active_member` is left out of range.
- **`MC_Bond_activebit` (`ActiveBitOnActiveMember`).**
  `bond_fini_old_members` does not clear `GR_IFACE_S_ACTIVE`.
- **`MC_Bond_refcnt` (`ExtraMacsProgrammed`).** A repeated reconfig with a
  zero MAC deletes the bond MAC twice (`bond.c:288-289`) and removes an
  extra MAC's filter reference.
- **`MC_Bond_shared` (`MembersLinked`).** A port of one bond can be made a
  member of another (`bond.c:181-198`).
- **`MC_TraceRing_overfill` (`RingBounded`).** Concurrent SC dequeues
  store stale consumer indices, and the ring holds more than its capacity.
- **`MC_TraceRing_spin` (`TraceCallsReturn`).** With every item on
  unfinished chains, `gr_mbuf_trace_add` loops forever (`trace.c:463-467`).
- **`MC_ApiServer_order` (`ResponsesInOrder`).** A response waiting on a
  write event is overtaken by a later response sent directly.
- **`MC_ApiServer_closes` (`TeardownClosesOnce`).** The daemon stops while
  a response waits on a write event. `ev_close()` (`main.c:350-355`)
  finalizes the read event and the write event of the same descriptor, and
  `finalize_close_fd()` closes it twice. Nothing opens a descriptor in
  between, so the second `close()` fails with EBADF. The response is not
  freed either, although spec section 5 says pending writes are freed.
- **`MC_ApiServer_split` (`WholeRequests`).** A short `MSG_DONTWAIT`
  payload read is dispatched (`main.c:204-210`).
- **`MC_Daemon_errno` (`FailureReported`).** A failing `dpdk_log_init()`
  jumps to `end:` (`main.c:373-375`), past the `ERRNO=` notification that
  every later failure sends.
- **`MC_Daemon_closes` (`ListenerClosedOnce`).** When `event_add()` fails,
  `listen_api_socket()` closes the descriptor but leaves `ev_listen` set,
  and the shutdown ladder closes it again (`main.c:339-340`, `417-418`).
- **`MC_Registry_order` (`ModuleOrder`, holds).** The registry alone,
  without `main()`; `MC_Daemon_life` checks the same property composed.
- **`MC_Registry_stable` (`InitStable`).** `qsort` may reorder modules of
  equal priority (`control.c:62`).
- **`MC_Registry_dup` (`HandlersReachable`, holds).** Registering a second
  handler for a type aborts instead of shadowing the first.
- **`MC_Dnat44_rollback` (`RulesConsistent`).** A failed add's rollback
  deletes the SNAT rule of another DNAT rule with the same
  (iface, replace) (`dnat44.c:55-57`).
- **`MC_Dnat44_wrongiface` (`RulesConsistent`).** A delete naming another
  interface of the same VRF removes the DNAT route but not its SNAT rule
  (`dnat44.c:81-82`).

## Bounds

- **Two ports and one bond** suffice for every selection case: primary
  eligible or not, last eligible member, no eligible member. Two bond ids
  (in `MC_Bond_shared` and `MC_Bond_assert`) allow a port to be claimed
  twice.
- **`Mtus = {1500, 9000}`** in `MC_Bond_select`: with two values, a
  member refusing the MTU leaves the members different, and a request for
  0 can inherit either. The other Bond cfgs use one MTU.
- **`StateBound`** caps the refcounts in the port filters at
  `MaxRefcnt = 2`; leaking references is the subject of the refcnt run.
- **`Daemon`**: two arguments reach every `parse_args()` outcome and the
  order of `-h` and `-V`. One other instance and one stale file cover
  every state the path can be in when a start reaches `bind()`.
- **The trace store:** in the store run, a ring of four slots (capacity
  3) with four items and chains of up to two reaches a full ring with a
  chain waiting, an empty pool, three chains queued in order and counter
  wrap-around (`Wrap = 8` stands for 2^32; `Wrap` is a multiple of the
  ring size, as 2^32 is). The violation runs use a ring of two slots
  (capacity 1) and three items, which is enough for their counterexamples.
- **`TraceLog`**: `BufUnits = 12` is larger than the longest well-formed
  log line of the run (11 appends), so only a runaway loop fills it. Bytes
  that are not a header stand for option lengths up to `MaxOptLen = 2` and
  extension lengths up to `MaxHlen = 1`, so garbage reads both advance and
  stall the walk.
- **`TraceDump`**: `BufLen = 128` holds a header line (45 to 47 bytes) and
  short item lines, but not every ARP line after them. Chains of up to
  three items of each kind reach both a cut formatter text and a cut
  `SAFE_BUF`. `SizeMax = 2^24` stands for 2^64: any modulus far above
  `BufLen` lets a wrapped size pass every check.
- **`IntBits = 16`** for `int` in `Registry` and `Daemon`: TLC's integers
  do not reach 2^32, and the wrap needs only priorities half the range
  apart.
- **`DumpFits = 2`** in the trace store runs, so that every chain is
  freed; `MC_TraceRing_leak` uses 1.
- **`ApiServer`** uses two clients and two descriptors, so one descriptor
  can be closed and reused. `MaxReq = 2` requests per client give a second
  response to overtake the first.

## Fairness

- **`TraceRing`**: weak fairness of each worker's steps inside a call. Workers
  are lcores pinned to a CPU that busy-poll and are never descheduled. The
  control thread gets weak fairness only for the steps inside a
  `gr_trace_dump`/`gr_trace_clear` call it has begun (`ControlBusy`): a
  call runs to completion on the event loop. It is never assumed to start
  one. A worker whose pool is empty while the dump holds a chain waits
  for that chain to be freed.
- **`TraceLog`, `TraceDump`**: weak fairness of the call, for the same reason.
- **`ApiServer`**: weak fairness of `listen_cb`, of each read callback and
  pending write event (libevent calls the callback of a ready descriptor),
  and of client reads (a client waits for its response). `Teardown` is
  not fair: the daemon stops only when a signal arrives.
- **`Bond`, `Registry`, `Daemon`, `Dnat44`**: only safety is checked, so they assume
  no fairness.

## Not modelled

- The CLI (`src/cli`, `modules/*/cli`) is a separate process that prints
  responses.
- `api/string.c` holds libc string helpers.
- `main()`: `usage()` output and the log level are not modelled.
- `core/dpdk.c` under `src/` is written against another API
  (`struct brouter`) than the `main.c` that calls `dpdk_init()`; its EAL
  setup is left out.
- `ip_error.c` builds ICMP errors without the RFC 1122 checks (no error
  about an ICMP error, trusted length). It is a stateless node: a check of
  it would be a unit test of one function.
- Of the bond, promisc/allmulti and VLAN are not modelled.
  `bond_all_members_flag()` is the member loop `BondUpDown` already models
  with the UP flag. `bond_vlan_add/del` is the loop of `bond_mtu_set` with
  nothing recorded in the bond. Nothing under `src/` reads the port
  state they write.
- `trace_fini` (clear, then free the pool and the ring) runs in the fini
  pass. Whether a worker can still touch them then depends on when the
  datapath stops, which is decided outside `src/`.
- `eth_type_format` and `eth_type_str` only call `snprintf`; `TraceLog`
  counts them as one buffer unit. The other formatters are in `TraceDump`.
- `gr_ip6.h` declares the IPv6 API messages and structs; it has no
  operations.
- IPv4 options: `TraceLog`'s IPv4 headers are 20 bytes. `trace.c:206`
  ignores IHL (a hazard in `PROJECT.json`).
- `dnat44_list` only reads.

`PROJECT.json` ("components") gives the reason for each, and its
"hazards" list records what is exposed but not yet checked.

## Plan

- Add IPv4 options to `TraceLog`'s packets (`trace.c:206` ignores IHL).
- Give `ApiServer` byte-level sends and header reads, so that short
  `send()`/`recv()` (`main.c:146`, `187`) are checked.
- Compose `Daemon`'s start-up and shutdown ladder with `ApiServer`'s
  connections. The teardown is in `ApiServer` already.
- Compose `Bond` with a model of the interface table and event bus.
- Compose `TraceDump` with `TraceRing`, so that a dump's text and its
  chain come from one model.
