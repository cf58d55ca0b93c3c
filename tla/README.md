# TLA+ models of PicoW-Demos

Models, model-checking configurations and machine-checked proofs for
`cc2698/PicoW-Demos`: programs in C for the Raspberry Pi Pico W. The main one,
`src/distance_vector/`, is a network of up to `MAX_NODES` = 5 boards without
infrastructure. Each board has one radio that is at any time either an access
point or a station. The boards number themselves and find their neighbors with a
token, route with a distance-vector exchange, and forward data hop by hop. The
other programs are its predecessor `src/neighbor_find/`, four demos that send UDP
packets (`src/UDP/`), and an access point that serves a web page
(`src/TCP/tcp_access_point/`).

## 1. The system

| Part | State | Operations | Model |
|---|---|---|---|
| Distance-vector algorithm, `distance_vector/distance_vector.c` | a node's vector and table, the vectors stored for its neighbors | init, update by a neighbor's vector, poisoned reverse, store a vector | `DistVector` |
| Routing exchange (the same, between nodes) | all nodes, the vectors on their way | learn neighbors, compose, receive, lose | `DvExchange`, proofs in `DvExchange_proofs` |
| Application, `distance_vector/main.c`, `node.c` | node record, `phase`, `target_ID`, signals, one send queue, one ack queue, one receive buffer, `next_dv_scan` | five protothreads and the receive interrupt | `PicoNetwork`, `PicoNetworkRouting`, `PicoNetworkData`, proofs in `PicoNetworkBoot_proofs` and `PicoNetwork_proofs` |
| Connection and scan, `connect.c`, `wifi_scan.c` | mode of the radio, the network joined, scan results | boot/shutdown AP and station, join, two scan callbacks | inside `PicoNetwork` |
| Packets, `packet.c` | none | compose, parse | `PacketCodec` for the text; records elsewhere |
| Preset layouts, `layout.c` | the adjacency list and array | init, checks | `Layout` |
| The older program, `neighbor_find/` | as above, without routing, phases and timers | five threads, callback, scans | `NeighborFind`, its promise `TokenWalk`, proofs in `NeighborFind_proofs` and `TokenWalk_proofs` |
| Safe semaphores, `pt_cornell_rp2040_v1_1_2.h` | `sem_lock`, a count, resume points | `PT_SEM_SAFE_WAIT`, `PT_SEM_SAFE_SIGNAL` | `PtSemSafe`, proofs in `PtSemSafe_proofs` |
| UDP demos, `UDP/` | send data, one receive buffer, one packet to acknowledge, LED flag and alarm | threads on core 0, LED on core 1, receive interrupt | `UdpSendRecv`, `UdpSendRecvAuto`, `UdpThreeConnect` |
| UDP demo on two cores, `UDP/udp_send_recv_multicore/` | a send queue with a mutex and a semaphore between the cores | send thread on core 1, the others on core 0 | `UdpMulticore`; all four demos in `UdpDemos`, proofs in `UdpDemos_proofs` |
| DHCP server, `dhcpserver/` | leases | discover, request | `DhcpServer`, proofs in `AccessPoint_proofs` |
| DNS server, `dnsserver/` | none | answer a query | `DnsServer` |
| TCP access point, `TCP/tcp_access_point/` | connection state, who frees it, what is written and not yet acknowledged | lwIP callbacks, `main()` | `TcpServer`, all three together in `AccessPoint`, proofs in `AccessPoint_proofs` |
| Motion sensor, utilities, debug programs, build files | | I/O, formatting, calculation | not modelled, see section 8 |

**How they interact.** The threads of a board share globals. `udp_recv_callback`
copies a packet into the one buffer `recv_data` and signals `new_udp_recv_s`. The
recv thread parses it, changes the node, may queue an ack (for the ack thread),
may queue a packet (for the send thread) and may tell the connect thread, with
`target_ID` and `signal_connect_thread`, whom to connect to. The connect thread
switches the radio, scans, composes a vector or token for what it found, and
joins; it blocks the board for seconds meanwhile. A packet that is queued is sent
to whichever access point the board has joined when the send thread next runs.

**What is hard here**, and which properties it led to (each at its line in
`PROJECT.json`, "hazards"):

- the scan, the join, the sending and the ack of one vector are seconds apart, and
  other packets change the same state in between;
- one-place buffers with counting semaphores: a second packet makes the second one
  count twice;
- losing an ack, or failing to join, leaves a packet queued for someone else;
- boards in station mode are invisible to each other, so progress depends on timing;
- routing must be free of loops *during* the exchange, with old vectors in buffers;
- the token must stay unique, number every board once, and visit a board's
  neighbors before the board concludes who they are;
- a semaphore whose test and decrement are outside its lock;
- a token whose loss ends the walk, scans that report the results of the scan before,
  networks found by names that hold IDs assigned a moment ago;
- interrupts and a second core amid the few globals of a UDP demo, and amid the copy
  of a packet;
- leases whose end is compared across the wrap of a 32-bit timer, clients that ask
  twice, leave, lose an answer, come back with an old address, and a server that
  restarts without memory;
- memory that lwIP still refers to when a callback frees it.

**What makes each part correct.** Algorithm and exchange: no loop, no distance too
short, shortest paths at the end. Application: one token, distinct IDs, complete
neighbors, an implementation of the abstract exchange, data that comes closer with
each hop and arrives, rest at the end. Semaphores: as many passes as signals, no
pass without one, no signal lost, no hang. Older program: it implements the walk of
one token. UDP demos: acks that answer what was sent, no message unaccounted for,
packets never mixed, silence at the end. Access point: one client per address, no
client that takes up the pool, answers that fit, connections that end.

## 2. Modules

- **`DistVector`** – the C functions as operators on one node's arrays. `UpdateVector`
  and `UpdateTable` are the two arrays after the loop of
  `update_dist_vector_by_nbr_id`; `Poisoned` is what a receiver reads from
  `dv_to_str`'s text. `MAX_NODES` is a parameter.
- **`DvExchange`** – the abstract specification. Composed vectors stay in a set and
  may be received late, repeatedly, in any order, or never. It leaves out all of
  Wi-Fi, threads and buffers, so what it satisfies does not depend on them.
- **`DvExchange_proofs`** – its theorems (section 6).
- **`PicoNetwork`** – the program. `Boards` run `Send`, `Recv*`, `Ack`, `Serial`
  (one action per packet type or command) and the connect thread, whose pass is
  split where it blocks: `EnableAp`, `EndRouting`, `StartDvScan`, `StartNfScan`,
  `StartJoin` begin one, `DvScanFound`, `DvScanNobody`, `NfScanFound`,
  `NfScanNobody`, `NfScanFails`, `NfJoin`, `Join`, `JoinTimeout` end one. `MasterBoot` is the
  scan and join of `main()`. Variables have the names of the globals and of the
  fields of `node_t`; `pc` is where the connect thread blocks. `Walk` maps the
  numbering of the boards to `TokenWalk`.
- **`PicoNetworkRouting`** – the refinement mapping to `DvExchange` and the
  properties of routes, which need the true distances `Hops`.
- **`PicoNetworkData`** – the same program with two history variables per board, which
  no action reads: what its queued packet cost it when it was queued, and what the last
  packet that arrived had cost the board it came from.
- **`PicoNetworkBoot_proofs`** – theorems about `PicoNetwork` from power-up;
  **`PicoNetwork_proofs`** – theorems about all three with routes in place, and about both
  starts together.
- **`PtSemSafe`** – the two macros, one memory access per action, in the three ways
  the programs use them (`regime`): two threads of one core, an interrupt against
  a thread, two cores.
- **`TokenWalk`** – the abstract specification of neighbor finding: a token with a
  number walks, is handed back to parents, or is lost. **`TokenWalk_proofs`** has its
  theorems.
- **`NeighborFind`** – the program of `neighbor_find/`, in the style of `PicoNetwork`:
  `Send`, `RecvData`, `RecvAck`, `RecvToken`, `Ack`, `Serial`; `WakeHost` and
  `WakeStation` begin a pass of the connect thread, `ScanFound`, `ScanNobody`,
  `ScanFails`, `Join`, `JoinFails` end its waits. What differs from `PicoNetwork` is
  what the programs do differently: the send thread waits on a semaphore, the token
  is composed after the join, there are no timers, and parents are addressed
  by an SSID composed from what a scan left behind. `Walk` maps it to `TokenWalk`.
- **`Layout`** – `adj_list`, and `conn_array` made from it, with the checks of
  `init_layout`, which all five presets pass.
- **`PacketCodec`** – texts split at semicolons, `strtok`, `copy_field`, and both
  parsers. Its assumptions are evaluated in `neighbor_find`: each header field
  comes back as it was sent, whatever the message holds, and a message is cut on its
  first hop or never. That is why packets are records in the other modules.
- **`UdpSendRecv`** – `main()` step by step, the threads, the LED of core 1 with its
  alarm, and the receive interrupt, which may come at each cut of the recv thread's
  pass: before and amid the decrement of its semaphore, and before and amid its copy of
  the packet (`Torn` is what the copy may be then). **`UdpSendRecvAuto`** adds the scan for a network, **`UdpThreeConnect`** the
  addresses of two stations, **`UdpMulticore`** the second core: mutex, copies in two
  halves, load and store of the semaphore's count. `demo` says which program runs.
  **`UdpDemos`** is the four of them together: a run is a run of one of the demos.
- **`DhcpServer`** – the server and its clients, which remember the address that was last
  acknowledged and may come back for it. **`DnsServer`** – which queries are
  answered, and the length of the answer. **`TcpServer`** – the callbacks of
  `picow_access_point.c` for each connection. **`AccessPoint`** composes them: a client
  gets an address, asks for a name, connects; `main()` starts the servers one by one;
  the board may restart at any time.
- **`PtSemSafe_proofs`**, **`NeighborFind_proofs`**, **`UdpDemos_proofs`**,
  **`AccessPoint_proofs`** – section 6.
- **`MCDvExchange`, `MCPicoNetwork`, `MCPicoNetworkData`, `MCNeighborFind`, `MCUdpDemos`, `MCAccessPoint`** –
  layouts with their hop counts, the commands and lines typed, the queries sent.

Operators headed "Mutant of X" are wrong versions of X: what a slip in that code
would look like. No specification uses them. Putting one in the place of X must
break a property, which shows that the property depends on X.

### What PicoNetwork abstracts

- *Time.* `next_dv_scan` is "never", "asap" or "later"; "later" may expire at any
  time. With `Prompt`, not while a board is handling a packet: handling takes
  milliseconds and the deadlines are 15 to 30 seconds away (`COOLDOWN_MIN`,
  `COOLDOWN_MAX`). A join, which may take longer, does not count as handling.
- *`last_contact`.* It only chooses among the neighbors that need the vector; any
  of them may be chosen. The first comparison reads through
  `routing_scan_result == NULL` (`wifi_scan.c:186`): address 0 of the RP2040 is
  the boot ROM, whose contents there exceed every time since boot, so the first
  candidate is always taken.
- *Scheduling.* The round-robin order matters in two places, `Turn` and `due`; else
  any thread that can run may. Interrupts arrive between passes; inside a
  semaphore operation they are the subject of `PtSemSafe`.
- *The ack thread runs directly after the recv thread*, so the ack queue never
  overflows. The ack goes to an address in the network that the board hosted when the
  packet came, and reaches nobody if the board is a station by then (`AckTo`). The address
  counts as that of the board it was given to: that the DHCP server of an access point
  which was off and on again gives it to another one before the ack is sent is left out,
  as is that an access point could relay between its stations.
- *The copy out of `recv_data`* is one step (`TakePacket`). In the code an interrupt may
  hit it, as in the UDP demos, where the model lets it.
- *A scan that fails to start* is a fault. `pidogs_found` is then that of the scan before,
  and the name that is joined is nobody's (`NfScanFails`); the routing scan finds nobody.
- *Strings, counters, timestamps, LEDs, prints* are left out (texts: `PacketCodec`). The decimal text of a
  vector is read back unchanged because every entry is at most 6, one digit.

### What the other models abstract

- *Typed lines.* `pt_serialin_polled` reads them character by character; `TypedLine`
  is the line as it stands at Enter.
- *`UdpSendRecv`.* A message stands for the timestamp it is sent with, because each is
  typed once. A copy that the interrupt hits is the front of the old packet and the rest
  of the new one, cut at any field; a field that is cut itself is garbled and then is no
  field of any packet (`NONE`, `NO_ADDR`). `torn` marks such a copy and the ack made from it; no
  guard reads it.
- *`DhcpServer`.* The timer counts to `WRAP` and a lease keeps its end divided by
  `UNIT`, where the code has 2^32 milliseconds and 2^16. `TimerAssumption` keeps the
  proportions that matter: a lease and its rounding are less than half a wrap, as a
  day is of 49. The clients are those of RFC 2131: each requests what it is offered, keeps
  in mind the address that was last acknowledged, whatever it is offered since, and may
  request that one when its link comes back. One message of each is under
  way. A client that goes on with an address although its link has fallen or its request
  was not answered is left out. A renewal carries no requested-IP option, and the server does not answer it, so
  every lease runs out in the end. No time passes while a message is under way or a
  connection is open: a tick is hours.
- *`TcpServer`.* Header bytes are counted in `HEADER_LEN` units; a response may be
  acknowledged in any portions. lwIP calls back in any order it may; after `tcp_close`
  it still sends what was written. The LED, the count of calls and the pbufs are left
  out.

## 3. The runs

| Run | Configuration | What it asks |
|---|---|---|
| `exchange` | `MCDvExchange.cfg`: triangle with a leaf, 4 nodes, at most 2 vectors on their way | Do loop freedom, sound distances, monotonic improvement and "settled means shortest" hold, and is `IInv` an invariant at all? 151,441 states |
| `neighbors_and_data` | `MCNeighborsAndData.cfg`: triangle 0, 1, 2 with leaves 3 and 4, 2 faults; from power-up with "token" typed, or from a finished exchange with two messages typed | Does the token number all, do all learn all neighbors, does it end, does data arrive? And with faults, is there at most one token, and are IDs distinct? 35,150 states |
| `exchange_ends` | `MCExchangeEnds.cfg`: line of 3, a vector exchange typed at one board, 1 fault | Does it come to rest, with the shortest routes? 7,625 states |
| `exchange_and_data` | `MCExchangeAndData.cfg`: line of 3, exchange and data together, 1 fault, arrivals that collide | Does the program implement `DvExchange`, is data that arrives closer than its sender was when it queued it, is `nbrs[]` never dereferenced at a hole? 186,473 states |
| `neighbor_find` | `MCNeighborFind.cfg`: LAYOUT 3 of `layout.c`, 2 faults, the token or data | Does the older program implement `TokenWalk`, does each board know all its neighbors and address its parent rightly, does the walk end? 4,887 states |
| `udp_demos` | `MCUdpDemos.cfg`: the four demos on 2 or 3 boards, 2 or 3 lines each, 1 fault, interrupts amid copies | Do acks of whole copies answer data, is a packet always signalled, is the LED timed, are packets whole, is every message accounted for, does it fall silent? 189,640 states |
| `access_point` | `MCAccessPoint.cfg`: 2 clients, 2 addresses, one of the clients browses, 10 queries | Do two clients ever share an address, can one have two leases it has forgotten, do answers fit, is what lwIP may send again kept, do connections end? 1,006,400 states |
| `sem_one_core` | `PtSemSafe.cfg`: 6 signals | Do the semaphores work on one core? 5,150 states |
| `sem_hang` | `PtSemSafeHang.cfg` | finding 1 |
| `sem_cores` | `PtSemSafeCores.cfg` | finding 2 |
| `up_to_date` | `MCUpToDate.cfg` | finding 3 |
| `no_scan_after_routing` | `MCNoScanAfterRouting.cfg` | finding 4 |

### Bounds, and why they are enough

- *Boards.* A line of three is the smallest network with a board that forwards and
  one whose route goes through it; the triangle has a choice of route and a token
  that comes to a board already numbered; the leaf makes distances of 2 through a
  cycle; with a second leaf there are five boards, all the IDs of the code, and two
  routes of two hops that do not touch, so that two messages are under way at once.
- `MaxAdverts` = 2 (a state constraint of `exchange`): two vectors under way are what
  it takes for one to overtake another. The proofs have no such bound.
- `MaxFaults` bounds what goes wrong: lost packets, failed joins where there was a
  network to join, scans that fail to start, and a neighbor that is not back in access
  point mode when it is scanned for. One or two per run: each packet, join and scan of
  the run is tried as the one that fails. Losses because nobody is linked are not faults and are unbounded.
- `MaxPending` bounds the packets in `recv_data` not yet looked at. 2 lets one
  overwrite another. `exchange_ends` has 1: with 2 finding 4 applies, and the
  exchange does not end.
- Each of `Commands` is typed at most once, at any time. For vectors, `DvCommand` is
  one board that starts the exchange; the others start theirs when a vector reaches
  them. With two that start, `RestIsShortest` is false on a line of four (finding 3).
- `MaxSignals` = 6 in `PtSemSafe`; the waiter goes round as often.
- `CHECK_DEADLOCK FALSE` everywhere in `PicoNetwork`: boards that have done
  everything idle, and that is the end state `ComesToRest` asks for. In
  `PtSemSafe.cfg` because an interrupt may hang its core, which is finding 1. In
  `NeighborFind` and the UDP demos because boards idle when all is typed and handled.
  `AccessPoint` never stops, and deadlock is checked.
- In `MCUdpDemos` two stations, or two lines of one board, are what it takes for
  packets to meet in the one receive buffer and for a line to catch up with the one
  before; more of them meet pairwise too.
- In `MCAccessPoint` two addresses and two clients let both be offered one address,
  and one client hold or want both. `WRAP` = 8, `UNIT` = 2, `LEASE_TIME` = 2 put every
  lease on either side of the wrap and of a rounding. The queries are a usual name,
  the longest that fits, ones too long by one, one cut by its packet, and headers to be
  ignored. `MaxRequests` = 2: the second request comes while the first is answered.

### Start states

`InitBoot` is `new_node` and the start of `main()`. `InitRouted` is the state after
neighbor finding when the boards were numbered in their order;
`NeighborFindingEnds` shows that neighbor finding ends in exactly it. `InitConverged`
is the state after a complete exchange that one board started (compare `RestIsShortest`);
`neighbors_and_data` starts in `InitBoot` or `InitConverged`. The others start at power-up.

## 4. Assumptions on time

- `Prompt`, above, in all runs of `PicoNetwork`.
- `AwaitAps` (`AwaitHosts` in `NeighborFind`): the wait of `AP_BOOT_TIME` before a scan
  is long enough for the board that passed the token on to get the ack and host its
  access point again; that it is not, is a fault. Then, or when that ack is lost, a board
  does not see its neighbor and never looks again. `NeighborsComplete` is therefore
  stated of behaviours without a fault; the safety of token and IDs of all.
- A token lost before it reached its next holder is not sent again. The walk stops;
  `UniqueToken`, `UniqueIDs` and `ImplementsWalk` say what remains true then.
- In the UDP demos a typed line comes when the one before has been taken
  (`PT_YIELD_usec` of 100 ms and a person typing), except between the two cores, where
  it may come at any time.

## 5. Fairness

`Scheduled` gives weak fairness to each thread of each board: the scheduler calls all
threads in turn, forever (`main.c:976-981`, `protothread_sched`), and to the end of a
scan or join, which the driver ends by itself or `connect_to_network` by its
timeout of 30 seconds. `neighbors_and_data` assumes no more. The exchange also
assumes `OutOfStep`: strong fairness of the lucky outcomes of scans and joins, because two boards that exchange vectors may scan at the same time and not see each
other, again and again. The code relies on the random cooldown between scans
(`main.c:307-309`) to make that end, and strong fairness states that it does. Typing
is never assumed. In `PtSemSafe`, weak fairness of the waiter and of each signal
that was begun. In `NeighborFind`, weak fairness of every thread and of the end of
scans and joins. In the multicore demo, weak fairness of every thread, of `main()` and of
alarms; in the other UDP demos of a board's steps as a whole, which is less. Never of
typing. In `AccessPoint` only of
lwIP's poll of a connection and of its giving up a closed one: no client has to do
anything.

## 6. The proofs

`DvExchange_proofs`, for every number of nodes, every neighbor relation and any
number of vectors under way:

- `TypeCorrect`, `InductiveInvariant`: `Spec => []TypeOK`, `Spec => []IInv`
- `NextHopCloserAlways`, `LoopFreedom`: routes have no loops, at any moment
- `SoundDistances`: no distance is shorter than the true one
- `OnlyImprovesAlways`: no late or repeated vector undoes anything
- `SettledIsShortestAlways`: once each neighbor holds what it would be sent now,
  all distances are the shortest

Assumed: `MaxNodesAssumption` (`MAX_NODES` is positive), `NbrAssumption` (nobody is
its own neighbor), `HopsAssumption` (`Hops` is 0 at the destination, an edge changes
it by at most one, and some edge realises it). They hold of any graph; TLC evaluates
them on each instance.

*The argument.* None of the properties is inductive. The invariant adds what a
vector under way has to do with its sender: distances never grow, so a vector
composed or stored earlier is nowhere below its sender's current one
(`AdvertNotBelow`, `StoredNotBelow`). Hence a route, which was taken at the price
of 1 plus a vector's entry, costs at least 1 more than its next hop's own distance now
(`RouteCost`), except the direct one to a neighbor, which costs 1. So each next
hop is strictly closer (`NextHopCloser`), and a set of nodes that route to each
other would have no smallest distance (`NoRoutingLoop`, through a lemma that a
finite set of naturals has a least element). `Relaxed`, that every node has taken
what it stores into account, and `DirectKnown`, together with poisoned reverse
adding nothing but entries too large to use, give the shortest distances at the
end; the induction is on the distance, over naturals through their least
counterexample.

`PicoNetwork_proofs`, for any layout with hop counts, any lines typed but "token", any
number of faults and of waiting packets, once the boards are numbered:

- `RoutedInvariant`, `RoutedTypeCorrect`: `SpecRouted => []RoutedInv`,
  `SpecRouted => []TypeOK`
- `NoNullNeighborAlways`: no ID without a neighbor is dereferenced
- `ImplementsExchangeProved`: `SpecRouted => ImplementsExchange`, the refinement
- `RoutesLeadCloser`, `NoLoopInNetwork`: the next hop of each board of the program is
  closer, and its routes have no loops, at any moment
- `DataMovesCloserAlways`: data that arrives is at a board that is closer to its
  destination than the sender was when it queued it
- `NeverTooCloseInNetwork`, `SettledInNetwork`: what `DvExchange` says of distances, of the
  program's boards
- `RestIsShortestUnlessStale`: boards at rest after an exchange have the shortest
  distances, if no flag `up_to_date` stands for an older vector

and for the specification of the run `neighbors_and_data`, which starts at power-up or
with routes:

- `NetworkInvariant`, `NetworkTypeCorrect`, `NetworkUniqueToken`, `NetworkUniqueIDs`,
  `NetworkNeighborsComplete`: from either start

Assumed: `MaxNodesAssumption`, `BoardsAssumption`, `NoneAssumption` (a model value is no
board and no packet), `RoutingAssumption` (all IDs are boards, `Hops` is the distance in
the graph of the ranges, and each board but 0 has a neighbor with a smaller number, as a
board that a token reached has: the start state `InitRouted` is one that a token left),
and, for the two starts, `TokenAssumption`.

*The argument.* With the boards numbered and no token typed, the actions of neighbor
finding cannot happen, and each other one changes one board and what it sends to one
other. `RoutedInv` says of every board what its radio, its queue and its buffer may hold
together. The part that matters is `SendOK`: a queued vector goes to the board it was
composed for. It is so because whatever is queued while the board is linked, or about
to join, is for the board at the other end (`Bound`), and a lost ack or a failed
join leaves it queued without changing for whom it is. `RecvOK` and `AckOK` say
the same of what has arrived. The refinement then goes action by action: `RecvDv` is
`Receive`, `DvScanFound` composes and is `Advertise`, which may replace a vector that
waits, and all else is `Lose` or a stutter. The invariants of `DvExchange` that bear on
routes are shown once more, over its actions, as facts of this module (`RoutesKeep`):
tlapm cannot cite a theorem of a module that is instantiated with a substitution.
For data, `Priced` says that a queued packet costs its board no more than when it was
queued, and the board it is bound for strictly less than that. Distances never grow, so
time cannot spoil either.

*Rest.* `LearnedOK` carries the invariants of `DvExchange` about vectors over to the
program: what is stored or under way is nowhere below the distances of its sender now, and
each board has taken into account what it stores. So if each neighbor of each board
holds its vector, the distances are shortest (`SettledInNetwork`). At rest they hold it
because of `Quiet`: a board has a scan ahead of it, or every neighbor's flag `up_to_date`
is set (`Served`), or it takes no part in an exchange yet and all its flags are clear
(`Untouched`). A neighbor that holds somebody's vector has been reached, so from the
board where an exchange was typed all are served. What is left is
that a flag may be set for a neighbor that has an older vector, which is finding 3
and the hypothesis `UpToDateMeansHolds` of the theorem. The hypothesis is about the last
state only. TLC reaches states at rest after an exchange in which it holds.

*Properties that were false.* `RestIsShortest` has no such hypothesis. It holds of every
instance checked in which one board starts the exchange: the run `exchange_ends`, a line of
four, a ring of four, a triangle with a leaf. When two boards start, TLC finds a
line of four at rest with a board that has no route, since its neighbor marked it as up to
date when it acknowledged an older vector. So finding 3 has that consequence, and the
theorem needs its hypothesis.

An earlier form of `DataMovesCloser` compared the board that data arrived at with the sender as it is *now*. It held on the line of three, where
no route changes once it is there. The proof failed at a sender that learns a shorter
way while its packet waits in the queue for the old next hop, and TLC then found the case
on a ring of five. The code is right to send: the packet does come closer than it was. The
property now says that, with the history variables of `PicoNetworkData`.

`PicoNetworkBoot_proofs`, for any boards, any symmetric ranges, any number of faults and
of waiting packets, from power-up (`SpecBoot`):

- `BootInvariant`, `BootTypeCorrect`: `SpecBoot => []IInv`, `SpecBoot => []TypeOK`
- `BootImplementsWalk`: `SpecBoot => ImplementsWalk`: this program, too, implements the
  walk of one token
- `BootUniqueToken`, `BootUniqueIDs`: one token, no ID twice
- `NothingSpoiled`, `BootNeighborsComplete`: without a fault, a board that believes to know
  its neighbors knows all in range

Assumed: `MaxNodesAssumption`, `BoardsAssumption`, `NoneAssumption`, and `TokenAssumption`:
"token" is typed at the master, once. The program has no guard against a second one, which
would be a second token with the same number; in `SpecBoot` nothing else is typed, since
vectors and data are for boards that have been numbered.

*The argument* is that of `NeighborFind_proofs`, below, for a program with timers, a send
signal instead of a semaphore, and a scan whose result is the next holder. Each board is in
one of eleven phases (`Phase`): waiting, at the scan of `main()`, with a token that has
arrived, with the next token queued and the ack due, woken to scan, scanning or joining,
told to go home, linked and about to send, with its ack received, about to host again, or
hosting with a token that it cannot get rid of. At most one board is in a phase that holds
the token (`OneHolder`). `IDsOK`, `NamesOK`, `NumbersOK` and `LinksOK` say what makes this
inductive: the number on the token is the number of boards that have an ID; a network that shows
itself as pidog has none, or has the token queued; a link leads to where
the token may go and no two boards are linked to one. The refinement to `TokenWalk`
follows: `Serial` is `Start`, `RecvToken` is `Number` or `Return`, a send that is lost and a
scan that leaves the master with nobody are `End`, and all else moves nothing.
`CompleteInv` is `Awaited` and `Listed`: while nothing has failed, whoever is not hosting
while another board has the token is about to host or waits for that board's ack, so each
scan sees all neighbors.

`TokenWalk_proofs`, for any set of boards, any ranges and any master among them
(`MasterIsABoard`):

- `WalkIInv`: the inductive invariant
- `WalkUniqueIDs`: no two boards have one ID, wherever the token is lost
- `WalkParentsLeadHome`: every numbered board but the master has a numbered parent that
  sees it and whose ID is smaller

That IDs are distinct is not inductive: a token could hold a number that is taken. The
invariant adds that there is one token, that its number is above every ID, and
that the board that has it has an ID itself. `NeighborImplementsWalk`, next, carries
these theorems to the threads and buffers of `neighbor_find/`.

`NeighborFind_proofs`, for any set of boards, any symmetric ranges, any number of
faults and of waiting packets:

- `NeighborInvariant`, `NeighborTypeCorrect`: `Spec => []IInv`, `Spec => []TypeOK`
- `NeighborImplementsWalk`: `Spec => ImplementsWalk`, the refinement
- `NothingSpoiled`: what holds as long as nothing has failed
- `NeighborsAllKnown`: without a fault, a board that has searched knows all neighbors
- `ParentIsFound`: without a fault, the token goes back to the network of the parent

Assumed: `NeighborFindAssumption` (the ranges are symmetric, board 0 is the master),
`SessionsAssumption` ("token" is typed at the master, once, and in a run with nothing
else, for the reason in section 7), `NoneAssumption` (a model value is none of the data).

*The argument.* The invariant follows the token. Every board is in one of nine phases
that say what its queues, signals and connect thread may hold together: idle, at the
scan of `main()`, with a token that has arrived, with the ack for it due, woken to
search, searching, with the next token queued, with its ack received, about to host
again. At most one board is in a phase that holds the token (`OneHolder`). What makes that
inductive is what it says of the rest: IDs are distinct and below the number of boards
that have one, which is the number the token carries (`IDsOK`, `NumbersOK`); a network
that shows itself as pidog has no ID (`NamesOK`); a link leads from the board with a
token to where the token may go, and a board that was joined is joined by one
(`LinksOK`); and what a scan chose is a board in range, or one that has the name of the
parent (`SeekingOK`). In a session without a token there is none (`DataInv`). Each action
then is a step of `TokenWalk` (`Start`, `Number`, `Return`, `End`) or a stutter; most
are stutters that hand the one token from a queue to a buffer or to the connect
thread. `NothingSpoiled` adds, while there was no fault, that whoever is not hosting
while another has the token is about to or waits for its ack (`Awaited`), which is why
a scan sees all neighbors, that lists hold neighbors only and, in the end, all
(`Listed`), and that the connect thread looks for the parent itself (`SeeksHome`).

`PtSemSafe_proofs`, for any number of signals:

- `SemIInv`, `SemTypeCorrect`: in all regimes, two cores included
- `SemBalanceInTurns`: threads of one core lose no signal and gain none
- `SemNeverSpurious`: without "cores" among the regimes, never a pass too many

The invariant counts the signals that have begun and the passes that are due, and says
that an interrupt which comes between the load and the store of the waiter has only made
the count larger. On two cores `NeverSpurious` is false, as finding 2 has it, so
the theorem has that hypothesis.

`AccessPoint_proofs`, for any clients, pool,
queries, requests, and any times of the proportions in `TimerAssumption`:

- `ApInvariant`, `ApTypeCorrect`: the inductive invariant, and the types
- `ApNoSharedAddress`: no two clients have one address
- `ApOneLeaseForgotten`: of a client's leases all but one are of the address it remembers,
  so it never has three
- `ApReplyFits`: no DNS answer is longer than its buffer
- `ApWrittenIsKept`: memory that lwIP still sends from goes away in the named cases only

Also assumed: `ClientsAssumption`, `PoolAssumption`, `BrowsersAssumption`,
`QueriesAssumption`, `RequestsAssumption` (types of the parameters).

*The argument.* Addresses are not shared because the server's lease outlasts the
client's. That needs `Remaining`, what is left of a lease on a timer that wraps and
is stored in coarser units: its lemmas show that a tick takes one
from it, that a new lease has at least `LEASE_TIME` and less than half a wrap, and that
`Expired` is the test of that half. `LeaseLasts` then says that a client which believes
to have an address is in the server's table, with at least as much time left there.
`OneOther` says that among the addresses a client has a lease of, remembers and is asking for
there is at most one besides the one it remembers: while it has a lease the server offers it no
other, so a second one is recorded only when it comes back for the address it remembers
(`AskAgain`), and an ack that it gets makes it remember one of the two. A connection's invariant ties `unacked`, `sent_len` and the
lengths in `con_state` to the requests made, and the callbacks set to the life of `con_state`.
That the labels of a query end where `Ptr` stops is an induction without the
induction theorem, by the least position at which it would fail.

`UdpDemos_proofs`, for all boards, lines, messages and faults, in all four demos:

- `LedAlwaysTimed`: the LED is never left on
- `FreshAlwaysSignalled`: the last packet is never forgotten
- `SendNeverTorn`: the two cores never mix two packets
- `UntornAcksAlwaysAnswer`: an ack names a message of the board it reaches, with its number,
  unless the interrupt hit the copy that it was made from
- `DemosTypeCorrect`: `Spec => []TypesOK`; each counter and semaphore has a bound

Assumed: `DemosAssumption` (only the demo with three boards has two stations),
`MutexAssumption` (a free mutex is not held by core 0 or 1), `CountsAssumption` (finitely
many lines). The decrement of the plain
semaphore may undo the increments of an interrupt, but then the pass that looks at the
packet is still to come. The cores hold the mutex while they copy, one at a time, and
outside of it the packet in the queue is whole (`CoresOK`). Acks answer because what is
in the copy and in `return_data`, as long as an ack is due, is a packet the board at that
address sent or one put together from two (`MailOK`); addresses differ between the boards
that have one.

The bounds of `TypesOK` take two counting arguments. `SendInv` is about what is sent: in the
demos of one core there is a signal for a line, so packets sent and signals together are no
more than the lines typed. In the demo on two cores, core 1 may lose its decrement when core
0 stores the count that it loaded before: each line that is signalled raises what is
still to be sent to no more than the number of lines signalled so far, which makes
1 + 2 + ... + n packets for n lines (`MaxSent`). `ReceiveInv` is about what is received:
signals, passes that look at a packet, and acks that are due are, over all boards together,
no more than the packets of data sent, because an ack takes the place of what it
acknowledges and is not acknowledged itself. `HeldInv` and `GotInv` say that what is
signalled is there: no board sends, acknowledges or looks at a packet that is not.

*A property that was false.* `UntornAcksAnswer` without its exception for torn copies was
once proved of a model whose copy was one step. With the copy in two TLC refutes it with three
boards: see section 7.

*A bound that was false.* `TypesOK` used to bound every count by two per message. The proof
of `SendInv` failed there: with four lines typed at one board of the demo on two cores,
a lost decrement per line sends ten packets. The bound is `MaxSent` now, and TLC reaches it
with three lines.

### Only model-checked

- `RestIsShortest` without the hypothesis of `RestIsShortestUnlessStale`, for an exchange
  that one board starts. No counterexample is known; a proof has to say why the stale flag
  of finding 3 then does no lasting harm.
- What recursion over data computes: the codec, evaluated on bounded inputs.
- All liveness properties; liveness under fairness is out of the prover's reach.

## 7. Findings

1. **An interrupt can hang its core** (`sem_hang`). `udp_recv_callback` signals
   `new_udp_recv_s` from an interrupt. If the interrupted thread of the same core is
   between the lock and the unlock of `PT_SEM_SAFE_WAIT`, the callback spins for a
   lock that only that thread can release.
2. **The safe semaphores do not balance across cores** (`sem_cores`), which the
   header says they do. A resumed WAIT tests and decrements without the lock, then
   releases a lock it does not hold. Between two threads
   of one core this does no harm (`sem_one_core`, regime "threads"). An interrupt
   between the load and the store of the decrement has its signal lost: the recv
   thread then takes the newer packet and never looks at the older one. For
   `PicoNetwork` that is one more packet lost, a fault; a pass without a
   packet never happens (`NeverSpurious`).
3. **`up_to_date` may be set for a neighbor that has an old vector** (`up_to_date`).
   A vector that arrives between the recv thread's pass and the scan is processed
   after the scan composed the packet; the ack of the old vector then sets the
   flag that the new one had cleared. The newer vector is not sent again. When two boards
   start an exchange, the nodes behind that neighbor can be left without a route for good.
4. **A board may go on scanning after its exchange has ended**
   (`no_scan_after_routing`). Two vectors that arrive together are acknowledged as
   the second one twice; the second ack schedules a scan in phase `DO_NOTHING`, and
   nothing there ends it.
Also known, without a run of its own: the send queue has
one place, so a message that is forwarded while another is queued replaces it
although both were acknowledged (`main.c:587`). `DataArrives` is therefore
checked with messages whose routes do not touch. In `neighbor_find/` a line typed while
the token is queued replaces the token (`neighbor_find.c:634`); a run has the one or the
other. The page of the TCP access point is 302 bytes long and `result` has 256, so
every request for it is closed with `ERR_CLSD` (`picow_access_point.c:138`). The access
point of `udp_send_recv_three_connect` sends to an address that no station takes. The
receive interrupt of a UDP demo may overwrite `recv_data` (`udp_send_recv.c:167`) amid the
recv thread's copy (335): the ack is then made from parts of two packets, or of garbled ones,
and answers neither. Without `~ recv_data[b].torn` in `UntornAcksAnswer` TLC shows it on
three boards: the message of station 1 is being copied when that of station 2 arrives; the
ack goes to station 2 with a garbled timestamp, and station 1 gets none. The second packet
itself is signalled and read again, whole (`FreshIsSignalled`). An ack
of the multicore demo carries no message.

## 8. Not modelled

- *Utilities, the motion sensor, blink, debug and button programs, build files*:
  calculation and I/O with no protocol state. The TCP access point only reads the sensor
  and prints.
- *Texts in the programs*: only `PacketCodec` has them.
- *The LED, the call counter and pbufs of the TCP server*; what lwIP does when it is called
  without its lock, as the UDP demos do, or with a pcb it has freed, as `tcp_server_err`
  does (`picow_access_point.c:190-191`).
- *An interrupt amid the copy of a packet* in `distance_vector/` and `neighbor_find/`; it is
  modelled in the UDP demos.
- *DHCP clients that break RFC 2131*, or do not notice that their access point was off.
- *`ack_mutex`* of the multicore demo: one core alone takes it.
- *The scheduler's rate mode and the debugger* of the protothreads header: no program
  uses them.
- *lwIP, the cyw43 driver, the SDK*: external. The radio is modelled by what the
  program sees of it (`Linked`, `Transmit`, `Visible`).
- *More boards than `MAX_NODES`*: the code indexes past its arrays (`main.c:664`).
- *Loss of power during a run*: a rebooted board starts with an empty node and
  nothing in the code reintegrates it.

## 9. Plan

Done: all parts above but those of section 8, with the proofs of section 6. Left:

1. `RestIsShortest` with one board that starts: an invariant that says which board has the
   next scan while a stale flag is set, which tells whether the property is true of all
   graphs.
2. Vectors and data while the boards are being numbered: the phases of
   `PicoNetworkBoot_proofs` would have to allow for other packets in the token's queues, as
   the program does not keep them apart.
3. Two exchanges at a time in a run of their own, once finding 3 is settled in the code.
