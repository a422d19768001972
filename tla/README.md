# Verification of go-tun2simple

go-tun2simple turns the IP packets of a TUN device into connections: a vendored
lwIP stack terminates the client's TCP and UDP, Go code wraps every lwIP
connection in an object, and a handler relays it to its destination, either
directly or through a proxy.  This directory holds TLA+ models of the program and
of the parts of lwIP it rests on, TLC runs on small instances, and TLAPS proofs
for all instances of the program's own components: TCP connections, UDP
connections with their relays, the DNS handler, the routing decision and the host
name search.

`PROJECT.json` ties every definition to the lines it models, every hazard to the
properties about it, and every property to a mutant, an operator commented
"Fault" next to the original, that breaks it.

## The system

| Part | State | Operations | Correct when |
|---|---|---|---|
| TCP connection, `core/tcp_conn.go`, `tcp_callback_export.go`, `tcp_conn_map.go` | `conn.state`, entry in `tcpConns`, C memory of the key, `io.Pipe`, `closeOnce`, `canWrite` | callbacks `tcpAcceptFn` `tcpRecvFn` `tcpSentFn` `tcpErrFn` `tcpPollFn`; methods `Read` `Write` `Close` `CloseRead` `CloseWrite` `Abort` | each direction closes once and for good, the entry and the key go exactly once, acknowledged bytes reach the handler in order, nobody sleeps for ever |
| Entry and life cycle, `core/lwip.go`, `input.go` | `lwipMutex`, `ctx`, listening pcbs | `Write`, the 250 ms timer goroutine, `Close`, `RestartTimeouts` | lwIP runs under the mutex only; `Close` leaves no connection |
| TCP relay, `stack/direct_pipe.go`, `stackV1.go` | two goroutines and a target socket per connection | `Handle`, `relay` | both sockets are closed when either direction ends |
| UDP connection, `core/udp_conn.go`, `udp_callback_export.go` | `conn.state`, queue of 64 early packets, entry in `udpConns` by source | `udpRecvFn`, `ReceiveTo`, `WriteFrom`, `Close`, drain after `Connect` | no packet of a live connection is lost or reordered silently, a closed one is forgotten |
| UDP relay, `stack/udp.go` | `redirectMap` by source and destination | `Connect`, `ReceiveTo`, `redirectWaitForRemote`, `clearUdpRelay` | a packet goes to its own target; a relay and its socket end together |
| Routing, `stack/rule.go`, `bypass.go`, `Handle` | `ipToDomain`, two mask tables, `global`, packet counters | `NeedProxy`, `IsInnerIP`, `IsMustHits`, `DirectIPAndHost`, loaders | the decision is the one the lists describe |
| DNS handler, `stack/dns.go` | `dnsMap`, pivot socket and its readers | `ReceiveTo`, `setupPivot`, `dnsWaitResponse`, expiry | an answer goes to who asked with its id |
| Host sniffing, `utils/common.go` | none | TLS ClientHello parsing | finds the name the client sent |
| lwIP TCP, `core/c/core/tcp*.c` | control blocks, send and receive queues, timers | `tcp_input`, `tcp_write`, `tcp_output`, `tcp_slowtmr`, `tcp_fasttmr`, `tcp_close`, `tcp_abort`, … | the stream arrives whole and in order, windows and lists are accounted |
| lwIP below TCP, `core/c/core/*.c`, `ipv4`, `ipv6` | pbufs, timeouts, reassembly queues, UDP and raw blocks, interfaces, neighbour and address tables | input, output, timers | as stated module by module below |

How they interact.  `input` (one goroutine per packet written) and the timer
goroutine enter lwIP under `lwipMutex`; lwIP calls the Go callbacks while the
mutex is held; the callbacks take `conn.Mutex` for a moment, and `tcpRecvFn`
blocks in `sndPipeWriter.Write` until the relay reads.  The goroutine started by
`newTCPConn` dials, the two relays read and write, and all three may call
`Close`, which takes `conn.Mutex`, lets it go, and then takes `lwipMutex`.
`lwipStack.Close` aborts everything from outside.  What is hard is exactly this:
`conn.state` is checked under one lock and the pcb used under another, callbacks
arrive at any time during a dial, a sleeping thread holds the lock the others
need, and some endings are noticed by a timer only.  The rule tables are loaded
while connections are already routed, without a lock.  Inside lwIP, lists change
under the timers that walk them, sequence numbers and clocks wrap, and queues and
pools run full.

## Modules

The program:

| Module | Contents |
|---|---|
| `TcpConn` | one connection: object, callbacks, pcb, goroutines |
| `ConnLifecycle` | what `core.TCPConn` promises of a connection, abstractly |
| `UdpRelay` | the UDP connections of one source address and their relays |
| `Routing` | rule tables, their loaders, sniffed names, `Handle`'s decision |
| `DnsHandler` | pivot socket, readers, table of questions and its expiry |
| `ClientHello` | the search for the server name, with its one-byte lengths |
| `TcpConnProofs`, `TcpConnDataProofs` | proofs about `TcpConn` |
| `UdpRelayProofs`, `DnsHandlerProofs`, `RoutingProofs`, `ClientHelloProofs` | proofs about the modules of those names |
| `Stack` | `Routing`, `DnsHandler`, `ClientHello` and lwIP's `Timeouts` side by side, and what their proofs give for the whole |

lwIP, the files that are compiled into the program:

| Module | Contents |
|---|---|
| `SeqSpace` | comparison of sequence numbers that wrap |
| `TcpSender`, `TcpReceiver` | the two halves of an established connection over a network that loses, reorders and repeats |
| `TcpPcbs` | control blocks as a population: allocation, ports, listeners, states and timeouts |
| `TcpTimers` | how the timers walk the block lists while callbacks change them |
| `TcpOptions` | options built and parsed, what two ends agree on; of the options this program has only the segment size |
| `Checksum` | the Internet checksum, over chains, over TCP segments, in echo replies |
| `Timeouts`, `TimeoutsProofs` | the sorted list of timeouts, cyclic timers, `RestartTimeouts`; proofs about it |
| `Pbuf`, `PbufData` | reference counts and lengths of pbuf chains; their contents |
| `Ip4Frag`, `Ip6Frag` | cutting and reassembling datagrams |
| `UdpPcb`, `RawPcb` | UDP and raw control blocks |
| `Ip4`, `Ip6` | input, output, source selection, ICMP, with `TUN2SOCKS` and forwarding as constants |
| `Nd6`, `Nd6Addr`, `Netif` | neighbour discovery, IPv6 addresses, interfaces |

lwIP code in the repository that `lwipopts.h` leaves out of the build: `TcpSack`,
`Dhcp`, `Autoip`, `Dhcp6`, `Dns`, `Etharp`, `Groups` (IGMP and MLD), `Mem`; and, inside
compiled files, the backlog of `TcpPcbs`, the timestamps, window scaling and selective
acknowledgements of `TcpOptions` and the forwarding of `Ip4` and `Ip6`.  (`lwipopts.h:78-82`
mentions backlog and timestamps inside a comment.)  `Ip4`, `Ip6` and `UdpPcb` are checked
both as the program has them (`TUN2SOCKS` 1, forwarding 0, `lwipopts.h:34`, `:42`) and with
the original lwIP branches.

### TcpConn

`state`, `inMap`, `keyArg`, `pipeDone`, `once` are the fields of `tcpConn`.
`tcp`, `cbs`, `rxClosed`, `refused`, `sndq`, `finOut`, `closePend` are the pcb; a
deallocated pcb is `"FREED"`.  `holder` owns `lwipMutex`; `todo` is what the packet or tick
it is processing has still to raise, in the order `Before` takes from
`tcp_input` and `tcp_tmr`; `at` says where inside a callback it is.  `pc` is the
control of the four goroutines.  `rcvNxt`, `gotFin`, `upRead`, `sent` record what
the client had acknowledged, what the handler read and what the target sent.
`faults` records uses of freed memory and influences nothing.

A step is what the code does without letting go of `conn.Mutex` or `lwipMutex`.
Since `conn.state` changes under `conn.Mutex` alone, the lwIP thread takes one
step per event and one per section of `conn.Mutex` inside a callback:
`checkState` is `checkClosing` and then `checkAborting`, and a goroutine's
`Abort` or `CloseWrite` may come between them.  `CloseWrite` and `Write` take two
steps, one per lock.  `canWrite.Wait` is a step of its own (`DownWait`), so a
`Broadcast` that falls between the unlock of `lwipMutex` and the wait is lost, as
it is in the code, where `Broadcast` is called without `canWrite.L`.

lwIP raises a sent event for acknowledged data only, never for a FIN (`recv_acked`,
`tcp_in.c:461`, `:1130`), and when our FIN is acknowledged in LAST_ACK it frees the pcb,
with the error callback or, if the receive side was shut down (TF_RXCLOSED), without
(`tcp_in.c:613-620`).  `sendFin` may find no memory; then TF_CLOSEPEND (`closePend`) makes
the next `tcp_fasttmr` try again.

The relays close in the order of the deferred calls: `relay(target, conn)`
closes `conn` and then the target, `relay(conn, target)` the target and then
`conn`.  A dial may take for ever, fail (Handle closes `conn`, then the goroutine
aborts it) or succeed.

Abstractions.  A segment is in order and new: it carries at most one unit of
data, a FIN, a reset, and an acknowledgement of some of the queued units; what a
retransmission or a reordering adds is handled inside `tcp_receive`, before any
callback (`TcpReceiver`).  One unit stands for the bytes of one pbuf, which the
relay's buffer takes in one `Read`.  The timers' thresholds are nondeterministic:
`Expired` says which states `tcp_slowtmr` may give up on, never when.  A write
through a freed pcb may seem to succeed, find no room, or fail
(`DownWriteStale`).  A read of the freed key finds no connection; that the memory
might by then hold the key of another connection is outside a model of one
connection.

### UdpRelay

`entry` is what `udpConns` holds for the source; `state`, `remote` and `pending`
are the `udpConn` objects created for it one after the other; `relay` is
`redirectMap` and `sock` the sockets in it.  The lwIP thread, each connection's
dialling goroutine and reader, and `lwipStack.Close` share the steps of
`conn.Close` (two: the state under `conn.Mutex`, then `udpConns.Delete` by source),
of `clearUdpRelay` (three: look up, close, delete by id) and of
`udpPivot.ReceiveTo` (look up, write).  `Store` is apart from the creation of the
connection, as in `udpRecvFn`, where the goroutine is already running.  A packet is
its destination; contents are not looked at.  Connections of other sources have
other keys in both maps, so one source is enough.  Writes and reads of a socket may
fail at any time, and must once it is closed; an empty packet from a target is skipped,
and one whose address cannot be converted ends its reader.  `StopAt` bounds when
`lwipStack.Close` may be called, by the number of connections made so far.

### Routing

The two mask tables are functions from the address as written in a line to its
prefix length, which is what `ParseCIDR`'s address as a key makes of them: a line
whose address is not its network's never matches, and a later line with the same
address replaces an earlier one.  A loader empties its table and stores line by
line, with `Handle` running in between; the Go runtime may notice and stop the
program (`ConcurrentMapAccess`).  A client's packets are counted per port as
`WriteToStack` does it, and only the third and the fourth are inspected.  `calm`
marks the connections whose handling no change of a table fell into.

### DnsHandler

A thread is a call of `ReceiveTo`, a reader a goroutine of `dnsWaitResponse`.
Closing the pivot, listening anew and starting a reader are steps of their own,
so two threads may replace the pivot at once and a reader may close the wrong
one.  Any client may use any id.  `closed` are the connections the handler closed: after
a failed write, at expiry, and with the tables.  No code registers this handler at
present.

### ClientHello

`Hellos` are records with the layout TLS prescribes (`WellFormed`): any number of
extensions, arbitrary bytes wherever the layout leaves them free, and of the whole only the
bytes the first segment brought.  The three functions of `utils/common.go` are steps on
positions in these bytes.  Lengths are computed in a byte (`data[i]<<8` is 0), so behind a
field of 256 bytes or more the walk goes on inside that field; there it may find what
looks like a server name, report it, or slice out of range.  `Fits` says that this does not
happen: the cipher list and the extensions before the name are shorter than 256 bytes, and
the record arrived as a whole if the extensions together are longer.

### lwIP

lwIP is single-threaded, so a step is one call into it: a packet, a timer, a call
of the application.  Its interleavings are those of calls, of callbacks that call
back, and of the network.  Each module's header says what it abstracts; lengths,
tables and clocks are small and wrap where the code's do.

## Runs

Components that share no state are explored side by side: a module such as `Stack`
or `MCLwipRest` instantiates each, a variable `part` chosen in `Init` says which one a
behaviour is about, and `s1`, `s2`, … are that one's variables.  A property of such a
module is a conjunction `part = … => property` over its parts, so one run asks of several
components what makes each of them correct.  `Stack` leaves the constants of its parts
open, so that its theorems speak about all their values; `MCStack` extends it with the
packet buffers and lwIP's TCP, and `MCStack.cfg` gives the values.  `TcpConn` and `UdpRelay` are checked as
they stand.

| Run | Instance | Properties |
|---|---|---|
| `tcp_safety` | two client segments, two units from the target, a send buffer of one, `Close` of the stack | `TypeOK`, `Registration`, `OrderedDelivery`, `FinAfterData`, `NoSilentDiscard`, `NoOrphanInTimeWait`, `ImplementsLifecycle` |
| `tcp_liveness` | one segment, two units, no `Close` of the stack | `LwipThreadUnblocks`, `ClosedIsReleased`, `RefusedIsRetried`, `WriterIsWoken` |
| `udp_safety` | two connections, two destinations, three packets, a queue of one, `Close` before the first connection | `TypeOK`, `RelayLeadsToTarget`, `NoneLeftBehind`, `DroppedOnlyWhenFull` |
| `stack_parts` | `Routing`, `DnsHandler`, `ClientHello`, `Timeouts`, `Pbuf` twice, `PbufData`, `TcpSender` sending and closing, `TcpReceiver`, `TcpPcbs` listening and dialling | `RoutingCorrect`, `DnsCorrect`, `HelloCorrect`, `TimeoutsCorrect`, `PbufsCorrect`, `SenderCorrect`, `ReceiverCorrect`, `BlocksCorrect`, `TimersKeepTime`, `TcpStepsCorrect` |
| `progress` | everything that must eventually happen; `Ip4`, `Ip6` entirely, each twice | `PacketsCorrect`, `RelaysProgress`, `TcpProgress`, `TimersProgress`, `NetworkSettles` |
| `lwip_rest` | `Ip4Frag`, `Ip6Frag`, `UdpPcb` three ways, `RawPcb` twice, `Checksum`, `Nd6` twice, `Nd6Addr`, `Netif` twice, `Dhcp` twice, `Autoip`, `Dhcp6`, `Dns` three ways, `Etharp` twice, `Groups` twice, `Mem`, `TcpSack`, `TcpOptions`, `TcpTimers` twice | `ReassemblyCorrect`, `DatagramsCorrect`, `IpStepsCorrect`, `NeighboursCorrect`, `InterfacesCorrect`, `ConfigurationCorrect`, `ServicesCorrect`, `ScansCorrect`, `StepsCorrect` |
| `tcp_freed_pcb` | one segment, two units | violation of `PcbNotUsedAfterFree` |
| `tcp_stop` | one segment, two units | violation of `StopClosesConnections` |
| `tcp_writer` | no segment, two units | violation of `WriterReturns` |
| `udp_closed` | one connection, one packet, `Close` at any time | violation of `ClosedStaysClosed` |
| `tcp_orphan` | one segment, nothing from the target | violation of `ClosingIsDeallocated` |
| `tcp_persist` | writes of three bytes, a peer that reads byte by byte | violation of `PersistAssertionsHold` |

What they say about the program:

- `Registration`: in `tcpConns` = live = key allocated; callbacks only for a registered
  connection whose pcb is allocated; and a registered connection has them unless it is
  `Orphaned`, its pcb freed silently (`tcp_orphan`).  It is what makes the callbacks' `tcp_abort` on an unknown
  key and their type assertion on `checkState`'s nil unreachable.
- `OrderedDelivery`, `FinAfterData`, `NoSilentDiscard`: what was refused during the
  dial, and what came later, is read in order and once; EOF comes last; bytes are
  thrown away only after the handler's `Close` or an abort.
- `NoOrphanInTimeWait`: `tcp_slowtmr` polls active pcbs only and frees those in
  TIME_WAIT without a callback, so no registered connection may get there.
- `ClosedIsReleased`, `WriterIsWoken`: the poll does what a missing acknowledgement, a
  missed `Broadcast` or a FIN without memory leaves undone, except for an orphan, which
  lwIP no longer polls.
- `ImplementsLifecycle`: the refinement; in particular the dialling goroutine does
  not reopen a direction that was closed meanwhile.
- `RelayLeadsToTarget`: whatever relays replace and remove each other between a
  look-up and a write, a packet is written to a socket of its own destination.
- `NoneLeftBehind`: the queue of early packets is emptied and stays empty.
  `DroppedOnlyWhenFull`: the two separate looks at the state in `ReceiveTo` drop no
  packet of a connecting connection unless the queue is full.
- `RoutingCorrect` is `TypeOK`, `DecisionMatchesLists` (of connections during which no list
  was loaded), `NamesWereSeen` and `FirstIsInspected` (of the first connection of a port)
  of `Routing`.  `DnsCorrect` is `TypeOK`, `AnswerGoesToAsker` and `NoDeafPivot` of
  `DnsHandler`: the table knows a question by its id alone, so an answer goes to a client
  that asked with this id, and to the one that asked if no other did.
- `HelloCorrect`: for records that fit, what the sniffer finds is the client's name, and it
  does not panic, whatever the free bytes are and wherever the segment ends.  With
  `RelaysProgress` it ends for all records, and finds every name its one-byte lengths
  reach.  `RelaysProgress` also has the drain of the UDP queue and the end of a DNS
  reader whose socket was closed under it.

About lwIP: `TimeoutsCorrect` (the list is in the order of real due times though the
clock wraps, the time to sleep is exact, one entry drives each timer) with
`TimersKeepTime` (none early, none left, no drift, no burst); `PbufsCorrect`
(reference counts are exact, lengths of a chain agree, header room is kept, every
reader sees the bytes written); `SenderCorrect` (queues hold the stream, the wire
carries its bytes, the peer's window is respected, some timer runs while something is
outstanding, the persist timer never beside data in flight, no byte behind a FIN except
one left on the first part of a segment that was cut); `ReceiverCorrect` (delivery in
order, EOF last, queue sorted and disjoint, the window is accounted, backed and reopens,
an acknowledgement is sent or scheduled unless `tcp_fasttmr` failed to send it); `BlocksCorrect` (every block is in exactly the list its
state says, the backlog is exact, tuples are unique); `TcpStepsCorrect` (the right edge
never retreats, allocation kills only what matters less); `ReassemblyCorrect`,
`DatagramsCorrect` and `IpStepsCorrect` (datagrams come out whole, limits are exact,
the oldest goes first; datagrams reach the block bound to them, ports are unique and
run out last; all checksum algorithms agree and a receiver accepts what is sent);
`PacketsCorrect` (packets fit the wire, errors never answer errors); `NeighboursCorrect`, `InterfacesCorrect`, `ConfigurationCorrect`,
`ServicesCorrect`, `ScansCorrect` and `StepsCorrect` (tables, caches, leases, groups,
heap and list scans agree with what was said on the link and done by callbacks).

### Bounds

Two client segments are what is needed for one to be refused while the next is
dropped or overtakes it; with a send buffer of one unit and two units from the
target the writer meets a full buffer, a partial write and a wait.  No third
segment or unit can meet a situation these do not: `refused_data` holds one pbuf
and the writer one request.  Two UDP connections in succession let the first one's
late `Close` and `clearUdpRelay` meet the second; three packets to two destinations
fill the queue of one, miss in `redirectMap` and make the second connection.  `Close`
of the stack in the middle of a UDP connection is in `udp_closed` and `progress`,
since it adds one more caller of `conn.Close`.  `Routing` has two connections on one
port, so that the counter of the port is shared, and lists whose networks overlap
neither fully nor not at all.  Records have a cipher list and extensions below and above
256 bytes, free bytes of zeros, of others and of both, and first segments that end inside
each field.  Sequence numbers begin just before the wrap, and every table has one entry
fewer than the actors that want one.  The closing sender writes two bytes to a peer that
reads one, so that a segment with a FIN is cut, and one of its allocations fails; one
acknowledgement of the receiver finds no memory.  The blocks of `UdpPcb` and `RawPcb` are
interchangeable model values, and `lwip_rest` uses their symmetry; no temporal property
with fairness is checked there.  The proofs remove all
bounds from the safety properties of `TcpConn`, `UdpRelay`, `DnsHandler`, `Routing`,
`ClientHello` and `Timeouts`.

`CHECK_DEADLOCK FALSE` is set where the system really ends: with the pcb freed, the
goroutines done or the packets used up nothing is left to do.

### Fairness

In `TcpConn` the lwIP thread's callbacks are weakly fair.  The goroutines are
strongly fair, because they need `lwipMutex`, which is free again and again and not
for ever, and `sync.Mutex` hands itself to a waiter that has starved for 1 ms.  The
timer is strongly fair for the same reason, and so is the poll inside `tcp_slowtmr`,
which happens every eighth time.  Nothing is assumed of the client, the target or the
dial, except that I/O on a target socket this program has closed fails.
`LwipThreadUnblocks` excuses a relay that is itself blocked in the target's `Write`,
since nothing bounds that: then the whole stack waits for one target.

In `progress` the fairness of the parts is combined: `Weak1` to `Weak4` are disjunctions
over the parts of one weakly fair action each, `Strong1` and `Strong2` of a strongly
fair one.  As `part` never changes, a conjunct means the fairness of that part's
action.  Weakly fair are the timers of lwIP, which the loop of `core/lwip.go` calls
for ever, the goroutines that need no mutex held for long, and, for `TcpSender`, the
network once its losses are used up.  Strongly fair are `lwipStack.Close`, which
competes for `lwipMutex` with packets, and the ARP requests of AutoIP hosts: a host
that uses its address speaks again and again.

## Where the code and its comments disagree

Each of the first six is a run with `expect: violation`; the trace TLC prints is the
schedule.

1. `CloseWrite`, `Write` and the dialling goroutine use the pcb after checking the
   state under another lock (`tcp_conn.go:306`, `:268`, `:124`).
2. `lwipStack.Close` closes the listener after `Range` (`lwip.go:123`).
3. `checkState` returns before its `Broadcast` when it closes the connection
   (`tcp_conn.go:357`), so a waiting `Write` never returns.
4. `newUDPConn`'s goroutine stores `udpConnected` over `udpClosed` (`udp_conn.go:58`).
5. A connection whose receive side was shut down after data nobody read, closed by both
   sides, stays in `tcpConns` for ever when the client acknowledges our FIN alone: no sent
   event, no error callback (`tcp_in.c:461`, `:613`).  `tcp_conn.go:42` promises that a
   callback will deallocate it.
6. The zero-window probe of the last byte may be acknowledged with the window still
   closed; `tcp_output` with an empty queue returns before it turns the persist timer off
   (`tcp_out.c:1280`, `:1324`), and the next tick fails the assertion at `tcp.c:1237`, which
   stops the program.

Seen while modelling and kept in the models, without a run of their own:

- `abortInternal` releases the key memory and then calls `tcp_abort`, whose error
  callback reads it (`tcp_conn.go:430`; `KeyUsableInCallbacks`).
- `WriteFrom` calls `udp_sendto` without `lwipMutex` (`udp_conn.go:145`;
  `SingleThreaded`).  The UDP relays `lwipStack.Close` leaves "till timeout" have no
  timeout (`lwip.go:130`; `HandlerTimesOut`).
- `utils/common.go`: records that do not fit, see `ClientHello` above.
- `tcp_split_unsent_seg` leaves a FIN on the first part of a segment it cuts
  (`tcp_out.c:934`; `TCPH_SET_FLAG` clears no flag), against "Migrate flags from original
  segment" at `:900`.  `FinEndsTheStream` excepts such a part.
- `tcp_fasttmr` clears the flags of a pending acknowledgement although its `tcp_output`
  failed (`tcp.c:1493-1498`), against "let tcp_fasttmr retry sending this ACK"
  (`tcp_out.c:2044`, `:2059`).  `AckIsScheduled` and `WindowReopens` except it (`forgot`).
- lwIP TCP: a SYN repeated in SYN_RCVD is parsed again and raises `pcb->mss` past
  `tcp_eff_send_mss` (`tcp_in.c:866`), which `MssFits` excepts.  A FIN just
  behind the window, as lwIP's own `tcp_output` sends it, is queued out of order
  (`FinBeyond`, around `tcp_in.c:1666`).
- `ip6_frag.c`: a datagram completed by a middle fragment may lack bytes in front of it
  (`Ip6Frag!DeliveredWhole`; `HoleOnlyInFront` is what does hold), and its payload length
  need not be that of its data (`HeaderLength`).  A fragmented packet with a hop-by-hop
  header is refused after reassembly (`ip6.c:1045`).
- `dhcp.c`: timers of the old lease stay armed after a NAK (551, 578, against the
  comment at 1972); restarting a running client keeps the old address without a lease
  timer; `lease * 7U` wraps after 19 years.  `dhcp6.c`: a shorter list of name servers
  leaves old entries.  `mld6.c:256`: the delay is not converted from network byte order.
- `nd6.c`: "find oldest" in `nd6_new_destination_cache_entry` compares an `age` nobody
  counts.  `dns.c`: `dns_call_found` bounds an index of the table by the number of
  requests.

## Proofs

| Module | Theorem | Statement |
|---|---|---|
| `TcpConnProofs` | `InductiveInvariant`, `TypeCorrect`, `RegistrationHolds`, `NoOrphan` | `[]IInv`, `[]TypeOK`, `[]Registration`, `[]NoOrphanInTimeWait` |
| `TcpConnDataProofs` | `DeliveryInvariant`, `FinComesLast`, `NothingDropped`, `ReadsInOrder`, `LifecycleRefinement` | `[]Delivery`, `[]FinAfterData`, `[]NoSilentDiscard`, `OrderedDelivery`, `ImplementsLifecycle` |
| `UdpRelayProofs` | `TypeCorrect`, `RelaySafe`, `DrainSafe`, `DropSafe`, `QueueOrder`, `SocketLife` | `[]TypeOK`, `[]RelayLeadsToTarget`, `[]NoneLeftBehind`, `[]DroppedOnlyWhenFull`, `FillsThenDrains`, `SocketsEndForGood` |
| `DnsHandlerProofs` | `TypeCorrect`, `AnswersRight`, `PivotHeard` | `[]TypeOK`, `[]AnswerGoesToAsker`, `[]NoDeafPivot` |
| `RoutingProofs` | `TypeCorrect`, `DecidesRight`, `NamesSeen`, `FirstInspected` | `[]TypeOK`, `[]DecisionMatchesLists`, `[]NamesWereSeen`, `[]FirstIsInspected` |
| `TimeoutsProofs` | `TypeCorrect`, `ListOrdered`, `SleepExact`, `TimersDriven`, `HandledOnTime`, `PhaseKept` | `[]TypeOK`, `[]Ordered`, `[]SleepsExactly`, `[]OneEntryEach`, `OnTime`, `NoDriftNoBurst` |
| `ClientHelloProofs` | `ReportsTheName`, `StaysInside` | `[]FoundIsTheName`, `[]NeverPanics` |
| `Stack` | `RoutingIsCorrect`, `DnsIsCorrect`, `HelloIsCorrect`, `TimeoutsAreCorrect`, `TimersAreOnTime` | `[]RoutingCorrect`, `[]DnsCorrect`, `[]HelloCorrect`, `[]TimeoutsCorrect`, `TimersKeepTime` |

Every inductive invariant was checked by TLC before it was proved, on instances at
least as large as the runs'.

**TcpConn.**  The assumption is `BoundsAssumption`: the counts are naturals, the send
buffer is not empty.  `TcpConnProofs` proves `Spec => []IInv` with `IInv == TypeOK /\
Registration /\ Wiring`, one lemma per action.  `Registration` is not inductive: it
says which registered connections have a pcb, and lwIP deallocates pcbs in two places
without telling the connection.  `tcp_slowtmr` does so in TIME_WAIT; that this happens
to unregistered connections only needs `FinPendingInv`: while a registered connection's
pcb is in CLOSING or TIME_WAIT, the client's FIN that took it there is still on its
way to `setLocalClosed`, or the `checkState` that will release the connection is
running.  It rests on `ShutInv` and `FinSentInv` (our FIN was sent only by a
`CloseWrite` that had moved the state first) and `GotFinInv` (no second FIN).
`tcp_input_delayed_close` does so when TF_RXCLOSED is set; `ClosedInv`, `FinOutInv`, `EofInv`
and `RxInv` show that a connection still registered is then closing or aborting, with the
client's FIN received, which is `Orphaned`.  `PendInv` says that only a side the handler
closed has a FIN waiting for memory.  The other parts of `Wiring` say
what the lock owner may be doing (`LockInv`, `CurInv`, `SegInv`, `RetryInv`, `HandInv`)
and what has not happened before the accept (`NewInv`, `SynInv`).
`TcpConnDataProofs` adds `Delivery`: a segment accepted and not yet read is in
`refused` or `cur`, never in both, and is the next one (`DataInv`); a FIN that was
accepted and not raised is with it (`FinInv`); the pipe is closed only for a reason
the state shows (`PipeInv`).  Its last part proves that initial states map to
initial states of `ConnLifecycle` and every step to a step or a stutter, using `IInv`.

**UdpRelay.**  The assumption is `UdpBounds`: the counts are naturals.  None of the
three properties is inductive.  A packet is written some steps after its relay was
looked up, so `IInv` says of every goroutine what it holds: where it can be (`At`), that
the connection and destination in its local variables exist and, for the dialler and the
reader, are its own (`Holds`), and that a socket it looked up was dialled for the
destination it holds, whatever has happened to `redirectMap` since (`Knows`).  `Maps` says
the same of the two maps; `Dials` that a connection is connecting only while its
goroutine has not got the outcome, which is why nobody fills a queue that the drain has
found empty (`NoneLeftBehind`) and why the second look at the state in `ReceiveTo` can find
"connecting" only when the queue was full.  The action properties follow from `IInv` by one
case per action: filling and draining of a queue never overlap, so early packets are
sent in the order they came; a socket is opened at most once and never reopened.

**DnsHandler.**  The assumption is `DnsAssumption`.  The ids travel from a thread's local
variables to the table, the wire, a reader and the answer; `IInv` says at each of these
places that the client named beside the id has asked with it (`Asks`, `Table`, `Questions`,
`Finds`, `Answers`); since the clients that used an id are only ever added to, an id used by
one client leads back to it.  `NoDeafPivot` needs a count: a thread that has listened anew will
start a reader only if one is left, and `Readers` (sockets made ≥ readers started + threads
that are about to start one, by cardinality) says there is.

**Routing.**  The assumptions are `ListsAssumption` (lists are sequences of lines, rules
match names that exist) and, for `DecidesRight` only, `CanonicalLists`: a line is written
with the address of its network, and no address appears with two lengths.  The code needs
this, because its tables are keyed by the address as written; all 8635 lines of
`stack/bypass2.txt` and 13 of `stack/must_hit.txt` satisfy it.  Without it the theorem is
false, as a line such as 10.0.0.1/8 never matches.  `Loading` is the invariant of a loader:
every line of the list is stored or still to come, and nothing else is stored.  `Found`
says what `Handle` knows about a connection after each of its reads while no table changed;
with `LoadedTable` (a loaded table is hit exactly by the listed addresses) it gives the
decision.  `Cached` and `Taken` carry a name from the packet to the cache to the
connection.  `Counted` is what `FirstIsInspected` lacks: until its third packet the first
connection of a port is alone on it, and the counter counts its packets only; from the
second connection of a port on this fails, and with it the property.

**Timeouts.**  `TimeoutsAssumption` bounds intervals and delays by a quarter of the clock's
range and, with the longest gap between two calls of `sys_check_timeouts` and the time a
call may take, by `LWIP_MAX_TIMEOUT`; the width of the clock is any.  Comparing times modulo
the clock is right only for times less than half its range apart, and nothing in the code
compares the real times.  So each entry carries what is really left of it, and `ListOK` says
that the stored time is the clock plus what is left, modulo the range, that nothing is later
than the gap and the run allow and nothing further off than the longest delay: then every
comparison in `sys_timeout_abs`, `sys_check_timeouts` and `sys_timeouts_sleeptime` agrees
with that of the real times (`Compare`, `Later`, `AfterNow`, `Until`), an insertion keeps the
order, and so do a removal and the passing of time.  `DueOK` and `NowOK` say the same of
`current_timeout_due_time` and of the local variable `now` while handlers run.  `Drivers`
says that each cyclic timer has one entry or is the handler that runs: a timer's entry is
taken off the list before the handler puts it back, so neither half holds by itself.
`sys_timeouts_init` gives the list by its order, as the set of sorted lists of the timers,
because the provers cannot reason about a fold over a set.

**ClientHello.**  `HelloAssumption` says that the records are well-formed: the fields lie
where TLS puts them, and a name has at most 253 characters, as in the DNS.  The bytes of the
fields, the number of extensions and the end of the first segment are arbitrary, so nothing
can be computed; what the proof has are the places (`PlacesFacts`) and the few bytes the
layout fixes, as far as they arrived (`ReadByte`, `ReadWord`).  The properties are about
records that fit; `Misled` is the other case, of which the invariant says only types.  For those
that fit it says where the parser stands: at the extensions, at the beginning of one of
those up to the server name, at the server name's list, or at the name.  That the walk does
not leave the record although the length of all extensions is taken modulo 256 rests on the
check in `GetSNBlock`, which a record cut short does not pass.

**Stack.**  Its four assumptions are those of its parts.  `IInv` is the inductive invariant
of the part that runs; a step of the whole is a step of that part (`PartSteps`), and the
parts' lemmas, cited through their instances, do the rest.

Only model-checked:

- liveness, which needs fairness and is beyond the prover;
- what is computed with RECURSIVE operators (`Checksum`, `Ip4Frag`, `Ip6Frag`, `Pbuf`,
  `PbufData`, `TcpSender`) or with the folds and filters of the community modules
  (`TcpReceiver`, `TcpSack`, `TcpPcbs`, `TcpTimers`, `TcpOptions`, `UdpPcb`, `RawPcb`, `Netif`,
  `Nd6Addr`, `Dns`): what these return for every input needs an induction the provers cannot
  do;
- `Ip4`, `Ip6`, `Nd6`, `Dhcp`, `Dhcp6`, `Autoip`, `Etharp`, `Groups` and `Mem`, where nothing
  is out of reach and the proofs are not written.

## Not modelled, and the plan

Left out: the proxy's handshake (its protocol is in go-simple, outside the repository; in
`TcpConn` it is the dial), the mobile interface and `SetupStack`/`DestroyStack` as such
(one thread calls them in order; what they call is modelled), the buffer pool and the
logger, the SOCKS helpers and `upStream`/`downStream`, which nothing calls, in `input.go`
the peeking into headers with its errors (`peekNextProto` looks at a tenth byte after a check
for nine, `:73-76`), the failure of `pbuf_alloc`, the error of `C.input` and the choice
between copying and borrowing a packet, `altcp`, memory pools (`MEMP_MEM_MALLOC`: the C library's malloc, and every
module that allocates may be refused), statistics, and headers without code.  In lwIP: the
estimate of the round trip time, the layout of DHCP, DNS and ARP messages, multicast DNS.

Next: proofs about `Dhcp`, `Etharp` and the resolver, and an abstract specification of a
source's datagrams that `UdpRelay` implements.
