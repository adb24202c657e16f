# A TLA+ verification of lightsocks-androidx

lightsocks-androidx is an Android VPN application.  The system gives it a tun
device; `tun2socks` (badvpn with lwIP) turns the packets read from the device
into SOCKS5 connections and udpgw messages towards `127.0.0.1:6666`; a small
libevent proxy listens there, encrypts the bytes with a substitution table and
relays them to the lightsocks server.

    application -- /dev/tun -- lwIP -- tun2socks -- BSocksClient --+
                                          |                        +-- proxy -- server -- TCP peer
                                          +-- SocksUdpGwClient ----+                   +- udpgw -- UDP peer

Everything native runs in one process, on two event loops: tun2socks' BReactor
and the proxy's libevent loop, each on its own thread, controlled by a third
one, the VPN service.

## 1. Inventory

Paths are relative to `src/app/src/main/`; `badvpn` stands for
`cpp/badvpn-master`.

| Component | State | Operations | Hard behaviour | What makes it correct |
|---|---|---|---|---|
| TCP client, `badvpn/tun2socks/tun2socks.c` 126-147, 1617-2164 | `struct tcp_client`: pcb, two closed flags, two buffers, dead flag | lwIP callbacks (accept, recv, sent, err), SOCKS events, murder | SOCKS jobs run inside a lwIP callback that has not returned; each side may go first while data is buffered; free and abort inside callbacks | no ASSERT fails, ERR_ABRT iff aborted, nothing lost in an orderly end, every client freed |
| Loop and device, same file 266-531, 778-789, 1199-1597, 2166-2261 | `ss`, `quitting`, `tcp_timer`, `listener`, `the_netif`, device buffers | startTun2socks, stopTun2socks, lwip_init_job, tcp_timer, device read, netif output | stop comes from another thread | one loop per process, everything freed once |
| BSocksClient, `badvpn/socksclient/BSocksClient.c` | `state`, `control` buffers, stream interfaces | connector and connection handlers, recv/send done, continue job | a reply split at any byte, freed from its own event handler, no handshake timeout | the handshake follows the protocol, UP at most once and only after a positive reply |
| SocksUdpGwClient, `badvpn/tun2socks/SocksUdpGwClient.c` | `have_socks`, `socks_up`, reconnect timer | try_connect, reconnect timer, SOCKS events, server error | three ways to lose the connection, one timer | always exactly one of a SOCKS client and a running timer |
| UdpGwClient, `badvpn/udpgw_client/UdpGwClient.c` | connections by address and by conid, LRU list, send queues | submit, receive, connect and disconnect server, keepalive | conids reused while replies to the old connection are on their way, buffers kept over a reconnect | how long a flow can be given its conid's former owner's replies; ids unique; at most max_connections |
| udpgw server, `badvpn/udpgw/udpgw.c` | per-client connection tree and LRU, closing connections | accept, packet from client, datagram, close, timers | a connection closes while its last packet is being sent; port limits | each conid bound to one socket, limits kept, freed once |
| Proxy, `cpp/lightsocks/lightsocks_android_server.cpp` | two bufferevents for each connection, `base`, `encryptor`, `client_callback` | listener, read, filter, event callbacks; start and stop | stop is called by another thread; either end goes first while the other's buffer is full | bytes relayed in order, encrypted, none lost; no callback on a freed bufferevent |
| Encryptor and base64, `cpp/lightsocks/lightsocks_android_encryptor.cpp`, `base64.cpp` | two tables | ctor, encrypt, decrypt, encode, decode | table of 255 entries for 256 bytes | decrypt inverts encrypt on every byte |
| JNI bridge, `cpp/nativelib/native-lib.cpp` | `jObjCallback`, `gEnv` | start/stop Proxy and TunSocks, callback | global state shared by threads | each stop reaches the loop it names |
| VPN service, `java/com/handhandlab/lightsocks/vpn/LightsocksVPNService.kt` | coroutine scope, callback, process | onStartCommand, stop, onDestroy | stop on a binder thread and on the main thread, before, during and after the loops run | stop ends both loops once |
| Activity, `java/com/handhandlab/lightsocks/ui/` | binder, button state | start, stop, callbacks | callback from a dead process | the screen agrees with the service |

## 2. Plan

The modules in order of importance, and where each stands.

| | Module | Abstracts / composes | State |
|---|---|---|---|
| 1 | `TcpClient` | implements `Relay` | modelled, checked, safety and refinement proved |
| 2 | `LightsocksProxy` | the data plane of one proxy connection; implements `Relay` | modelled, checked, safety and refinement proved |
| 3 | `ProxyLoop` | the control plane of the proxy: start and stop on two threads | modelled, checked, safety proved |
| 4 | `TunLoop` | the control plane of tun2socks: set-up, loop, tear-down, two stops, the service's `stop()` | modelled, checked, safety proved |
| 5 | `BSocksClient`, `SocksUdpGwClient` | the handshake and its user, composed; implements `SocksPromise`, the contract of `BSocksClient.h` that `TcpClient` relies on | modelled, checked, safety and refinement proved |
| 6 | `UdpGwClient`, `UdpGwServer`, `UdpGw` | both tables over a stream that is lost and made again | modelled, checked, safety proved |
| 7 | `FairQueue`, `BPending` | the queue that client and server of 6 send through, and the job order everything relies on | modelled, checked, safety proved |
| 8 | `SocksAuth` | the one `socks_auth_info` of all SOCKS clients | modelled, refuted |
| 9 | `Encryptor` | table of 255 entries; would discharge `TableAssumption` of `LightsocksProxy` or show where it fails | not begun |
| 10 | `Pipeline` | `TcpClient` over `LightsocksProxy`: bytes from the application to the server | not begun |

Every safety property of the passing runs is proved, and so is what liveness rests
on apart from fairness.  Still worth proving: that two `Relay`s in series are one (10; both ends
of the pipeline are proved to be `Relay`s), and 9.

## 3. What is modelled, and how it corresponds to the code

`PROJECT.json` maps each definition to its lines.  C functions and actions
have the same names.

### TcpClient

`c` is the `struct tcp_client` with its pcb and the lwIP callback that is on
the C stack; `upRecv`, `toSocks`, `downRecv`, `acked` record the two streams
and `ended` what happened to either end.  A C function is an operator from
record to record, an entry point of the reactor is an action:

- `listener_accept_func`, `client_recv_func`, `client_sent_func` enter a lwIP
  callback (`AppData`, `AppFin`, `AppAck` add what lwIP does around them),
  and `CallbackReturn` leaves it.  `SYNC_COMMIT` lets SOCKS jobs run in
  between (`JobsRunIn`), so `SocksUp`, `SocksSendDone`, `SocksRecvDone` and
  `SocksError` may free or abort the client under a callback that goes on.
- `DEAD_ENTER`, `DEAD_KILL_WITH`, `DEAD_LEAVE2` are the dead flag, with the
  frame its pointer points into: null, on the stack, or returned.
- `ok` records that every `ASSERT` held and every pcb used was open.

Both streams carry 1, 2, 3, ...: reordering, loss and duplication are visible
as numbers.  Connections share only `num_clients`, so one lives at a time and
the next one reuses its record.  An accept that fails for lack of memory keeps
nothing and is a stutter.

`Relay` is what a connection promises: each direction delivers the bytes it
accepted in order, and ends `"done"` only if it delivered them all, otherwise
`"cut"`.  `UpState` and `DownState` are the refinement mapping: upstream ends when the
SOCKS client is freed, `"done"` unless SOCKS itself failed; downstream ends
when the pcb is given back, `"done"` if it is closed in order and the
application had not closed first.  The code does not support half-close: an
application that sends FIN gets no more data, so that direction is `"cut"`.

### LightsocksProxy

`src` and `dst` are the bufferevents, `dst_output` and `src_output` their
output buffers (`dst_output` behind the filter, so encrypted), the four
streams what either peer has sent and been sent.  The libevent callbacks are
actions of the same name; `WriteServer` and `WriteClient` are libevent draining
a buffer by any amount; `ClientEvent` and `ServerEvent` deliver EOF and errors
to `proxy_event_cb`.  `proxy_listener_cb` may leave `dst` `"unreachable"`,
the failed `connect` the code logs and forgets.  The proxy too is a `Relay`, of less: it frees
both bufferevents at once, whatever is in their buffers, so that each direction is
open as long as the connection and then `"cut"`.  `Positions` maps the bytes, whose values
repeat, to the positions `Relay` counts.  `Wire` and `Understood` are the
lightsocks server's side of the cipher, which is external.

### ProxyLoop

`pc` is the thread in `start_proxy_server` and in `event_base_loop` (top, in
epoll, running callbacks), `stopPc` the thread in `stop_proxy_server`.  `base`,
`ev`, `encryptor` and `client_callback` are the globals and the listener,
`event_break`, `event_gotterm`, `once` the three traces a stop leaves in the base.
`evthread_use_pthreads` is never called, so libevent neither locks nor wakes the
loop; the race on its active queue is modelled by letting `loopexit`'s event
be lost if the loop is running callbacks, and a call on a freed base by
letting it do nothing or crash.  `asked` is a history variable: a stop came
where the loop must see it.  `server_port`, which stop also clears, is left out.

### BSocksClient, SocksUdpGwClient and SocksPromise

`BSocksClient` is the handshake: `state`, the interfaces that are initialised
(`io`), the size of `buffer` and the two receive counters are the fields of the
struct.  The proxy's answer is a record of what the client looks at (`answer`)
and a count of the bytes written so far (`sent`); `recv_handler_done` takes any
part of them (`taken`), so a reply is split at every byte.  A failed allocation
or connection is a disjunct of the handler it happens in.  The user's handler
runs inside the report, and has to free the client there: `Error` is report and
free in one, `received_reply_rest` may be freed from the report that it is up.
`Whole` is what `BSocksClient_Free` takes apart; `ok` that it was there.

`SocksUdpGwClient` extends it by its user: `have_socks`, `socks_up`, the
reconnect timer and the udpgw client's `have_server`.  Each handler is composed
with what `socks_client_handler` does with the event it reports.

`SocksPromise` is the contract of `BSocksClient.h`: connected, then up, once
each, an error at any time, a close only when up.  `TcpClient` takes exactly
this for granted of its SOCKS client; `KeepsPromise` discharges it.  The UDP
ASSOCIATE command and `BSocksClient_SetDestAddr`, which nothing in the app calls,
are left out.

### SocksAuth

The one `socks_auth_info` of all TCP clients: `listener_accept_func` points it to
the new connection's user name, `client_dealloc` frees that, and a handshake
reads it only when its proxy has answered the hello.  Only tun2socks' own
command line sets the option; the app does not.

### TunLoop

`pc` is the thread in `startTun2socks`: `Setup` lists what it initialises, in
order, and a step that fails jumps to the label (`fail1` to `fail5`, `ended`) the code
jumps to, which is the set of things freed from there on.  The loop is
`BReactor_Exec`: test `exiting`, run a job or dispatch one of the events the last
wait has found, or wait.  `quitting` and `exiting` are written by other threads
without a lock, so each access is a step: `Terminate` is the ASSERT, the store
to `quitting` and `BReactor_Quit`, by every thread in `Stops`.  Those are the
binder's and `onDestroy`'s calls of the service's `stop()`, which goes on to the
proxy and, from `main`, to `killProcess`.  In the JNI bridge `stopProxy` stops
tun2socks and the other way round, so together they stop both.  `NDEBUG` says
whether ASSERT does anything: it does not in the release build.

### FairQueue and BPending

`BPending` is the job stack of `BPending.c`: a job set later runs earlier.
`FairQueue` is `PacketPassFairQueue.c` over it: the record `q` holds the queue, the
time each flow has paid, the interface state of every flow and of the output,
and the pending jobs; a call through an interface is a job, and so is its
completion.  Every operation but `PacketPassFairQueueFlow_RequestCancel` is there:
both users of the queue initialise it without `use_cancel`.  The busy handler is the udpgw
server's, which frees the flow.  Times are bounded by `FAIRQUEUE_MAX_TIME` as in the code, whose
word wraps; `increment_sent_flow` brings all of them back before it does.

An empty queue's `get_current_time` is 0 while an idle flow keeps its time, and
a flow made then starts at 0.  So flows that are made for ever, send one packet
and are freed can starve one that waits: `EachIsSent` has the premise that new
flows end.

### UdpGwClient, UdpGwServer and UdpGw

`UdpGwClient` is the table of flows of `UdpGwClient.c`: `connections_list` in LRU
order, each with its addresses, its conid and the packets that wait in its
buffer.  A new flow takes the next unused conid, or at the limit the least recently used
flow's, and then its packet says REBIND.  `jobs` holds the jobs of a new flow
(its queue gets ready, the first packet is put in it, the device reads on), which
BPending's order runs in this order.  Three fields of a flow are history, which no code
reads: `turn` numbers the flows that have had the conid, `lost` says that there was no room
for the packet that rebinds it for this one, and `answered` that this one has been
given a reply to a packet of its own.

`UdpGwServer` is `udpgw.c`: the connections of all its clients, in LRU order, with the
local port of each, its queued replies, whether one is being sent, and whether
it is closing.  `owner` is history: the `turn` of the packet that opened the connection,
which its replies carry on.

`UdpGw` composes them over up to `MaxLinks` TCP connections, one after the other:
`link` is the client's, `up[n]` and `down[n]` what is on its way in each.  When the
client loses one it keeps its flows and buffers, the server reads on from the old
connection until it learns of its end, and what the client had half written
is written again from its start.  The order the queues send in is left to choice
(`FairQueue` has it).  Left out are the keepalive, which carries no conid; the DNS flag,
which `startTun2socks` never sets; the UDP side's own send buffer, whose drops
nobody hears of; and the case of two connections last used in the same millisecond.

## 4. Runs

| Run | Property | What it shows |
|---|---|---|
| `tcp_client` | `TypeOK` | buffers, windows and counters stay in range |
| | `AssertsHold` | no ASSERT fails, no closed pcb is used, no dead flag is written through a stale pointer, with SOCKS events inside callbacks |
| | `AbrtIffAborted` | a callback answers ERR_ABRT exactly when the pcb was aborted in it |
| | `WindowFitsBuffer` | the advertised window fits in `client->buf`: the "no buffer" branch is dead |
| | `NoOrphanPcb` | no pcb or callback outlives its struct |
| | `NeverStranded` | what a client holds waits for an answer that is outstanding; otherwise SOCKS is asked for more |
| | `ImplementsRelay` | both directions in order, nothing lost in an orderly end |
| | `OnlyDrains` | once one side is gone nothing is taken on, what is held shrinks by what is delivered, and the end of either is final |
| | `ClientReleased` | once one side is gone the client is freed in the end |
| `proxy_connection` | `ProxyTypeOK`, `EndsTogether`, `RelayedSoFar` | both directions whole, in order and encrypted while the connection lives; neither bufferevent outlives the other |
| | `ProxyImplementsRelay` | and whoever ends it: each peer has been given a prefix of what the other sent, nothing is taken back, and nothing moves after the end |
| `proxy_tail` (violated) | `ReceivedDataSentBack` | the server's EOF drops what was not yet written to the client |
| `proxy_loop` | `LoopTypeOK`, `BaseOutlivesLoop` | no step of the loop's thread without its base |
| | `StopSticks` | a stop that must be seen never lets the loop block again |
| | `BusyLoopStops` | and on a busy device the loop ends |
| `proxy_stop_idle` (violated) | `StopEndsLoop` | an idle loop is not woken by a stop |
| `proxy_bind` (violated) | `BlocksUntilStop` | with the port taken, start leaves its loop unstopped and crashes |
| `fair_queue` | `FairTypeOK`, `FairAsserts` | no time leaves its word; no ASSERT fails and no job runs for a freed flow, in any order of sends, jobs and frees |
| | `LeastIsSent`, `ChargedExactly` | the packet sent is of the flow that has paid least, and flows that wait pay exactly what they send, also when times are brought back |
| | `ToldBeforeNext` | a flow hears that its packet is done before the next is chosen |
| | `LagBounded` | of two flows that wait or send neither falls further behind than it was, or than one packet |
| | `NothingForgotten` | while packets are queued, what takes the next one is outstanding; no interface waits for a job nobody set |
| | `EachIsSent` | every queued packet is sent if new flows do not come for ever |
| `tun_loop` | `TunTypeOK`, `TornDown` | whatever fails on the way up, and whenever it is stopped, what was made is freed once |
| | `AtMostOneMore` | after a stop at most one handler begins |
| | `TunStops` | and the loop ends, on a silent device too |
| `tun_asserts` (violated) | `TunAsserts` | in a debug build a stop between two events fails `ASSERT(!quitting)` |
| `socks_udpgw` | `SocksTypeOK`, `SocksAsserts` | no ASSERT fails, and a SOCKS client is freed with what it has |
| | `ClientOrTimer` | always exactly one of a SOCKS client and the reconnect timer |
| | `HandshakeBytes` | the handshake takes its reply and not a byte of the traffic behind it, within its buffer |
| | `KeepsPromise` | the events come in the order `BSocksClient.h` promises |
| | `Recovers` | a lost connection is made again, and is up if the proxy grants it |
| `socks_username` (violated) | `OwnUsername` | with two connections one is given the other's user name, or freed memory |
| `udpgw` | `UdpGwTypeOK` | no conid of two flows, all tables within their limits |
| | `FirstFits` | the packet that opens a flow is neither lost nor overwritten, at both ends |
| | `PortsApart` | two sockets the remote could not tell apart have different ports |
| | `ClosingIsSent` | a closed connection is kept only while its packet is being sent, one for each client |
| | `RightOwner` | once the REBIND of a flow is through, unless it was dropped, the server's socket of its conid was opened by a packet of its own; once the flow has been given a reply to itself, no other flow's is on its way to it |

`RightOwner` does not say that a flow is given its own replies only.  `UdpGwClient` matches a
reply by conid and remote address, so one that is on its way when the conid changes hands
reaches the new flow if that has the same remote, as one does when the REBIND was
dropped for want of room.  The property says how far this goes.

Two violations are about tun2socks.  `tun_asserts` concerns the debug build only.  `socks_username`
needs an option the app does not give, and breaks what the ChangeLog says of it.
The three of the proxy disagree with the comment in
`cpp/lightsocks/include/lightsocks_android_server.h` 13-19, quoted in the findings
of `PROJECT.json`.  That a server which ends a connection in order loses its
last bytes is the serious one: tun2socks sees an orderly end, and closes the
application's connection as if the answer were complete.

**Bounds.**  `tcp_client`: a window and receive buffer of 3 and a send buffer
of 2, with 4 bytes in either direction, fill each buffer, wrap the window and
make `tcp_write` refuse; the sizes differ so that a mix-up shows.
`proxy_connection`: 2 bytes each way of 3 values and reads of at most 2 allow
merged, split and partial writes, and a table that is not its own inverse
tells encryption from decryption.  `proxy_loop`: 2 callbacks active at once (one
may run after a stop) and 2 stops, as the service makes them.
`fair_queue`: 2 flows, packets of at most 1 and a weight of 1 against a largest time of
5, so that the clock wraps every few packets.  `tun_loop`: the two threads that
call `stop()`; the debug run needs only one.  `socks_udpgw`: both methods, so that every
path of the handshake is there, the shortest password packet, the request of an
IPv4 address, replies with either address, and 3 bytes of traffic behind them.
`udpgw`: two conids for four pairs of addresses, a server that keeps one
connection of each client and has one port, buffers of one packet, two links
with two packets on the way, 3 packets and 2 replies: enough for a flow to take
over a conid, its packet to cross a reply, a port to change hands and the link to be
lost in between (1.1 million states up to the symmetry of the addresses).
The proofs hold without any of these bounds.  Deadlock is off in
`ProxyLoop` and `TunLoop`, which end with the process, and in `UdpGw`, which may use up its
packets and links.

**Fairness.**  `TcpClient`: `CallbackReturn` (C code runs on); `AppAnswers`
(data in flight is acknowledged, or TCP's retransmission limit reports an
error); `SocksAnswers` (a SOCKS connection being set up, or given data,
answers or fails).  The last one is an assumption on the environment: the code
has no handshake timeout, and without it a silent proxy keeps a client for
ever.  `ProxyLoop`: both threads run on, and nobody has to call stop;
`BusySpec` adds that some socket is ready again and again, which is the
premise of `BusyLoopStops` and is absent from `StopEndsLoop`.  `FairQueue`: the output
finishes the packet it was given, and the reactor runs the queue's jobs; strongly,
because handlers may put other jobs in front of one, though not for ever.
`SocksUdpGwClient`: the reactor runs what is due and the kernel ends a connect; that the
proxy writes anything is not assumed but a premise of `Recovers`.  `TunLoop`: both threads
run on; no traffic is assumed, as the TCP timer alone ends each wait.

## 5. Proofs

TLAPS checks these for every value of the constants.

`TcpClientProofs` proves `TypeOK`, `AssertsHold`, `AbrtIffAborted`,
`WindowFitsBuffer`, `NoOrphanPcb`, `NeverStranded`, the action property `OnlyDrains` and the
refinement `ImplementsRelay` from `SizesAssumption`.  None of them is inductive.  The invariant, `ClientInv`, is either `DeadInv` (no struct, no pcb, no
callback, nothing outstanding) or `LiveInv`, whose parts each serve one code path:
`FrameOK` ties the dead flag to the frame it lives in, and says a stale pointer
belongs to an aborted client, which is why `client_dealloc`'s test of `aborted` is
enough; `PcbOK` says which callbacks are registered; `WaitsOK` that a half-closed
client has something left to do; `SendOK`, `RecvOK`, `PendingOK`, `WaitingOK`
account for outstanding operations, which is what the ASSERTs of the
done handlers test; `WindowOK` is `WindowFitsBuffer` per connection; `AskingOK` that a receive is outstanding
exactly while `socks_recv_buf` is empty.  The proof
has a lemma for each C function, whose hypothesis is the function's precondition,
and one step per action above them.  For the refinement `History` says where the bytes of
each direction are: what SOCKS took, then `client->buf`; what the application acknowledged,
then lwIP's queue, then `socks_recv_buf`.  The same lemmas say how each function moves them
(`GaveUp`, `Moved`), so that a direction ends `"done"` only with nothing behind it, and `Holds` adds their
lengths up, so that a half-closed client loses only what is delivered (`OnlyDrains`).

`LightsocksProxyProofs` proves `ProxyTypeOK`, `EndsTogether`, `RelayedSoFar` and the
refinement `ProxyImplementsRelay`, from `TableAssumption` (the table is a permutation of the bytes)
and `BoundsAssumption`.  `DecryptInverts`, `FiltersInvert` and `UnderstoodConcat`
say that the cipher works byte by byte, so that a stream may be cut anywhere;
`WriteMoves` that a partial write moves bytes and loses none.  `RelayedSoFar` is about a living connection;
for the refinement `Delivered`, that either peer has a prefix, is kept over its end.

`ProxyLoopProofs` proves `LoopTypeOK`, `BaseOutlivesLoop` and `StopSticks`.  The
strengthening is `AskedLeavesTrace`: entering the loop resets `event_break`, so a
stop that came before it lives only in `loopexit`'s event, and in the loop in any of
the three.  This is why the code needs both calls.  `StopDescends` is the safety half of
`BusyLoopStops`: once a stop has found the loop, each of the thread's steps lowers `StepsLeft`, which
starts at `MaxActive + MaxStops + 7` at most, and nobody else's raises it.

`FairQueueProofs` proves `FairTypeOK`, `FairAsserts`, `LeastIsSent`, `ToldBeforeNext`,
`ChargedExactly`, `LagBounded` and `NothingForgotten` from `FairQueueAssumption`.  The invariant ties the pending jobs to the interface
states: at most one of each job (`Shape`, `Order`), and each is there for a reason
(`Linked`): an operation job for a pending packet, a schedule job only while
nothing is being sent.  `Increment` and `ThroughTheWord` are the arithmetic: when the
least queued time is taken off, the sender's may pass below zero and comes back by the
addition, since it was among the least.  `DoneFirst` is `ToldBeforeNext` on the list of
jobs: the done job of a flow stays in front of the schedule job, whatever is set, unset
or run around them.  `LagBounded` follows from three of the others: only the least is sent, it pays exactly
its packet, and a rebase takes the same off all.

`SocksUdpGwClientProofs` proves the four invariants of `socks_udpgw` and `KeepsPromise`, the
refinement.  `Aligned` says where in the proxy's answer each state starts
to read; `Equipped` which interfaces and buffer it has.  A step maps to one of the promise's
events, since the report of an error and the free are one handler.

`TunLoopProofs` proves `TunTypeOK`, `TornDown` and `AtMostOneMore`.  `Held` says that what is held is what
the first `step` steps of `Setup` make (`Made`), so that a label frees no more than that.  Two theorems are the safety half of `TunStops`: the
timer that ends each wait is never lost (`TimerAlwaysRuns`), and after `exiting` every step of the
thread leads to the test that ends the loop (`StopAdvances`).

`UdpGwProofs` proves all five properties of `udpgw`, for any number of addresses, conids,
links, clients and ports and any buffers.  `Table` is what the server keeps of its connections; nearly
every operation moves, closes or removes some, so one notion (`Less`: the same
connections in another order, without some, some of them closed) carries the keys
and limits through all of them.  `JobsOK` is the job order after a first packet.  For
`RightOwner` the invariant `Owned` follows a conid from one flow to the next.  `FlowOK`: every packet in a
flow's buffer, or on its way with its conid, is of this flow, or a packet that rebinds the
conid is behind it; and unless one is on its way, the server's connection is the
flow's.  `InTurn`: along the way of a conid, from the buffer through the stream and the server's table to
the replies, the turns never go back once they have reached the flow's own, so that its first
reply is behind all those of the former flows, also where a closed connection still
sends its last.  The proof of the type invariant
found that the range of ports first stated left out the case of no
`--local-udp-addrs` at all.

`SequenceLemmas` holds the facts on sequences that these share.

Only model-checked are the liveness properties `ClientReleased`, `BusyLoopStops`,
`EachIsSent`, `TunStops` and `Recovers`, as liveness under fairness and ENABLED are beyond the
prover.  What they need besides fairness is proved: that something is always to come, and that what comes
leads on.  These are `NeverStranded` and `OnlyDrains` for `ClientReleased`; `NothingForgotten` and
`LagBounded` for `EachIsSent`; `StopSticks` and `StopDescends` for `BusyLoopStops`; `TimerAlwaysRuns` and
`StopAdvances` for `TunStops`; `ClientOrTimer` for `Recovers`.  The MC modules hold no theorem.

## 6. Not modelled

lwIP, libevent and badvpn's reactor and flow library are modelled only as
callers and callees of the code above.  `SocksUdpClient` is never reached:
`startTun2socks` is always given a udpgw address.  The activity has no protocol
of its own, and `onStartCommand` nothing but the two starts; what a second
one does to the fields of the service is left out.  The `Encryptor`'s constructor is
not modelled: it fills a vector of 255 entries for 256 byte values, which is undefined
behaviour for byte 255, and `LightsocksProxy` takes the table as a permutation instead;
base64 is a conversion of configuration text.  Packet formats, the keepalive and DNS of
the udpgw client, and the internals of the timer tree and of `BConnection` are left out, as are
whole parts of badvpn the app does not build or call (the VPN client and server,
NCD, tuntap tools): most of the repository's lines are these and the two vendored
libraries.  Undefined behaviour that
no document speaks of (stop clearing `encryptor` under a running filter, stop on
a freed base) is in `ProxyLoop`'s behaviours, but no property is stated of it.
