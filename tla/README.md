# Specifications of httperf

TLA+ models of the core of httperf (`src/src`), checked with TLC, and proofs
about them, checked with TLAPS. Source references below are relative to
`src/src`.

httperf is one process with one thread: an event loop (`core_loop`) that polls
sockets, runs timers and calls handlers, and *load generators* that react to
events (`event_signal`) by creating connections and calls. What is hard is not
parallelism inside the program but re-entrance (a handler that destroys an
object runs other handlers before it returns), the freedom of the kernel and of
the server between any two steps, timers that outlive what they watch, and
counters that have to agree at the end for the program to stop.

## Inventory

| Part | State it keeps | Operations | What makes it correct |
|---|---|---|---|
| Timers: `timer.c`, `lib/list.c` | active and passive list, the cached time | schedule, cancel, tick | A handle denotes the holder's own timer; a timer fires at most once, after its deadline, never after its cancellation; a tick ends |
| Connection engine: `core.c`, `conn.c`, `call.c` | per connection: state, send and receive queue, watchdog, poll interest | `core_connect`, `core_send`, `do_send`, `do_recv`, `core_close`, `conn_timeout`, `core_loop` | Replies go to the right calls; the poll waits for something that can come; `--timeout` ends what makes no progress; a closed connection leaves nothing behind |
| Call generator: `gen/call_seq.c` | per connection: calls issued, completed, destroyed | `issue_calls`, `call_done`, `call_destroyed` | Every call is issued once, in bursts; the connection is closed after the last |
| Connection generator: `gen/conn_rate.c` on `gen/rate.c` | counters, `paused`, `rg->done`, the arrival timer | `make_conn`, `destroyed`, `rate_generator_start`, `tick`, `done` | The limits hold; the test ends with the last connection |
| Event batch of one poll: `core.c:1542-1679` | epoll events or descriptor sets, `sd_to_conn` | dispatch, `conn_inc_ref`, `conn_dec_ref` | No event is delivered to a connection that is gone or is another one |
| Sessions: `gen/session.c`, `sess.c` | per session: up to `--max-connections` connections, each with a ring of pending calls and the number sent | issue, send, create, fail, time out, re-issue, destroy | Replies complete in ring order; a session ends once; nothing acts on a session that is gone |
| Session workloads: `gen/wsess.c`, `gen/wsesslog.c`, `gen/wsesspage.c` | counters of the burst or page, think timer, list of embedded URIs | `sess_create`, `issue_calls`, `call_destroyed`, `sess_destroyed`, `parse_config` | The bursts are those of the man page; the test ends with the last session |
| Reply parser: `http.c`; page scanner: `gen/wsesspage.c`; cookies: `gen/sess_cookie.c` | line buffer, state, lengths; scanner state per call; one cookie per session | `http_process_reply_bytes`, `call_recv_hdr`, `call_recv_data`, `call_issue` | What is reported of a reply, the links and the cookie do not depend on how the bytes are cut |
| Ports, addresses, host table: `core.c:188-325`, `conn.c` | bit maps, `previous`, `mask`; hash table; the next server and address | `port_get`, `port_put`, `hash_enter`, `hash_lookup`, `core_connect` | A port and a descriptor are in one hand; every server and address gets its share |
| Objects and events: `object.c`, `localevent.c` | reference counts, free lists; handler lists | new, inc, dec, destroy; register, signal | Freed once, when nobody refers to it; handlers in a known order |
| Request assembly: `call.c`, `core.c:555-584` | iovecs, `iov_index`, `iov_saved` | `call_append_request_header`, partial writes | What is sent is the request, also when it is sent again |
| Statistics: `stat/*` | counters, histograms | event handlers | Each session and connection is counted once, as what it was |
| Library: `lib/heap.c`, `lib/queue.c` | arrays | insert, remove | Ordering, bounds |
| Set-up and helpers: `httperf.c`, `lib/getopt.c`, `idleconn.c`, URI generators, `lib/ssl_writev.c` | options | parsing | - |

The parts interact through direct calls downwards (generators call `core_*`,
the engine calls `timer_*`) and through events upwards: `EV_CONN_CONNECTED`
makes the call generator issue calls, `EV_CALL_RECV_STOP` and
`EV_CALL_DESTROYED` let it count them, `EV_CONN_DESTROYED` lets the connection
generator count connections and create the next one. All handlers run on the
stack of the operation that signals the event.

Hard behaviours, with the lines where they bite, are listed under `hazards` in
`PROJECT.json`; those that a model covers name its properties, the others say
why no property covers them.

## Modules

| Module | Contents |
|---|---|
| `TimerService` | abstract: a set of armed timers, one per client |
| `Timer` | `timer.c`; refines `TimerService` |
| `TimerProofs` | theorems about `Timer` |
| `Pipeline` | abstract: the life of the calls of one connection |
| `Connection` | `core.c` and `gen/call_seq.c` for one connection, with the kernel and a server; refines `Pipeline` |
| `ConnectionProofs`, `ConnectionStreamProofs`, `ConnectionLifeProofs` | theorems about `Connection` |
| `ConnRate` | `gen/conn_rate.c` on `gen/rate.c` |
| `ConnRateProofs` | theorems about `ConnRate` |
| `Visits` | abstract: what the man page promises of a session's bursts |
| `Objects` | `object.c` and the C stack |
| `SessionManager` | `gen/session.c`, `sess.c` and what they drive in `core.c`, `conn.c`, `stat/`; extends `Objects` |
| `Workload` | `gen/wsess.c`, `gen/wsesslog.c`, `gen/wsesspage.c`, `gen/rate.c` and the epoll loop over several connections; extends `SessionManager`, refines `Visits` |
| `WorkloadProofs` | theorems about `Workload` and `SessionManager` |
| `PageScanner` | the HTML scanner of `gen/wsesspage.c` |
| `HttpReply` | `http.c`, `do_recv`'s loop, `gen/sess_cookie.c`; extends `PageScanner` |
| `HttpReplyProofs` | theorems about `HttpReply` |
| `Sockets` | host table, local addresses, port pool and the system calls of `core_connect` |
| `SocketsProofs` | theorems about `Sockets` |
| `MCTimer`, `MCConnection`, `MCConnRate`, `MCWorkload`, `MCHttpReply`, `MCSockets` | instances for TLC |

Definitions marked *Mutant of* are wrong variants of the definition that follows
them, used to see that a property notices the error; no specification uses
them.

### Timer

A block of memory is a member of `Blocks`; `active` and `passive` are the two
lists, `handle` is what the clients remember (`conn->watchdog`, `rg->timer`).
A tick is `TickStart`, an `Expire` or `Skip` for each block of the walk, and
`Sweep` (the second pass). While a callback runs (`current`), clients may
`Schedule` and `Cancel`. The lists are sets because nothing depends on their
order: `list_push` adds at the head and the walk never goes back, so what it has
still to visit, `todo`, only shrinks. A client follows the protocol of all
callers in the program: it forgets its handle when it cancels and as the first
statement of the callback.

### Connection

`at` is the program counter of the thread. `Poll`, `SkipEvent`, `TakeEvent`,
`Handle`, `EventDone` and `ConnTimeout` are `core_loop`; `SendBlocks`,
`SendFails`, `SendPart`, `SendAll` one iteration of `do_send`; `ReadBlocks`,
`ReadFails`, `ReadData`, `ReadEnds`, `ParsePiece`, `RecvReturns` are `do_recv`;
`BurstPending`, `NextBurst`, `LastBurstDone` are what `call_destroyed` does with
the end of a completed call, inside `do_recv`. `CoreClose` is `core_close` with
everything it sets off: the destruction of the queued calls and what
`call_destroyed` makes of each, and the drop of the creator's reference.
`SetActive` and `ClearActive` have the two meanings of `core.c:375-477`: an
epoll mask that is *replaced*, or descriptor sets. `Watch` is the tail of
`set_active`, which arms the watchdog if the head of either queue has a timeout.

External code: `tx` and `rx` are the kernel's buffers, `link` and `fin` the TCP
connection; the server reads requests and writes replies one after the other,
and may refuse, reset, close or fall silent if `ServerFails`. A reply is some of
the pieces *head* and *data* and then *end*.

Abstractions: time (an armed watchdog may expire whenever the thread is in
`timer_tick`), bytes (units of a request, pieces of a reply), and with them the
parser, of which the model uses that it stops at the end of a reply. As the
bytes of a reply are pieces, a read that would end in the middle of a header is
a read that ends after a piece. A call is its number; `left` and `timed` are the
fields of the call object that matter.

### ConnRate

`make_conn` is entered from `rate_generator_start`, the tick of the arrival
timer or, without a rate, from the end of a connection (`done`). When
`core_connect` fails at once the connection is destroyed before it returns, which
runs `destroyed` and `done`, and `done` enters `make_conn` again: `frames` counts
the calls of `make_conn` on the stack that still have to correct the counters
(`MakeFails`). `paused` and `num_conns = 0` after `core_exit` decide what the
nested calls do. A connection is anonymous: `alive` is their number.

The options that decide the limits are one record, `opt`, chosen in `Init`, so that
one run covers several command lines.

### Objects, SessionManager, Workload

A handler that fails a session runs, before it returns, the destruction of its
calls and connections, and the caller goes on with pointers it read before. So
the C stack is state: `stack` holds the calls still to be made, innermost first,
and each action takes the frame on top, changes memory and puts the calls that
the function makes in its place (`Run`). A frame carries the arguments the C code
has already evaluated and nothing it reads later. `mem` has a sequence of cells
per object type and the free lists: `object_new` gives out the cell freed last, so
an index may come to name another object as a C pointer may. `verdict` records a
failed assertion, a panic or the exit of `session_issue_call`.

| Code | Actions |
|---|---|
| `object_dec_ref`, `object_destroy` | `object_dec_ref`, `DestroySess`, `DestroyConn`, `DestroyCall`, `free` |
| `gen/session.c` | `session_issue_call`, `send_calls`, `create_conn`, `conn_connected`, `conn_failed`, `conn_timeout`, `call_done`, `forget_conn`, `sess_destroyed`, `close_conn_of`, `drop_ring` |
| `sess.c` | `sess_failure` |
| `core.c` | `ConnectInProgress`, `ConnectAtOnce`, `ConnectRefused`, `core_close`, `close_recvq`, `close_sd`, `recv_done`, `do_recv`, `do_send`, `do_send_part`, `epoll_wait`, `ConnectionEstablished`, `ReplyArrives`, `IoFails`, `EventIgnored`, `WatchdogExpired` |
| `gen/rate.c` | `sess_create` in a frame of its own, `not_done`, `done`, `RateTick` |
| `gen/wsess.c`, `gen/wsesslog.c` | `sess_create`, `IssueBurst`, `CreateInBurst`, `CallsCreated`, `call_destroyed`, `user_think_time_expired`, `gen_sess_destroyed` |
| `gen/wsesspage.c` | the same, with `IssuePage`, `CreateEmbedded`, `fetch_uri` |

The three workloads play the same role with different conditions, so they share
the session's record; what `call_destroyed` decides is one operator each
(`WsessDecision`, `WsesslogDecision`, `WsesspageDecision`). `SessHandlers` gives the
order in which `EV_SESS_DESTROYED` reaches its handlers, which differs for
`wsesslog`. `parse_config` groups the lines of a session file into bursts and
sessions; `MCWorkload` gives it a file with comments, blank lines and
continuations.

A frame may also name a place in a loop: `sess_destroyed` goes over the connections of
the session one by one, `drop_ring` over a ring, and both read what they need when they
get there. The code follows some pointers unchecked (`recv_done` takes `call->conn` and
what is behind the call in its queue); where they would lead nowhere the model stops
with a failed assertion.

`batch` holds the events of one `epoll_wait`, with the mask each connection had
then; they are handled one after the other against the memory as it is by that
time. A request may be written in two parts (`cut`: a fragment is shortened by a
partial write; `whole`: nothing has been lost of the request). A read brings
`opt.read` items: links of a page, or ends of replies. `visit` is history, what
became of each session, and is what `Visits` sees.

Abstractions: a reply is read whole or link by link (`HttpReply` and `Connection`
take it apart), buffers and when a write blocks (`Connection`), time (a think time
or watchdog that is armed may expire when the thread is between two polls), and of
the statistics the counters of sessions, replies and open connections.

What must hold between two events (`Idle`): a session or a connection that is not in its
free list has one reference, is in that list at most once otherwise, and a connection
that is used is open (`OneReference`); a call has a reference per owner (`RefsExact`), and its
owners are used (`OwnersLive`); the counters are those of the history (`CountersAgree`,
`HistogramAgrees`); the loop goes on as long as a session is not over
(`ExitsWhenAllOver`). Within an event, `ConnChecksPass` follows the connection that is
being closed: `core_close` is called again for it from handlers that its own calls run.
`HeldOnce` is this and `OneReference`.

### HttpReply and PageScanner

A byte stream is a sequence of units: a word of a line, `cr`, `lf`, or a unit of
content; a read ends between any two. `Encode` is the server: it writes a reply
from a record of what it means, and `ReplyExact`, `LinksExact` and `CookieSent`
compare what the client made of it with that record. `parse_status_line`,
`parse_headers`, `parse_footers`, `reply_data` and `xfer_chunked` are one turn of
the loop of `http_process_reply_bytes` in each state, `get_line` the line buffer,
`recv_done` the end of a reply within a read. `ReadEof` with `NewConn` is what
`session.c` does on a connection that fails: the calls not yet answered are issued
again on a new one. `Scan` is the scanner's switch over one unit of the page, with
the window over `src=` and what `strcmp` sees of a buffer that is not cleared
(`stale`).

### Sockets

`core_connect` is cut at its system calls: `socket`, `socket_fails`, `bind` (one turn
of the loop that looks for a port), `connect`, `connect_fails`, then
`conn_failure_closes`. The calls that have not returned are on a stack, since a
handler of `EV_CONN_FAILED` may connect again before the failed connection is
closed. `pool` has, for each local address, the free ports, `previous` and the bits
`mask` still allows. `NextWords` and `TakenWord` are the search of `port_get` for a word,
`lffs` and `TakenBit` that for a bit. `lffs` depends on the build: it calls `ffs`, which
takes an `int`, and the code for the upper half of a `long` is under `SIZEOF_LONG`, which
nothing defines. `int_bits` is how much of a word it sees. Where that is not all, `lffs`
may find nothing in a word that is not empty, and `port_get` goes on with bit -1: `Got` is
the port before the word (-1, one below `MIN_IP_PORT`, is `Reserved`), and `Cleared` the
bit `1UL << -1` happens to be (`shifted`; C leaves it undefined). `Mistaken` are the ports
this may confuse, the last one of each word. `table` is the hash table with its probing,
entered once by `conn_add_servers` (`Entered`, one server after the other). The kernel is
`fds` and `busy`; `rejected` is history: the ports whose `bind` has failed and that have
not been put back since.

## Runs

| Run | Instance | Shows | States |
|---|---|---|---|
| `timer` | 2 clients, 3 blocks, 3 instants, delays -1, 0, 1 | all of `Timer` | 217,672 |
| `epoll` | 6 calls in bursts of 3, requests of 3 units, 4 units each way, failing server, `--timeout` | a closed connection is quiet, one at work is watched and listened to, the pipeline, and that it comes to its end; `ConnectionSafety` under either poll is proved | 43,648 |
| `select` | 6 calls in bursts of 3, requests of 2 units, failing server, both timeouts | safety with descriptor sets and doubly counted events; the pipeline under either poll is proved | 67,651 |
| `served` | the same calls, no timeout, send buffer smaller than a request, a correct server | the connection comes to its end | 5,493 |
| `arrivals` | 4 or 6 connections, sequential or at a rate, with and without a limit and failing connects | counters, limits, when the program exits | 610 |
| `session` | two sessions under 13 command lines and networks | references, owners, destruction, ring and queues, statistics, the promise of the man page, when the program exits, termination | 745,125 |
| `reply` | 60 scripts of two or three replies | status, content, footers, links and cookies for any cut | 472,191 |
| `sockets` | seven command lines and builds, up to six connections, 6 ports per address, a full table of 4 | ports, descriptors and the spread of the load | 448,291 |
| `partial_burst` | 3 calls in bursts of 2 | a violation, see below | |
| `unwatched` | 2 calls, requests larger than the send buffer, select | a violation, see below | |
| `slot_lost` | 3 connections at a rate, `--max-connections 1` | a violation, see below | |
| `session_lost` | two sequential sessions, one reply that comes too late | a violation, see below | |

Bounds of `timer`, `epoll`, `select`, `served`, `arrivals`. Two clients are the least
that can confuse their timers, and three blocks let one be live, one cancelled and
waiting for the sweep, and one free. `MaxTime` bounds the clock; deadlines stay below
it so that every timer can expire. Two bursts of three make a first, a middle and a
last call of a burst, one burst following another, and a second call queued behind
both. Buffers smaller than a burst (and, in `served`, than a request) make writes
partial and block; `RxMax` lets a read return the end of one reply with the head of
the next. Six connections allow failures nested several deep (as far as
`--num-conns` allows them) next to connections that were established.

Bounds of `session`. Two sessions (`NumSessions`) are what it takes for one to be
given the memory of the other. `faults` counts the refused connections, resets,
time-outs and failure statuses of a run, at most two, so that a replaced connection
can fail again. `batch` (1 or 2) bounds the events of one poll, `read` (1 or 2) the
items of one read, `piped` and `conns` the rings; bursts of up to four fill a ring and
spill to the next connection. `early` says whether a connection may be reset before
its first reply. Each command line has the faults its workload survives; what the
others lead to is listed below, found by TLC with the same module.

Bounds of `reply`. `Scripts` holds every pair of seven kinds of reply, pipelined, and
the scripts with cookies, pages, redirections and a server that closes once
(`closes`) between or within replies; `LineMax` admits every line; `MaxSize` bounds
`size_t` where the differences of lengths wrap. Bounds of `sockets`: two bits and
three words make the search wrap around; one of the two bits is seen in the wide builds,
as the lower half is on 64 bits, with both outcomes of the shift; three of four names
collide and wrap; `num_conns` and `open` bound the connections.

Fairness. `Timer`: `core_loop` calls `timer_tick` in every iteration and its
poll has a timeout (`core.c:1546`, `1595`), a tick and a callback go on, and time
passes; nothing is assumed of clients. `Connection`: the thread goes on
(`ThreadFairness`, weak fairness of its steps together), and an armed watchdog
expires; in `epoll` nothing is assumed of the server, in `served` it accepts,
reads and writes. `ConnRate`: the thread goes on, connections end (what `epoll`
shows for one under `--timeout`), time passes, so arrivals become due, and one
tick does not find arrivals for ever (strong fairness of `Arrival` and
`TickEnds`, as the decision between them is the clock's). `Workload`: weak fairness
of the thread and of what wakes it up together (`Calls \/ Loop`): timers expire, the
kernel accepts, and a server that was asked answers; each event a poll returns has
one for a connection with something to do, and faults are bounded. `HttpReply`: weak
fairness of the client and, separately, of `Serve`. `Sockets` has fairness for
`SearchEnds` only (below): the loop that looks for a port runs in the only thread, and
ports that others hold are given up at last, each by weak fairness.

Deadlock is checked in all passing runs: `Finished` and `Idle` are the idle loop
of a program that still polls, or one that has returned. `partial_burst` and
`session_lost` switch it off, as their systems do stop.

## Where the code differs from its documents

* `partial_burst`: `call_destroyed` (`gen/call_seq.c:120`) waits for
  `MIN(burst_len, num_calls)` destroyed calls. If `--num-calls` is no multiple of
  `--burst-length`, the last burst has fewer, `core_close` is not called and the
  test does not stop by itself, against `src/man/httperf.1:274-276` and `298-301`.
* `unwatched`: every event cancels the watchdog. `do_recv` arms it again only if
  a reply is outstanding (`core.c:749`) and `do_send` not at all on `EAGAIN`
  (`core.c:537`), so a request that is blocked in the middle is not watched,
  against `src/man/httperf.1:540-548`.
* `slot_lost`: an arrival that meets `--max-connections` has been counted in
  `num_conns_generated` (`gen/conn_rate.c:67-71`), so fewer than `--num-conns`
  connections are created and the test does not stop.
* `session_lost`: `conn_timeout` (`core.c:360-368`) signals `EV_CONN_TIMEOUT` and then
  closes the connection by its address without a reference of its own. In between,
  the session has failed, its connection has been closed and freed, and with
  sequential sessions the next session's connection has been created in the same
  memory. That one is closed, its session waits for ever, and the test does not
  finish, against `src/man/httperf.1:640-642`.

## What TLC finds with other constants

The passing runs stay within what the code handles. Outside it TLC finds these
violations of the same properties, or of two more; the hazards in `PROJECT.json` name the
lines. Four of them have a configuration of their own, for
`tlc -config X.cfg M`: `MCSocketsSearch`, `MCSocketsPortsLost`, `MCHttpReplyInterim` and
`MCWorkloadResent`.

One connection and arrivals:

* `WatchedWhileReceiving` in `Connection` with select, requests of one unit and
  `TxMax = 1`: the second pass that a doubly counted descriptor causes
  (`core.c:1616-1637`) cancels the watchdog, `read` finds nothing and nobody arms
  it again.
* `EventuallyClosed` under `ServedSpec` with epoll, no timeout, `ReqSize = 2`,
  `TxMax = RxMax = 1` and bursts of two: the thread listens for a reply only
  while the server waits for the rest of the request.
* `EventuallyStops` in `ConnRate` at a rate with `ConnectFails`: a failed connect
  pauses the generator while no connection is open whose end would resume it.

Sessions (`MCWorkload` with other records):

* `QueuesFollowRing`, partial writes with resets (`MCWorkloadResent.cfg`): a fragment that
  was written in part is not restored when the call is sent on another connection
  (`core.c:558-564`, `1372`); the request lacks what was written, though
  `gen/session.c:150` is to "(re-)send all pending calls".
* `NotStranded` and `EventuallyFinishes`, sequential sessions with a time-out: the run
  `session_lost`.
* `OwnersLive`: sequential sessions or `--retry-on-failure` with refused connections,
  and `wsess` with a failure status or a refused connection. The creator of a
  connection that fails at once goes on with a session or connection that is gone.
* `ImplementsVisits`: `wsess` in bursts of two with a reset before the first reply (a
  session being destroyed issues calls); `--wsess=N1,N,X` with a burst length that
  does not divide N (the last burst is a whole one); `wsesspage` with two pages of two
  links and pipelining (a page is counted as complete early).
* `AssertsHold`, two connections per session and batches of two events: an event is
  handled for a connection that the one before it has freed.
* `QueuesFollowRing`, HTTP/1.0 with `--retry-on-failure` and a failure status.

Replies (`MCHttpReply` with other scripts):

* `ReplyExact`: an interim 100 reply (`MCHttpReplyInterim.cfg`), after whose header
  `parse_headers` expects headers and not a status line (`http.c:224`), so that the call
  has status 100 and no content, though `ChangeLog:537` says such replies are ignored; a
  server that closes in the middle of a body, whose reply counts as complete, and whose bytes are
  not taken back when the call is issued again; a header longer than the line buffer
  that arrives in two reads, the rest of which may be taken for the end of the header;
  a status of class 1 or bytes that nobody asked for.
* `LinksExact`: an URI without quotes that ends with `>`; a comment after a longer word
  has been in the buffer. Embedded objects of `<data>` are never found
  (`gen/wsesspage.c:326`).

Sockets (`MCSockets` with other options):

* `SearchEnds` (`MCSocketsSearch.cfg`, two words of three bits of which `ffs` sees one):
  where `ffs` misses the upper half of a word (`core.c:269-270`) and only such halves are
  left, `port_get` returns the ports before those words in turn. `bind` refuses them, as
  reserved or in use, and the loop in `core_connect` never ends though ports are free,
  against `ChangeLog:808` and `src/man/httperf.1:228`. If `ffs` sees whole words
  `SearchEnds` holds (`int_bits = Bits`, 253,294 states).
* `OutOfPortsInUse` (`MCSocketsPortsLost.cfg`, one connection at a time): a port that `bind`
  refuses, as it is in TIME_WAIT, is not put back (`core.c:1248`). With `--hog` the ports
  are lost one by one until `port_get` is out of them though nobody has any.
* `ResourcesExact`: a descriptor is lost when `fcntl` or `setsockopt` fails
  (`core.c:1174`).
* `port_get` reports that it is out of ports with up to a word of them free (`core.c:304`),
  which is why `OutOfPortsLate` allows that many.

A `connect` that fails at once under `--hog` puts its port back twice (`core.c:1302`,
`1462`), and a handler may connect in between. That is in the run: while the connection
that failed is open, `bind` refuses its port to another one, and the second return only
repeats the first. `PutBack` in `ResourcesExact` is that port.

## Proofs

The theorems hold for every value of the constants that satisfies the named
assumptions. `TimerAssumption`, `ConnectionAssumption`, `SizesAssumption`, `PoolAssumption`,
`TableAssumption`, `SessionsAssumption` and the three `OptionsAssumption` only give types: any number of clients
and blocks, calls and burst lengths, either poll, any buffer size, any limit, any size
of words, pools and tables, at least one server and one local address, any number of
sessions from one on, of connections of a session and of calls of a ring, any session file,
any faults in any number. `NamesAssumption`
says that a server's name is not the mark of an empty slot and that its hash code is not
negative; two codes may always be equal. Each proof has one lemma or step per action.

* `TimerProofs`. Inductive invariant `IInv`: the types, `HandlesAreLive`,
  `ListsAreDisjoint` and `WalkOK`. The three depend on each other: that a
  recycled block has no live holder follows from the lists being disjoint, and
  that a sweep may give it away from handles denoting unmarked blocks only.
  `Refinement` proves that each step of `Timer` is a step of `TimerService` or
  changes nothing there.
* `ConnectionProofs`. `IInv` adds to `TypeOK` and `ClosedIsQuiet` where the
  thread can be when the connection is closed, and that it holds the head of a
  queue where it takes one (`ThreadOK`), and that outside the destruction of a
  call as many calls are destroyed as completed (`Counted`). `Counted` is why
  `NoCallOnClosing` holds: the calls that `core_close` destroys are never counted
  as completed, so the numbers differ from the first of them on.
  `Listening` then follows the poll: the select sets name exactly the queues that
  are not empty, an epoll mask names one of them. It needs that nothing is queued
  before the connection is established, or the write that ends the connecting would
  be forgotten with the mask. It gives `NeverDeaf` and, for select, `PolledExactly`.
  `InBurst` numbers the calls in flight and says that with those completed they make
  up the burst; hence a burst that is followed by another has nothing in flight, and
  `BurstAccounting`.
* `ConnectionStreamProofs`. Replies carry no identity, so that the matching rests on
  what is under way in both directions. `Stream` follows it: the pieces of replies, in
  `buf` and in the kernel, run without a gap from the head of the receive queue on
  (`InOrder`); while the connection works, the units the server has and those in
  flight are exactly the requests from the one it serves on, `ReqSize` each, up to
  what `writev` has taken of the head of the send queue (`Asked`, which needs that a
  request behind it is untouched, `Unwritten`). One lemma per action that moves units
  or calls. With `InBurst`, which numbers the queues, `RepliesReachTheirCalls` and all
  of `ConnectionSafety` follow.
* `ConnectionLifeProofs`. Two results that need what the other modules prove.
  `CallsLiveOnce` is the refinement of `Pipeline`. The phase of a call is read off the
  queues (`PhaseOf`); `Numbered` ties it to its number: completed up to `Base`, then those
  of the receive queue, of the send queue, and none behind the last one issued. Each step of
  `Connection` is then classed by what it moves (`Issues`, `Sends`, `Completes`, `Closes`,
  `Keeps`), and each class is a step of `Pipeline` or none.
  `EpollWatches` is `Watched` for epoll, under which the mask names one direction. `Watching`
  says, point by point of the thread, that the connection has a watchdog or that there is
  something to hear in the direction it listens to: what is left when an event has cancelled
  the watchdog and found nothing. `TxBehind` is needed for the wait for room to write:
  the units of requests that the kernel holds are of later calls than every reply under
  way, and of calls that are being sent, so that a buffer without room means something
  is outstanding. The theorem has the hypothesis
  `Backend = "epoll"` since with select `Watched` is false (run `unwatched`).
* `ConnRateProofs`. `Counts` says how the counters relate while corrections are
  outstanding on the stack (`frames <= num_conns_destroyed`, destroyed and open
  connections are at most those generated and at most `--num-conns`), `Stack`
  where failed frames can be, `OneByOne` that a sequential generator creates a
  connection when there is none.
  `InStep` adds where `rg->done` can be set: a correction that is outstanding finds
  the counters in step, which gives `Accounting`.
* `SocketsProofs`. About `port_get`: the words behind the present one are all the others
  (`EveryWord`), so when it finds none, what is free is in the present word
  (`NoWordLeft`). `lffs` finds a bit of the word unless it misses some (`BitFound`), so
  `port_get` takes a free port and nothing else, except for ports that are `Mistaken`
  (`PortTaken`; `Sure` are the others, all of them where `ffs` sees a whole word). `Calls` is the
  inductive invariant under all three theorems: the types, how the calls of `core_connect`
  and `conn_failure` nest (`Nested`: each of another connection, all but the innermost in
  a handler), and what `core_connect` has gathered at each step (`Gathered`).
  `PortsUsedUp` follows.
  `Resources` adds `Descriptors`, `PortsHeld` and `PortsSplit`. Between `connect_fails` and
  `core_close` a port is both free and held (`Twice`): `bind` may refuse it to others then,
  but gives it to nobody, since its connection has it still (`InUse`); so the invariant
  excepts connections that are `Twice`, and needs no hypothesis on what handlers do.
  `ResourcesKept` has one hypothesis, `Handled`: no `fcntl` or `setsockopt` fails. TLC shows
  what happens otherwise (above).
  `LoadSpread` is about the table and the two turns. `EverySlot`: the probes from any hash
  code reach every slot. `Filled`, kept by every entry (`EnterFills`): no slot before the one
  of a name, in the order it is looked for, is empty; hence `LookupFinds`. `InTurn`: every
  server has had the same number of turns, those before the present one another one.
  The hypothesis `Roomy` says that the servers differ and are no more than the slots of the
  table: `hash_enter` does not end in a full one (`core.c:225`).

* `HttpReplyProofs`. That each call gets its own reply (`RepliesMatch`) rests on one
  equation, `InStep`: the line under way, the buffer, the wire and what the server has not
  sent (`Unsent`) are together what is left of the present reply and all later ones.
  `Left` says, for every state of the parser, what can be left of the reply and what the
  call and the connection record of the rest: the header units counted (`Counted`), what
  the lines of the head have told (`Told`), the content so far as the beginning of the body
  (`Begun`), the end of the present chunk. Each function of `http.c` takes the next piece
  off both sides: `GetLine` shows that `get_line` returns the next line of the stream or
  keeps all of an incomplete one, `DataTaken` that `parse_data` takes the next units of the
  body and no more. `Owed` says that units left over belong to a call that has been sent,
  which is the assertion of `do_recv`; `AllRead` that at an end of file in an entity there is
  nothing more to come of it, so that the end is that of the reply; `Pending` that a call
  sent again on another connection has kept nothing of a reply but header units.
  `ReplyTypeCorrect` follows. For `OneCookie`, `CookieInv` relates the session's cookie to
  the replies and that of a call to the session's when it was issued.
  The hypotheses are `Regular` and `LineMax >= 4` (a header line is two words and its end,
  and fits in `line_buf`). `Regular` leaves out what breaks `ReplyExact` (above): interim
  replies, statuses of class 1, and a server that closes within a body; the number of calls, the
  bodies, chunks, footers, cookies and ends of line are any. `MCHttpReply` has TLC check
  that its scripts are `Regular`. `DigitsAssumption` says that different numbers are written
  differently. Concatenation is used through its laws only (`Cat`, `First`, `Rest`).

* `WorkloadProofs`. The theorems are about every command line and every network, also
  those under which other properties of `Workload` fail (above). The invariant is `Sound`:
  as long as no assertion has failed, `Shape` and `Ledger` hold.
  `Shape` gives types to the memory and the stack: a pointer in a cell, an argument in
  a frame and an event in `batch` lead to a cell of the right type, a free list holds cells
  of its type, and a call that relies on what its caller has just found (`AtOnce`) is
  on top of the stack. Indices of cells are used again, so `Shape` cannot
  say more of a pointer than that; one lemma per action (`...Shape`) shows it is kept, most of
  them through three that say which change of memory and which pushed calls keep it
  (`ShapeSame`, `ShapeConn`, `ShapeStep`). With it `TypeOK` holds as long as `AssertsHold`
  does (`TypesHold`). It needs the condition: where `recv_done` or `call_done` does not find
  the call that it checks for, the queue or the ring may be empty.
  `Ledger` accounts for the lives of sessions and connections by the number of frames on
  the stack that are still to do something with them (`Number`). A session: its
  reference, the frames that will destroy or free it (`Ending`) and its places in the free
  list are together one (`SessOnce`); one that lives belongs to an open visit (`SessOpen`), and
  two that live to two visits (`SessApart`); the visits over are those counted, up to the
  frames that still have to count one (`Tallied`, `Counted`). A connection: its references
  are the one it has while it is open and those of the frames `Holding` it, which are
  `object_dec_ref`, `close_recvq` and `close_sd` (`ConnRefs`); there is one frame that destroys it
  or none, depending on its state and count (`ConnDies`), and one that frees it or one place
  in the free list (`ConnFreed`). That a second `core_close` does nothing is why the frames of
  the first are the only ones, and `ConnRefs` is why the connection outlives the handlers
  they run. Most actions move nothing of this (`Silent`); for those that do there is a lemma
  each, which balances the entries of one object (`Balanced`) and leaves the others alone
  (`ConnMoved`). With an empty stack the equations give `OneReference` and `CountersAgree`, and
  with a frame on top `ConnChecksPass`. A step that fails an assertion ends no session
  and leaves the loop running (`FailKeeps`), and there is none after it (`Stopped`):
  so `ExitsWhenAllOver` and the phases of `Visits` (`SessionsEndOnce`) hold without condition.
  Sequences are used through their laws only (`Pushed`, `Cat`), and that a finite set of
  places can be counted comes from the library's theorems on cardinalities.

Only model-checked:

* `AssertsHold`, `OwnersLive`, `QueuesFollowRing`, `NotStranded` and `ImplementsVisits` hold for
  the listed environments only (above): a proof would have to name the environments, and
  to account for every call of a burst, from the ring to the receive queue and in the
  counters of the generators. Of `AssertsHold` the checks on connections are proved
  (in `EachHeldOnce`), of `ImplementsVisits` the phases (`SessionsEndOnce`).
* `RefsExact` and `HistogramAgrees` are sums over data (the owners of a call, the bins of a bag),
  `LinksExact` is about a fold over the page: what these compute needs an induction over
  data, which is out of the prover's reach.
* All liveness properties: liveness under fairness is out of its reach too.

## Composition

`Workload` takes from `Connection` that a connection delivers replies in order, that a
closed one is quiet and that the poll listens for what is due; `Connection` takes from
`HttpReply` that the parser stops at the end of a reply wherever the reads cut it;
`ConnRate` takes from `Connection` that a connection ends. `Sockets` is what
`core_connect`, a single step elsewhere, does inside.

## Plan

1. Proofs: the reference counts of the calls of `Workload` and the accounting of bursts, for
   the environments in which the workloads keep their promise.
2. The select loop over several connections, with re-used descriptors.
3. `call.c`: the iovecs of a request, which `Workload` has as one flag.
4. The pairing of samples in `stat/basic.c`.

## Not modelled

* SSL (`lib/ssl_writev.c`, the branches under `HAVE_SSL`): optional, and OpenSSL's own
  state machine decides. kqueue: the branches under `HAVE_KEVENT` mirror epoll's.
* Option parsing and set-up (`httperf.c`, `lib/getopt.c`): sequential, with no state the
  rest changes; the options the models depend on are their constants.
* URI generators and `misc.c`: they fill in a call when it is created.
* `lib/heap.c`, `lib/queue.c`: compiled, used by nothing. `idleconn`: a program of its own.
* Times and histograms of times in `stat/basic.c` and the layout of reports: time is
  abstract here.
* `--runtime` and signals, which leave the loop wherever it is; failures of `malloc`.
