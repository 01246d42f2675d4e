# A TLA+ model of libuv-proxy

libuv-proxy is a forward HTTP/HTTPS proxy written in C on one libuv loop. This
directory models what the program does from its first option to the last
callback of a connection: the life of a connection, its reference count and its
three handles under every order of callbacks; the DNS client with its race
between answer and timer, its packets and its datagrams; the bytes relayed; the
clock; the parsing of requests; the settings and the log.

C files are named without their directory (`Main.c` is `src/Main.c` of the
repository); `PROJECT.json` names the lines each definition stands for.

## The system

| component | state it keeps | operations | hard behaviour |
|---|---|---|---|
| Connection (`Main.c`, `Global.c`) | `Client`: `state`, two TCP handles, a timer, `host`, `ref_count`; the global `client_count` | `on_new_connection`, `read_data`, `on_dns`, `on_timeout`, `close_cb`, `ref_client`, `unref_client` | up to six callbacks outstanding for one struct, in any order; calls that fail half way |
| Target connection (`PorxyClient.c`) | `targetClient`, `target_connecter`, `send_buf` in `Client` | `ConnectTargetServer`, `on_connect_porxy`, `read_data_porxy`, `sendTargetServer` | a connect that fails or is cancelled after another callback closed the handle; order of the first bytes |
| DNS client (`SendDNS.c`) | one `dns_request_t` per query: UDP handle, timer, result | `send_dns_query`, `on_udp_read`, `on_dns_timeout`, `on_udp_send`, `on_dns_close`, `send_default_dns` | answer against timer, two close callbacks, a retry from inside the callback |
| HTTP parsing (`parser/ParseHttp.c`) | none; it reads the block the read left in the heap | `parse_http_request`, `parseURL` | a head in several reads, lines that are no headers, leftovers of an earlier read, bounds of the copies |
| Start-up (`main`, `parse_dns`) | `SERVER_CONFIG` | options, the two prompts, listening | invalid input between valid input, lines longer than the buffer, numeric edges |
| Logging (`ServerLog.c`) | none | `put_log`, `put_time_log`, `put_ip_log` | the test whether to format and the test whether to print are written apart |
| Utilities (`Utills.c`) | none | `is_ip`, `removeSpace`, `get_client_ip` | |
| `parser/ParseSNI.c`, `sha256/` | none | never called | |

How they interact: `main` starts the loop; `on_new_connection` makes a `Client`
and starts to read it. `read_data` parses the first request and either connects
to the target at once (the host is an address) or asks a DNS server;
`send_dns_query` returns and calls `on_dns` from a later iteration of the loop,
`send_default_dns` blocks and calls it before it returns. `on_dns` connects, asks
the second DNS server, or gives up. `on_connect_porxy` starts to read the target.
Either side's end of stream, an error, or the timer closes both sockets;
`close_cb` closes the timer with the last socket and every callback gives its
reference back. There are no threads: a callback runs to its end, and all the
concurrency is in which callback comes next.

What makes each part correct:

- Connection: the count equals the number of callbacks that can still reach the
  struct; so it is freed by the last of them and by no other; a handle is closed
  once; both sides close together; every connection is freed in the end.
- DNS client: the callback of an accepted query runs exactly once and that of a
  refused one never; the struct lives until both handles are closed; a success
  carries an address.
- Target connection: bytes leave in the order they came, none is lost before the
  close; every buffer has one owner.
- The two together: what a connection believes of its DNS requests is what they
  still owe it.
- The clock: a connection lives as long as the timeout says, no longer and no less.
- Parsing: a request goes where its own head says.
- Start-up and log: what is served is valid and what was asked for, and the user
  is told how it ended.

## Modules

| module | stands for |
|---|---|
| `Client` | the `Client` struct, the functions of `Global.c`, and libuv's contract for handles. A C function on a `Client*` is an operator from the record before to the record after, so a handler reads as the composition of its calls in their order |
| `Proxy` | one action per callback of `Main.c` and `PorxyClient.c`, plus the closing phase of the loop; `FairSpec` |
| `ProxyProperties` | the properties of `Proxy`, and the mapping to `RefCounted` |
| `RefCounted` | abstract: an object with users is freed by the step that takes the last one away. It has no count |
| `MCProxy` | the instances TLC checks |
| `DnsQuery` | abstract: a query is refused, or accepted and answered once |
| `SendDNS` | `SendDNS.c`, with its properties and the mapping to `DnsQuery` |
| `Pipe` | abstract: one direction of a relay. What comes out is a prefix of what went in, until it is cut |
| `Relay` | `Proxy` with the bytes: `send_buf`, the writes libuv holds, `sendTargetServer`, the data half of `read_data`, `on_connect_porxy` and `read_data_porxy`, and the mapping to two `Pipe`s |
| `System` | `Proxy` composed with `SendDNS`, shown to implement `Proxy` |
| `Timing` | `Proxy` with a clock: `uv_timer_start`, `uv_timer_again`, the timer of a DNS request, and the resolver that blocks the loop |
| `DnsNetwork` | `SendDNS` with ports and datagrams |
| `DnsPacket` | the bytes of a query and the walk over an answer |
| `ParseHttp` | from the lines of a first read to the host and port looked up |
| `ServerLog`, `Config` | `ServerLog.c`; `main` up to `uv_run` |
| `MCRelay`, `MCSystem`, `MCTiming`, `MCDnsNetwork`, `MCDnsPacket`, `MCParseHttp`, `MCConfig` | their instances |
| `ProxyProofs`, `SendDNSProofs`, `DnsNetworkProofs`, `SystemProofs`, `RelayProofs`, `TimingProofs`, `ConfigProofs`, `ParseProofs` | the theorems; `ParseProofs` has those of `ParseHttp` and of `DnsPacket` |

`Relay`, `System`, `Timing` and `DnsNetwork` take the actions of the module they
extend whole and add conjuncts about variables of their own, so each of their
behaviours is one of the base module, and what is proved of `Proxy` and `SendDNS`
holds in them.

### Client and Proxy

`client[c]` is the struct of connection `c` and what the loop holds for it. A
`data` pointer that is not NULL is membership in `data`; `handle[h]` is what libuv
knows of the handle; `connecting` stands for a `target_connecter` still with libuv;
`dns[s]` counts the requests in flight at server `s`; `armed` is the running timer.
`state`, `ref_count` and `client_count` are the program's own.

An operator applied to a struct that is freed, a second `uv_close`, a second
`uv_tcp_init`, a `free` of a struct with a callback to come or a handle still
listed, and a `close_cb` with a NULL `data` set `fault`. After a fault the program
is undefined, so nothing happens any more; a property about faults speaks of
behaviours up to the first one.

Choices left open, and why they are what the program can meet:

- the order of callbacks (the loop, the peers, the resolver);
- whether a call fails, for the kinds of failure listed in `Mishaps`;
- whether the request is rejected, names an address or names a host. The choice
  also covers `host` being read uninitialised for a plain request with no `Host`
  header (`Main.c:140`, `:169`): each outcome the comparison can have is one of these;
- a client that sends again before its first request is answered, if
  `"early_data"` is in `Mishaps`. This happens with a request body in a second
  segment;
- whether the connect succeeds. A connect on a handle that is closing can only
  end in cancellation, and before the close callback.

`uv_timer_again` in the read handlers has no action: the timer is started with
repeat 0, and libuv then leaves it alone, so it fires once after `timeOut`.

The system resolver (`Dns = {}`) is modelled inside `read_data_name`, since
`uv_getaddrinfo` is called without a callback and blocks. A failure of it, like one
of `send_dns_query`, is the mishap `"query"`.

### SendDNS

`request[r]` is the struct of one call. The callback the caller gave is `on_dns`:
what it may do to this module's state, another query at the second server when
the status is not 1, is part of the same action (`CallBack`). A datagram is
reduced to what `on_udp_read` tells apart: ignored (changes nothing), an error or no
record (`status = -2`), or records whose first that is not a CNAME is an A record,
an AAAA record or something else. `uv_close` of a timer stops it; the close of the
socket cancels the pending send before its close callback.

### Relay

`link[c]` is the data of a connection. A chunk is what one read returns: its number
in its stream and the host it is meant for. A write libuv holds is in `queue[s]`; `on_write`
delivers the first one and frees its buffer. Before the close callback of a socket
its writes are cancelled, which is how a close cuts a stream. `buffers` counts the
heap blocks that nothing freed yet.

Two choices come from outside. A client is `Eager` when it sends before it has
heard anything; and `EarlyWrite` is what `uv_write` does with a socket that is
still connecting: on Unix libuv queues it, ahead of what is written from
`on_connect_porxy`; on Windows it refuses it, and the chunk is dropped with the log line
of `sendTargetServer`. A write to a connected socket does not fail at the call.

### System

A step of `Proxy` that sends a query and a call of `send_dns_query` are one step,
and so are a callback of `SendDNS` and the `on_dns` it makes; `owner[r]` is the
`client_data` and the `dns_address` of a request. `Proxy` leaves open whether a query can be
sent and how it is answered, and `System` takes both from `SendDNS`.

### Timing

libuv starts a timer from the time at which its loop last woke up. `now` is the time
it is and `loop_time` the time libuv has; they differ while `uv_getaddrinfo` without
a callback holds up the loop, and until its next turn. When the loop has slept (`woken`) the
descriptors are looked at before the timers that became due meanwhile, otherwise after
them (`Polled`, `PollOver`); time passes only while there is nothing left to do.
`uv_timer_again` leaves a timer without a repeat value as it is. With `Dns = {}` names go
to the resolver that blocks, otherwise to requests with timers of their own.

### DnsNetwork and DnsPacket

`wire` is the set of all datagrams sent. One that is in it may arrive at any time and
any number of times, so loss, doubling, delay and a new order are all there; and a
`Stranger` may send to an open port at any time. A request is bound to a port no other open
request has, though one may have had it, with datagrams still under way to it. A datagram
libuv has to queue is `dns_packet`, a local array, so what is sent later is the query or garbage.

`DnsPacket` keeps the bytes after the 12 of the header. `dns_packet` has room for `PacketSize` of
them; nothing checks that a name fits, and what is written past the end (`Overrun`) is not
followed any further. The server copies the question and
writes the owner of a record in one of the three forms of RFC 1035. A position past
the end of the packet is `Lost`. Both loops of the code that walk over bytes are functions of
the number of turns: `Walk` is where a name walk is after so many labels, `Starts` where
a record begins after so many records.

### ParseHttp

A line is a key and an address; the lines of a request are its request line, its head, the
empty line and its body. A read ends anywhere: behind some whole lines (`whole`) or inside the
next, of which it then has a beginning (`Begun`): its key, and a part of its address. `block`
is what the last read left in the heap, and `alloc_buffer` gets the same block again. `read_data`
passes `buf->len`, the size of the block, and not `nread`, so the lines an
earlier read left follow those of this one (`Stale`), the first of them as far as it was not
overwritten, and a line the read ended in goes on with it (`Glued`); `alone` tells whether
there was nothing of the kind and the request is all there. A plain request without a `Host` header
compares an uninitialised pointer with NULL: both outcomes are taken. What a loop of
the parser keeps of the lines is `Picked`, those at the given places in their order.
`RequestsAssumption` says what a request is: a name fits in `url`, no line of the head is
empty, and bytes that begin with an empty line are nothing but ends of lines.

### ServerLog and Config

The three functions of `ServerLog.c` differ in the text only; `put_log` is the set of places
a message reaches. In `Config` an action is one option or one line at a prompt, with all
`main` does for it; `rest` is what stdin keeps of a line `fgets` could not take whole; `asked`
is what the user meant, and `told` where the last message went. `main` ends in
`uv_run` (`serving`), with its port taken by another program (`taken`), with an option that is
wrong (`refused`), with help or an option that is not known (`left`), or in the handler of
`SIGSEGV` (`faulting`). A DNS argument is the sequence of what stands between its commas.

## What TLC checks

| run | instance | shows |
|---|---|---|
| `proxy_core` | 2 connections, 2 DNS servers, timer, failing `uv_read_start` and queries, with fairness | `MemorySafe`, `RefCountExact`, `CountsServed`, `SidesCloseTogether`, `FreedByLastUser` (implements `RefCounted`), `EventuallyFreed` |
| `proxy_mishaps` | the same with every mishap and 2 requests in flight per connection | `NoUseAfterFree`, `TimerCoversSockets`, `UpMeansArmed`, `NoLateConnect` |
| `proxy_untimed` | no timer, system resolver, with fairness | `ClosedIsFreed` |
| `dns_requests` | 2 requests over a network with strangers in it, 2 ports, with fairness | `MemorySafe`, `CalledOnce`, `NotStolen`, `HeardOrTimedOut`, `KeepsPromise` (implements `DnsQuery`), `EventuallyAnswered`, `EventuallyFreed` |
| `system` | 1 connection that may send early, 2 requests, 2 servers, with fairness | `QueriesCounted`, `ClientOutlivesQuery`, `SecondAfterFirst`, `ImplementsProxy` (`Proxy` with its fairness) |
| `relay` | 1 connection, 4 chunks each way: plain, with a client that waits, or a tunnel, with one that does not | `BuffersOwned`, and `UpInOrder`, `DownInOrder` (both directions implement `Pipe`) |
| `timing_own_dns` | 1 connection, 2 servers, timeout 6, DNS timeout 1 | `SilentIsFreed`, `DnsWaitBounded` |
| `timing_stalls` | 2 connections, the resolver blocks for up to 2 | `SilentIsFreed`, `NotCutShort` |
| `config` | 4 options, or 4 lines at the prompts | `ServesOnlyValid`, `OutcomeTold`, `ServedAsAsked` |
| `http` | requests in one read or cut anywhere, clean memory or an earlier request in it | `HostFromHead`, `CompleteIsServed`, `TunnelGoesWhereNamed` |
| `packet_walk` | 4 names, one of them too long for the packet, up to 3 records of CNAME, A, AAAA, owners as pointers or in full | `QueryAsksForHost`, `FindsAddress` |
| `relay_overtaken` | a plain client that does not wait | that `UpInOrder` fails there, see below |

`TypeOK` and `RelayTypeOK` are the type invariants; each also has a part that is no type (no
DNS counter below zero, no struct allocated without handles that will free it, no
writes held for a socket that does not exist).

Bounds. Connections share nothing but `client_count`, and requests share nothing
but the retry and the ports: two of each show every interaction there is, and the
theorems lift the safety results to any number. `MaxQueries` bounds the requests one
connection has in flight; a client that waits has one, and one that does not can
have a second at each server, or two at one, with 2. No other counter of `Proxy` and
`SendDNS` is bounded: the rest of the state is finite.

- `DnsNetwork`: a port used again needs two requests, and so do an answer that comes
  late and a retry. A datagram counts once however often it arrives.
- `System`: two requests are a first one and its retry, or the first ones of two
  reads of a client that sends early.
- `Relay`: connections share no data, so one is enough. `MaxChunks = 4` lets a request, two
  more chunks before or after the connect, and a chunk under way at the close be there
  at once.
- `Timing`: the times keep the order the code's have (`dns_timeout` is shorter than the
  timeout) and `MaxTime` lies beyond every deadline of a connection accepted at the start;
  stalls of 0 to 2 may add up over two connections.
- `DnsPacket`: three records put up to two CNAMEs ahead of an address and a record
  behind it. Names have one to three labels of different lengths. `PacketSize` is 11 in place
  of 500, so that one name just fits and one does not.
- `ParseHttp`: `MAX_HEADERS` is 3 in place of 100, and heads have up to four lines, so
  one may be too long. Names and ports take few values; the length of a name, which
  decides what `url` holds, is a number of its own (9, and 251 to 255): url takes the port in
  full, in part, not at all, or not even the colon.
- `Config`: `INT_MAX` is 39999 in place of 2147483647: the default of 30 seconds fits, and
  of the timeouts 9 and 41 only the first. Four options are two that conflict and two
  between; four lines are an invalid one and a valid one at each prompt. Widths of 5
  to 10 lie around the 9 that `port[10]` holds.

`CHECK_DEADLOCK FALSE` in every run but `http`, because the system does stop: when every
connection was served, when `main` has ended, when the answer is read, and after a
fault. Symmetry is used in `proxy_mishaps` and `timing_stalls`, where nothing tells the
connections apart and no property is a liveness property.

Fairness. `Closed` and `on_dns_close`: libuv runs its closing phase in every
iteration. `on_connect_porxy` is fair only for a target that is closing, where
libuv itself cancels the request; a target that never answers is allowed.
`on_timeout`, `on_dns_timeout`: the loop fires a timer that is due, and both are
started with a finite delay. `DnsAnswer` in `Proxy` is fair because a query has a
timer of its own: `EventuallyAnswered` shows that of the request, and `ImplementsProxy` of
the connection, from `SysFairness`, which says the same of the composed steps and
does not have `DnsAnswer`. `on_udp_send`: a datagram is sent or cancelled. Nothing is
assumed of peers, DNS servers or the network; a socket may never be ready to send.
`Timing` states its deadlines as invariants, so it needs no fairness: a timer that is
due runs before the clock goes on.

### Where code and comments disagree

`relay_overtaken`: `PorxyClient.c:138` says that the request of the client is passed on to
the target. A second read after `state` is 1 and before the target is connected is
queued on the target at once; `on_connect_porxy` writes the request behind it
(`PorxyClient.c:96`). So the body of a plain request in a segment of its own can
arrive ahead of its head. With `EarlyWrite = "refused"` it is lost instead.

The other claims that the code does not keep are definitions at the end of their modules,
or the properties above without their conditions. Each is refuted by TLC in the
instance named; to see it, add the property to a copy of the cfg with the change.

| claim | refuted in | what happens |
|---|---|---|
| `NoLeak` | `proxy_core`, `Mishaps = {"connect"}` | when `uv_tcp_connect` fails at once in `on_dns` (`Main.c:55-59`), one of two references is given back; the release at `Main.c:64` is not reached, and the struct stays allocated and counted |
| `MemorySafe` | `proxy_core`, `Mishaps = {"connect"}` | a request that names an address: the target handle is initialised and never closed (`Main.c:205`) |
| `MemorySafe` | `proxy_core`, `Mishaps = {"accept"}` | `close_cb` with a NULL `data` (`Main.c:274`) |
| `MemorySafe`, `SidesCloseTogether` | `proxy_core`, `Mishaps = {"early_data"}` | a second read before `state` is 1 runs the branch for the first connection again: a second `uv_tcp_init` of a live target, or a client closed by the second answer while the target stays up (against `Main.c:121`; the timer ends it) |
| `StateOneMeansConnected` | `proxy_core` | `state` is 1 once the connect is started (against `Global.h:23`) |
| `OnlyFirstReadParses` | `relay`, `Mishaps = {"early_data"}` | while the name is looked up a second read is parsed as a first one (`Main.c:132`, against `Main.c:131` and `Global.h:22`) |
| `ReachesItsHost` | `relay`, `Hosts = {"h1", "h2"}`, `MaxChunks = 2` | on a connection kept alive a later plain request goes to the host of the first (`Main.c:216`) |
| `HeldBelow1536K` | `relay_overtaken`, `MaxChunks = 24`, `Eager = {}` | nothing stops the reading of a target while its client takes nothing (against the 1.5 MB of `README.md:9`) |
| `ConnectsToAddress` | `system` | the result of `uv_ip4_addr` is overwritten (`PorxyClient.c:112`), so a success without an IPv4 address starts a connect to no address |
| `SuccessHasAddress` | `dns_requests` | an answer with records but no address is status 1 with an empty `ip_address`; `SendDNS.h:10-12` has status -2 for that |
| `QueryIntact` | `dns_requests` | a query that libuv has to queue is a pointer to the local `dns_packet`, read from the stack later (`SendDNS.c:286`) |
| `OwnAnswer` | `dns_requests` | neither sender, id nor question of an answer is compared (`SendDNS.c:120`, `:136`), so a late one is taken for the answer to the next request on its port, and so is what a stranger sends |
| `QueryInBounds` | `packet_walk` | the query for a name too long for `dns_packet` is written over its end (`SendDNS.c:286`) |
| `FindsAddress` | `packet_walk`, `Types = {1, 46}` | a record of another type ahead of the address hides it (`SendDNS.c:188`) |
| `StaysInPacket` | `packet_walk`, `Owners = {"mixed"}` | an owner that begins with a label and ends in a pointer takes the walk out of the packet (`SendDNS.c:164`) |
| `OnlyIdleExpires` | `timing_own_dns` | `uv_timer_again` on a timer without a repeat value does nothing, so a busy connection is cut when its timeout is over; the read handlers call it at every read (`Main.c:105`, `PorxyClient.c:17-19`) and the note at `Main.c:230` takes it to start the timer again |
| `NotCutShort` without its slack | `timing_stalls` | a connection accepted in the wake-up in which the resolver blocked starts its timer from before, and has less time than `--timeout` says |
| `HostFromHead` without `Plainly` | `http` | the loop over the headers ends neither at the empty line nor at the end of what was read, and the last `Host` wins |
| `CompleteIsServed` without `Plainly` | `http` | one read is taken for the whole head |
| `HostRequired` | `http` | the pointer to the host is not initialised (`Main.c:140`), so a plain request without a `Host` header may pass the check at `Main.c:169` |
| `TunnelWherever` | `http` | a read that ends inside the request line is taken for all of it (`Main.c:143`), and the tunnel goes to what there is of the name, or to that and the rest of an old line |
| `TunnelGoesWhereNamed` without the length | `http` | `url` holds a name of 253 characters but not its port as well |
| `PortAsAsked` | `config` | a port line too long for `port[10]` loses a digit, and its rest answers the next prompt (`Main.c:285-302`) |
| `NeverFaults` | `config` | `--timeout` is declared without an argument and faults in `atoi` (`Global.c:19`, `help.txt:6`) |
| `TimeoutAsAsked` | `config` | the timeout in milliseconds overflows an `int` |
| `DnsAsAsked` | `config` | Enter after a refused address serves that address |
| `DnsUsable` | `config` | an IPv6 DNS server is accepted, and no query can be sent to it |

## What is proved

All theorems hold for every set of connections or requests. From the modules'
assumptions alone (`TimeOut`, `Dns`, `MaxQueries`, `Mishaps` any value they allow):

- `ProxyProofs`: `TypeCorrect` (`[]TypeOK`), `NeverUsedAfterFree` (`[]NoUseAfterFree`),
  `TimerAlwaysCovers` (`[]TimerCoversSockets`), `UpAlwaysArmed`
  (`[]UpMeansArmed`), `NeverLateConnect` (`NoLateConnect`).
- `SendDNSProofs`: `TypeCorrect`, `AlwaysMemorySafe`, `AlwaysCalledOnce`, and
  `PromiseKept`, that `SendDNS` implements `DnsQuery`.
- `DnsNetworkProofs`: `NetImplementsSendDNS`; `NeverStolen` (`NotStolen`);
  `HeardOrTimedOutAlways` (`[]HeardOrTimedOut`).
- `SystemProofs`: `SysImplementsProxy` (the safety half of `ImplementsProxy`),
  `QueriesAlwaysCounted` (`[]QueriesCounted`), `SecondAlwaysAfterFirst` (`[]SecondAfterFirst`).
- `RelayProofs`: `RelayImplementsProxy`.
- `TimingProofs`: `TimingImplementsProxy`.
- `ConfigProofs`, for any ports and timeouts that are integers, any DNS arguments, any `IntMax` and
  any number of options or lines: `ConfigTyped`, `AlwaysServesValid` (`[]ServesOnlyValid`),
  `OutcomeAlwaysTold` (`[]OutcomeTold`), `AlwaysServedAsAsked` (`[]ServedAsAsked`).
- `ParseProofs`, for any requests `RequestsAssumption` allows, so heads and bodies of any length, and
  any `MAX_HEADERS` but 0: `HttpTyped`, `TunnelAlwaysGoesWhereNamed` (`[]TunnelGoesWhereNamed`),
  `HostAlwaysFromHead` (`[]HostFromHead`), `CompleteAlwaysServed` (`[]CompleteIsServed`).
- `ParseProofs`, for any `PacketSize` and names of labels of 1 to 63 bytes, as many as fit:
  `QueryAlwaysAsksForHost` (`[]QueryAsksForHost`); and `AddressAlwaysFound` (`[]FindsAddress`) for any number of records up to
  255 under `Plain`: no owner is of the form `"mixed"`, and every type is A, AAAA or
  CNAME. The table above has what happens to the address otherwise.

Under `NoKnownFault`, that is, for every `Mishaps` without `"accept"`, `"connect"` and
`"early_data"` (with any of these, the exact count or the closing together fails, as
the table above says):

- `ProxyProofs`: `AlwaysMemorySafe`, `RefCountAlwaysExact`,
  `SidesAlwaysCloseTogether`, `CountAlwaysServed`, and `Refinement`, that `Proxy`
  implements `RefCounted`.
- `SystemProofs`: `ClientAlwaysOutlives` (`[]ClientOutlivesQuery`), from
  `SysImplementsProxy` and the exact count.
- `RelayProofs`, for any hosts (`"none"` is not one), any number of chunks and either
  behaviour of an early write: `RelayTypeCorrect` (`[]RelayTypeOK`), `BuffersAlwaysOwned`
  (`[]BuffersOwned`), `DownAlwaysInOrder` (`DownInOrder`); and `UpAlwaysInOrder`
  (`UpInOrder`) under `ClientsWait`: no client of a plain request is eager, and where early
  writes are refused no client is. Without it the target sees body and head swapped, or a
  hole (`relay_overtaken`).
- `TimingProofs`, for any finite set of connections, any `TimeOut`, `DnsTimeout` and
  `MaxStall`: `DnsWaitAlwaysBounded` (`[]DnsWaitBounded`), `NeverCutShort` (`NotCutShort`),
  and, if there is a timeout at all, `SilentAlwaysFreed` (`[]SilentIsFreed`).

The argument. `NoUseAfterFree` says nothing of the count, so it is not inductive.
`IInv` of `ProxyProofs` adds that `ref_count` is at least the number of users: a
count too high leaks, but never frees early. A handler holds references of its own
between two calls, so the invariant inside it is `Live(cl, k)`: at least `Uses(cl)` and
`k` more. There is a lemma for each operator of `Client` that says how it moves `k`, and a
handler is the chain of the lemmas of its calls. A second part of the module repeats this with
equality (`Exact`), and needs two more facts: that a connection makes at most one
DNS request at a time and none beside a target (`OneUse`), without which a target
could be initialised twice; and that the sides close together. `CountsServed` is
then a count of a set that gains or loses one connection.

`Sound` of `SendDNSProofs` says that the two handles of a request open and start to
close together, that the timer runs exactly while they are open, and that an accepted query
has been answered exactly when they are not. Either callback closes both, so the
other is disabled: that is the race, settled.

`Covered`, in the third part of `ProxyProofs`, holds between any two calls of a handler, faults or not: the
timer is open exactly while a socket refers to the struct, and it is armed while a socket
is up. The second part could only be lost by a target that joins after the timer has
fired; a target only joins a client that is up, which the timer would have closed.

A socket that is open has a port of its own, from the call to its close; and a query and the
answer to it carry the port the query was sent from. So while a request waits, every
answer to it is under way to its own port, and nobody else hears it: that is the invariant of
`DnsNetworkProofs`. What comes to a port may be anything else, such as an answer to a request
that waits no more.

`SysInv` of `SystemProofs` joins `CoverInv` and the invariant of `SendDNSProofs` with the
count: for each connection and server the requests waiting are a finite set of as many
elements as `dns` says. Every step adds one element, removes one, does both at different
servers, or leaves the set as it is; `OnDnsStep` shows that `on_dns` counts the same
way whichever branch it takes, and that the outcome it gets from `SendDNS` is one
`Proxy` lets an answer have.

`RelayProofs` reads the eight ways a callback changes a connection off the actions
(`Moves`) and then forgets the actions: `Forward` keeps of the struct only that no socket is
revived, that no target is connected at once, and that `state` is 1 only with a target.
`Linked` says when the data is still empty and who owns each buffer. Along the way to
the client, what it got followed by what libuv holds is what it is to get, or the target
is not connected and nothing has come yet (`DownKept`). Along the way to the target, what
it got, what libuv holds and `send_buf` are together what is for it (`UpKept`): a chunk
passed on is queued in front of `send_buf`, so that move keeps the order only if `send_buf`
is empty and the write is not refused, which is what `ClientsWait` is for.
Either gives, for each move, a step of `Pipe` or a stutter.

`TimesOK` of `TimingProofs` bounds how far the time may be ahead of `loop_time`, of a timer
and of a request: by `Delay`, which is `MaxStall` for every connection that has asked for
its target, since each blocks the loop once. So a deadline is missed by no more than
`TotalStall`, whoever caused it. The part that carries `SilentIsFreed` is that time passes
only when nothing is due or closing: a connection without a running timer then has no
socket left (`Covered`), and as it has a user (`Exact`) it waits for a request, which is
due `DnsTimeout` after the timer at the latest. That is so because a request is only sent
for a client that is up, whose timer is still to come. `SilentIsFreed` counts from the last
read, which is no earlier than the acceptance, so it holds with a timer that is started again
at every read as well as with the one the code has.

`ServesOnlyValid` speaks of the end of `main` only, so `ConfigInv` says for each place in
`main` what it has passed: behind the port prompt the port is valid, and DNS addresses from
the options are valid or not given (`Valid`). `Kept_asked` keeps what is stored equal to what
was asked for last, unless a line was cut in two. It also says that `asked.cut` is set
whenever stdin still holds something (`rest`), because that is read as the answer to the
next prompt though nobody typed it there.

The parsers are pure, so there the work is in what their loops compute. The library states
induction for an operator, which none of the provers can instantiate; `ParseProofs` gets it
from the well-foundedness of `<` as a fact about sets (`Induction`), and with it that
recursive functions exist and obey their equation (`Recursion`).

- HTTP: the line at place `n` is the `Rank(places, n)`-th of `Picked(lines, places)` and
  `Picked` holds no other line (`PickedHolds`), which turns "the last `Host` among the
  first `MAX_HEADERS` headers" from a statement about a list into one about places of the
  head. `strtok` drops no line of the head (`HeadThenBody`), so when the read is
  the whole head, alone, the headers found are those of the head (`HeadersAre`).
- DNS: a walk follows a `Road`, a sequence of places each of which leads to the next, and
  ends where the road does (`WalkAlong`). The labels of a name lie on one (`NameIsRoad`),
  because each piece that `FlattenSeq` joins lies behind the ones before it (`Flat`). So the
  question reads as the name (`QuestionReads`), the walk over the answer is behind it where the
  records start, which stand in a `Row` (`RecordsInRow`), and every record is read where it
  was written (`RecordRead`). The first that is no CNAME is then, under `Plain`, the
  first with an address (`FirstRecordIs`, `AnswerRead`).

The proof of `HostFromHead` showed that it was too strong as it first stood: a `Host` header with
the literal of an IPv6 address is split at its first colon by `parseURL`, inside the
brackets. TLC has the counterexample as soon as such a header is among those of `http`. The
property now leaves that header out, and the instance has it.

The invariants were checked with TLC on small instances before they were proved.

Only model-checked: the liveness properties (`EventuallyFreed`, `ClosedIsFreed`,
`EventuallyAnswered`) and the fairness in `ImplementsProxy`, which are beyond the provers. Every
other property of a run is a theorem.

## Not modelled

Left out of the modules:

- `Config`: the end of stdin at a prompt (`fgets` then leaves the buffer as it was) and
  DNS lines longer than the 255 characters of `dns`; the bind of the listener, whose failure
  `uv_listen` reports.
- `ParseHttp`: names of more than the 255 characters of `url`, what lies in memory
  beyond one earlier read, and `freeHeader` and `freeURL`, which free on every path what was
  allocated on it and keep no state. `is_connect_request` is never called.
- `DnsPacket`: names with an empty label (a dot at the end) and labels of more than 63
  bytes, which `HostsAssumption` excludes, too; the bytes of the id, which are never compared.
- `Utills.c`: `get_client_ip` fills a text that is only logged; `removeSpace` appears as
  what the port prompt keeps of a line.
- The text of log lines and the time in them.
- `parser/ParseSNI.c` (never called) and `sha256/` (third-party, never called).
