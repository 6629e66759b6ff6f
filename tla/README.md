# yass in TLA+

yass is a proxy: `yass_cli` and the graphical clients accept local socks4,
socks4a, socks5, HTTP and redirected connections and relay them through a
shadowsocks, https, HTTP/2 or socks upstream; `yass_server` is the remote end.
This directory models what the order of events decides: queues, the accept loop,
streams and TLS sockets, the relays and the handshakes of both ends, the encodings of the
channel, the worker with every front end that drives it, resolvers, certificates,
settings and the two mains. Paths below are relative to `src/src/` of the
repository.

## The system

| Component | Source | State | Operations | Module |
|---|---|---|---|---|
| I/O queue | `net/io_queue.hpp` | ring of buffers, two indexes | push_back, pop_front, clear, move, swap, observers | `IoQueue`, `Fifo` |
| Content server | `net/content_server.hpp` | listeners, parked listeners, connection map and counter, work guard | listen, accept, on_accept, on_disconnect, shutdown, stop | `ContentServer` |
| ALPN selection | `net/content_server.hpp`, `net/connection.hpp` | callback argument of a shared `SSL_CTX`, `selected_proto_` | on_async_accept, on_alpn_select, on_tlsext, handshake | `AlpnSelect` |
| Stream | `net/stream.hpp`, `net/ssl_stream.hpp` | three callbacks, endpoints left, flags, timers | async_connect, wait_read, wait_write, close, the completion handlers | `Stream` |
| TLS sockets | `net/ssl_socket.cpp`, `net/ssl_server_socket.cpp` | handshake state, pending waits, early data | Connect, Handshake, ConfirmHandshake, Read, Write, WaitRead, WaitWrite, Shutdown, Disconnect, DoPeek | `TlsSockets` |
| TLS session cache | `net/ssl_client_session_cache.cpp` | LRU of entries with two slots | Lookup, Insert, ClearEarlyData, Flush | `SessionCache` |
| Client connection | `cli/cli_connection.cpp` | three buffer queues, progress flags, the channel | ReadStream, WriteStream, ReadUpstream, WriteUpstreamInPipe, connected, received, sent, disconnected | `CliConnection` |
| Server connection | `server/server_connection.cpp` | two buffer queues, progress flags, the channel | ReadStream, WriteStreamInPipe, WriteUpstreamInPipe, connected, received, sent, disconnected | `ServerConnection` |
| Proxy handshakes | both connections, `net/*_request_parser.cpp` | state of the handshake at each end, what was read too much | every reader and writer of a handshake message | `ProxyHandshake` |
| HTTP keep-alive | `cli/cli_connection.cpp` | bytes left of a body, two put-aside buffers | OnReadHttpRequest, OnReadHttpRequestAfterReuse, GetNextUpstreamBuf | `KeepAlive` |
| HTTP/2 tunnel, padding | both connections, `net/padding.cpp` | data source, its one chunk, padding counters | data frames, headers, deferral, end of stream | `Http2Tunnel` |
| Ciphers and framing | `net/cipher.cpp` | salt, counter, buffered chunk at each end | encrypt, decrypt | `CipherStream` |
| Client instance, worker | `yass/client.cpp`, `cli/cli_worker.cpp` | io_context, servers, callbacks, `in_destroy_` | Init, Add, Run, Stop; Start, Stop, the destructor | `Worker` |
| Front ends | `gtk/`, `gtk4/`, `qt6/`, `win32/`, `mac/`, `ios/`, `android/`, `harmony/` | state shown, buttons, form, VPN status | clicks, dispatched answers, exit | `FrontEnd`, `DesktopFrontEnds`, `AppleFrontEnds`, `MobileFrontEnds`, `Lifecycle` |
| Resolvers | `net/resolver.cpp`, `net/c-ares.cpp`, `net/doh_*`, `net/dot_*` | requests under way, timers | Init, AsyncResolve, Cancel, Reset | `Resolver` |
| Trusted certificates | `net/asio_ssl.cpp` | the store being filled | load_ca_to_ssl_ctx and its sources | `CaStore` |
| Configuration | `config/` | flags, file, registry, defaults database | read, validate, save, dialogs | `Settings` |
| Programs | `cli/cli.cpp`, `server/server.cpp` | signal set, thread, io_contexts | main, the signal handlers | `Programs` |
| Rate limiter | `net/stream.hpp` | two stamps, two counters, two delay timers | pgrsLimitWaitTime, ratelimit, the waits that use them | `RateLimit` |
| HTTP heads | `net/http_parser.cpp` | one head being parsed | the callbacks of the framer, ReforgeHttpRequest | `HttpParser` |
| Buffers, byte-level parsers, cryptography, platform helpers | `net/`, `crypto/`, `core/` | | | see *Not modelled* |

How they interact. A proxy runs on the thread of one `asio::io_context` (the default
build, without `HAVE_TBB`): a handler runs to its end, posted tasks run in order, the completion of an
asynchronous operation is queued and waits its turn. `ContentServer` accepts a
socket, puts a connection into its map and posts the connection's `start()`. A
`CliConnection` or `ServerConnection` goes through a handshake, creates a `stream` (or
`ssl_stream`, on top of `SSLSocket`) as its upstream channel and then moves buffers
between two sockets through `IoQueue`s, enciphered (`CipherStream`) or in HTTP/2 frames (`Http2Tunnel`).
When the connection closes it calls back `on_disconnect` of its
server, which wakes parked listeners and, in a shutdown, lets `io_context.run()`
return. The graphical clients run all this on a worker thread; callbacks of the worker
queue an event for the user interface's thread, in eight different ways.

What is hard about it, and what the properties are for:

- a handler that is queued cannot be cancelled, so `close()`, a new
  attempt or `stop()` run between an event and its handler (`Stream`, `ContentServer`, `Resolver`);
- progress rests on flags and kept callbacks: one that stays set, or is
  cleared without anything armed, stalls a connection for ever (`TlsSockets`, the relays);
- a read may end anywhere and a write may be partial: data is in one of several
  buffers and must neither be lost nor overtaken (`ProxyHandshake`, `KeepAlive`, `CipherStream`);
- two ends each decide from their own configuration what the bytes mean (`ProxyHandshake`, `Http2Tunnel`);
- state shared by several connections or threads is used by operations that interleave
  (`AlpnSelect`, `SessionCache`, `Worker`, `Programs`);
- a save may be cut short, a source of certificates may be missing, a message to a window may be lost.

`PROJECT.json` lists these hazards one by one, each with its line.

## The modules

**`IoQueue`** is the ring buffer itself: `queue_`, `start_idx_`, `end_idx_` of a set of
queues, with `enlarge_queue_by_2x` as its two copies. `Fifo` is what it promises:
sequences. `Refines` maps a ring to the sequence of the buffers between its indexes.

**`ContentServer`** has one action per handler and per posted task. `tasks` is the
queue of what was posted; `accepting` counts the `async_accept`s under way;
`conn[c]` is the life of a connection as the server sees it ("accepted" until the
posted `start()` has run; only then `close()` does anything, because `closed_` is
initially true). `OutOfWork` and `run_returns` are the `io_context`.

**`Stream`** separates an operation that is `armed` from its handler that is `ready`:
cancelling reaches only the former. The rate limiter appears as a choice: any wait may first
sit out a delay when a limit is set. **`RateLimit`** is the limiter itself: `pgrsLimitWaitTime` with its two guards against
overflow of `int64_t`, the stamps `ratelimit` renews and the delay timers of both directions, over a steady clock for the
timers and a wall clock for the stamps. The wall clock may be set back; a jump forward is not told apart from time
that passes, and the two readings of `absl::Now()` inside one call are one instant. In `Stream`, DCHECKs that fail are recorded in `failed`, and
the code goes on as in a release build. Its user is modelled from `CliConnection`.

**`CliConnection`**, **`ServerConnection`** are the relays, over what **`Relay`** defines for both. A buffer queue is the
sequence of its chunks (`Fifo`, which `IoQueue` is shown to implement). A method is an operator from a connection to the set of
connections its call may leave, and an action applies one to `conn`; `Then` composes
calls and stops where the code tests `closed_`. The peers send,
finish or reset at any time, and the sockets take any part of what they are offered. The handshake
is one step that leaves any of the states in which a handshake hands over to the relay; its inside
is the next module.

**`ProxyHandshake`** puts an application, a client, a server and a destination on six byte streams.
A message is two tokens, so that a read can end inside it, and carries what its
receiver looks at. One action per reader of the code; what the connection keeps of a
read that went too far (`pending_data_`, `handshake_pending_buf_`) is kept. A redirected connection has no message: `cfg.first` is how much its first
read returns, and `OnReadRedirHandshake` and the `done:` of `ReadMethodSelect` each hand that buffer on, as the code does (see below). All methods but HTTP/2, all five
kinds of application, destinations by name and address, with and without credentials at either end.

**`KeepAlive`** is a plain-HTTP client connection that is used for several requests: how the end of a
body is counted, what is put aside (`http_keep_alive_pending_buf_`) and put away
(`http_keep_alive_previous_buf_`), and the channel replaced for another host. **`HttpParser`** is how one head is read and rewritten:
what the visitor does in each callback of the framer, in every order of header lines and spellings, and with the framer (Balsa,
external) stopping anywhere. Whether an absolute URL is a valid GURL with a host, and what it is if read as host and port, are part of the URL: `url::` is not in the repository, and its `ParseAuthority` takes
the last colon. A token of `KeepAlive` has a place in what the application sends. Two constants of `KeepAlive` switch on what the
code does not survive, see below.

**`Http2Tunnel`** is both ends of an HTTP/2 stream; most of the code is the same word for word at both, so the
operators are of an endpoint. The session of nghttp2 or quiche is external: tokens in order, a window. `ResumeStream` is a call of that session, so a
source that was marked again is resumed inside `Sent`; what the model can lose is the mark, not the call.
**`CipherStream`** is encoder and decoder; sealing is ideal: a text opens with the counter it was sealed with.

**`TlsSockets`** is both sockets over a stream of records. A handler is an operator from a world (both
sockets, records, queued handlers) to a world. BoringSSL is external: what `SSL_do_handshake`, `SSL_peek`,
`SSL_read`, `SSL_write` and `SSL_shutdown` return is modelled from how the code uses it. **`SessionCache`** and
**`AlpnSelect`** share no state with it in the model, so `MCTls` runs one of the three at a time; the other `MC`
modules with several parts (`MCContentServer`, `MCStream`, `MCHandshake`, `MCChannel`, `MCServices`) do the same. The cache may
evict any entry to make room: which one the order of its LRU map picks decides nothing else.

**`Worker`** is the worker with its client instance: a record `w` shared by the two threads, operators named for
the methods, and `pc` for where `WorkFunc` and `Run` are. `PostTask` and `Stop` of the instance post a handler and clear `last_error_` only then: two steps (`clears`, `ClearLastError`),
between which the handler may run and fail. **`FrontEnd`** is what the user interfaces have in common;
each platform then has its handlers in **`DesktopFrontEnds`** (GTK 3, GTK 4, Qt, Windows), **`AppleFrontEnds`** (macOS, macOS
with the network extension, iOS, and the packet tunnel provider) or **`MobileFrontEnds`** (Android, HarmonyOS).
**`Lifecycle`** composes them with the worker; the platform is chosen in `Init`.

**`Resolver`** has the three back ends (DoH and DoT are the same code twice) under the three kinds of users:
a stream that may close, a connection that looks up again and again, the client instance that runs its io_context
to the end. **`CaStore`** is `load_ca_to_ssl_ctx`: a certificate is what the code asks of it, and what the system's store, the files, the directory and the bundles in the program hold are constants. A certificate may be out of its time wherever it comes from, and the store may
refuse it after its name was marked as found. **`Settings`** has one key
for each kind of key and one that earlier versions had (`timeout`); a text is what parsing makes of it; a save is the steps of its writes and deletions.
**`Programs`** is the two mains with their signals.

The theorems are in **`ContentServerProofs`** (with `IoQueue`), **`StreamProofs`** (with `RateLimit`, `Http2Tunnel`), **`CliConnectionProofs`**,
**`ServerConnectionProofs`**, **`HandshakeProofs`** (`ProxyHandshake`, `KeepAlive`), **`TlsProofs`** (`TlsSockets`, `SessionCache`, `AlpnSelect`, `CaStore`) and **`ServicesProofs`** (`Programs`, `Settings`, `Resolver`, `HttpParser`);
**`RelayLemmas`** has the facts about sequences of chunks both relays need. Definitions whose comment starts
with "Mutant:" are variants of the definition after them with one plausible mistake;
they are used to see that a property can fail, and no specification contains them.

## The runs

| Run | Properties | Bounds | States |
|---|---|---|---|
| `server` | `Accounting`, `ParkedWillWake`, `DrainedReleasesGuard`, `AcceptSound`, `EndsAfterRequest`; `OccupiedSlots`, `ObserversAgree`, `Refines` | 2 listeners, 5 connections, limit 2, 2 requests to end; two queues of three slots that grow to six, two buffers | 178,345 |
| `stream` | `WaitersContinue`, `EndsClean`, `ConnectAnswered`; `LimitKept` | up to 3 endpoints of two kinds; plain and TLS, with and without timer and limit; 2 bytes a second, 3 at a time, 7.5 seconds, the clock set back by up to 1.5 | 403,029 |
| `relay` | `DataSafe`, `UpstreamDelivers`, `EndsNoticed` | 3 chunks up, 2 down, `pending_data_` limited to 2 | 51,380 |
| `server_relay` | `DataSafe`, `DownstreamDelivers`, `ClientEndCloses` | 2 chunks up, 3 down | 26,053 |
| `handshake` | `Agreement`, `PayloadIntact`, `EndedForAReason`, `BothWaysDeliver`, `RequestsKept` | 6 methods, 5 fronts, 5 destinations, 2 chunks each way; 3 requests with bodies of up to 2, 2 hosts | 779,283 |
| `channel` | `TunnelIntact`, `TunnelDelivers`, `CipherInStep` | window of 2, 2 padded chunks, 3 tokens each way; frames of 2 bytes, reads of up to 5, 6 bytes | 230,927 |
| `tls` | `SocketsSound`, `MCSettles`, `CacheSound`, `NegotiatedSupported` | streams of 2 records, 2 requests, 1 greeting; 3 keys, 2 entries, 3 sessions; 3 connections | 699,358 |
| `lifecycle` | `StateTrue`, `CallsAnswered`, `ExitEnds` | nine programs, two configurations and a bad one, three actions of the user | 336,934 |
| `services` | `AnswersRight`, `StoreRight`, `SettingsKept`, `StartsValid`, `InstanceThere`, `HeadsRight`, `ServicesEnd` | 3 lookups; 4 platforms; 1 edit, 1 save, 2 runs; 2 endpoints, 2 connections, 3 signals; heads of up to three lines | 526,792 |
| `redir_twice` | violated: `FrontFull` | as `handshake`, redirected connections | |
| `keepalive_split` | violated: `RequestsKept` | as `handshake`, heads split | |
| `resolver_reset` | violated: `InitBeforeUse` | as `services` | |

Why the bounds are enough. Two queues are what move and swap need, and the ring
meets every pair of indexes of its capacity. Two listeners are the first number at which the limit
can be exceeded and at which one parked listener can be woken by a connection of the
other; five connections let three be open, one close, and another come. Three
endpoints make a first, a middle and a last attempt. Three chunks are one in flight,
one queued and one unread; a `pending_data_` of 2 is both filled and exceeded. Three requests are one that is
counted, one put aside behind it and one behind that. A window of 2 is smaller than what is sent and than
a padded chunk; a frame of 2 bytes makes every read of 3 to 5 bytes several frames, and the mask of 3 is as close to the
frame size as the code's is. Three actions of the user are start, stop and start again, or either and exit. Two sessions fill
an entry and the third pushes one out; with three keys and two entries one has to go. Stamps are renewed every three seconds at the most, so 7.5 seconds
have two renewals. `IntMax` of `Settings` stands for 2^31 - 1: only which side of it a number lies on matters.

Deadlock in TLC's sense is not checked: the bounds on connections, requests, lookups and
actions stop every behaviour in the end, and a closed connection rightly does nothing. That
nothing stops too early is stated by `ParkedWillWake`, `WaitersContinue`, `DataSafe`, `SocketsSound` and the
liveness properties.

### What they show

- *I/O queue*: every operation, at every position of the indexes, does to the buffers what a
  FIFO does, and a slot outside the queue holds no reference.
- *Server*: counter and map agree, a parked listener has someone to wake it, no listener accepts twice or on a
  freed acceptor, the limit is exceeded by no more than `OvershootBounded` says, the guard of a drained server
  is released, and after a request to end `run()` returns with the destructor's checks satisfied.
- *Stream*: a reader or a writer that waits has exactly one operation that will call it
  back; a stream that ended has nothing armed; a connect is always answered. With a limit, no window of time moves more than
  the rate and one burst allow, and a wait that was delayed is not delayed again unless bytes moved or the clock was set back meanwhile.
- *Relays*: what has arrived at each end is a prefix of what was sent and what is missing is
  in the queues, in order; whoever holds data has something armed; ends are noticed.
- *Handshakes*: for every pair of front and method the server connects where the application wanted and only for
  credentials it accepts; payload sent early, late or in one piece with a message comes through
  in order and once, but for what the first read of a redirected connection returned (`redir_twice`, below): under ss it goes twice, and `PayloadIntact` says that it
  is there exactly twice, ahead of all; under the other methods it goes once and nothing after it goes at all, which `BothWaysDeliver` says by `Deliverable`. A handshake ends early only for the reasons `EndedForAReason` lists; then data flows both ways.
- *HTTP heads* (in `services`): a head that is accepted has the host, port and connection header its lines say, and what is passed on
  has neither lost a line nor kept one meant for the proxy, and no host in its URL that GURL finds.
- *Keep-alive*: requests whose heads come whole reach their own host, in order, their bodies cut right.
- *Channel*: no padding reaches an application and no payload is taken for padding; the deferred data source is always
  resumed; the counters of encoder and decoder agree whatever the cuts.
- *TLS*: a kept callback has an operation that will run it; a connection is answered or closed in the end, but
  for the cases named in `Settles`; a single-use session is handed out once, and no
  entry is found empty; whatever connection the ALPN callback finds, the protocol it picks was offered and is served. That the callback may record it on
  another connection is not ruled out, since the code does so.
- *Life cycle*: a window that shows STARTED has a server listening with the configuration shown, one that shows STOPPED
  has none, and every start and stop is answered. `StateTrue` leaves three things out: a thread message that Windows lost (`lost`, which `CallsAnswered` leaves out too), an `Add` that failed and
  had no error to report (`unsaid`), and a start that cleared `servers_` of a server not yet stopped (`freedBusy`): the stop still posted for that one is undefined behaviour. A listen that
  fails half-way is not left out: it must be shown as a failure. Leaving the program ends it whatever was lost.
- *Services*: a lookup is answered once, by its own answer, and always unless its user left; the required roots the program itself has in their time get into the store unless the store refuses one,
  and nothing else does that should not; settings survive, but for one that was stored under its earlier key alone when a save of the registry was cut short; nothing starts with settings that cannot work; the signal thread
  never uses a destroyed instance and a signal ends the program.

### Where the code and its texts disagree

Three runs show it:

- `redir_twice`. `OnReadRedirHandshake` processes the buffer of the first read (`cli/cli_connection.cpp:675`, on a Mac 607) and returns to the `done:` of
  `ReadMethodSelect`, which processes it again (484). The channel is not connected, so `OnStreamRead` puts the same buffer into `pending_data_` twice (2279). With ss `connected()`
  encrypts it twice and the destination gets it twice. With the other methods the buffer itself is queued twice, and drained by its first write; its second turn fails
  `DCHECK(!upstream_.front()->empty())` (1791), or without DCHECKs stops `WriteUpstreamInPipe` there for good (1717): what the application sends after its first read never leaves.
- `keepalive_split`. A request whose head comes in two reads is put away to be read on ("use a small number to
  remind of incomplete request", `cli/cli_connection.cpp:1873`), but `OnReadHttpRequest` has cleared `http_is_keep_alive_` (764),
  and line 1831 takes it back only while that is set. The first half is lost; the second half and
  everything behind it goes out raw, to the host of the request before.
- `resolver_reset`. The callback of a lookup resets the resolver (`cli/cli_connection.cpp:2208`) and leaves `resolver_inited_` set, so the next lookup
  of a kept-alive connection uses a DoH or DoT resolver that is not there, against "Init should be called before use"
  (`net/doh_resolver.cpp:155`).

Others were met while modelling; the models behave so, and the properties are stated around them.

*Server and relays.* `parallel_max` is compared after each accept (`net/content_server.hpp:424`) and not at all when a
close wakes every parked listener (532-537), so with several listeners the number of connections exceeds
the "Maximum concurrency" of `config/config_core.cpp:195`. After `stop()` "all pending I/O will be cancelled"
(`yass/client.h:144`), but a connection whose `start()` is still posted opens afterwards. A connect timer that has
expired already is taken for the next endpoint's (`net/stream.hpp:519`). The client's
`disconnected()` keeps the downlink "because downstream is buffered" (`cli/cli_connection.cpp:2622`), and the `OnDisconnect` after a failed
write closes it (1752). The server's keeps it for the same reason (`server/server_connection.cpp:1909`), but a
channel that gave up by itself has no `eof()`, which line 1780 asks for: the downlink stays open and nothing reads the client. A `ClientHello` that comes after
the next accept records its protocol in the other connection, against `DCHECK_EQ(selected_proto_, proto)`
(`net/connection.hpp:137`). A listen that fails leaves the server unstopped, against "Call shutdown() or stop() before free content server"
(`yass/client.cpp:325`, `server/server.cpp:197`, `net/content_server.hpp:133`). Debug-build assertions that can fail:
`net/stream.hpp:233`, `cli/cli_connection.cpp:984`, `cli/cli_worker.cpp:196`, and `net/stream.hpp:344`: `wait_write` stores the callback of a wait that is delayed and asserts in the
next line that there is none, where `wait_read` has the assertion in the timer's handler (257). `Stream` records it in `failed` as "ul_delay".

*TLS.* `DoPeek` may read a record ahead, and the wake-up for `SSL_pending` is under `#if 0` (`net/ssl_socket.cpp:401`, 852): the
record waits for the next one. A server's `Shutdown` during early data reports success and sends no close_notify
(`net/ssl_server_socket.cpp:97`).

*Handshakes.* A message that comes in two reads is refused by most readers. A channel replaced for another host keeps
`upstream_https_handshake_` and the padding counters of the old one (`cli/cli_connection.cpp:1283`). Bytes that
arrive while it connects go raw into `pending_data_` and are not counted: with `SendsWhileReplaced = TRUE` `RequestsKept` fails as well. A client with credentials is
refused by a socks5 server that asks for none. `OnReadHandshakeViaSocks5` re-arms the reader of the
other protocol after a would_block (`server/server_connection.cpp:1119`).

*Channel.* A client that pads towards a server that does not starts before it knows (`cli/cli_connection.cpp`, about 2421); with
`Paddings = {"client"}` the remote gets padding as payload. Stream ciphers wait for `key_len_` bytes instead of the IV (`net/cipher.cpp:236`).

*Life cycle.* On Windows thread messages are lost while a modal loop runs. A second "activate" of the GTK program starts a running
worker again. An error while the network extension's preferences load shows STOPPED with the tunnel up. HarmonyOS's `setProtectFd` and
`destroyRoutine` can wait for each other. `config::SaveConfig` returns false always, and nobody asks.

*Resolver, certificates, settings, programs.* A request bootstrapped by `getaddrinfo` starts although it was cancelled meanwhile; an
error in one address family fails the lookup. c-ares whose socket cannot be duplicated never answers (`Unanswered` leaves it out). A bundle without a final newline loses its last
certificate. A root is marked as found (`net/asio_ssl.cpp:112`) before `X509_STORE_add_cert` may refuse it (148), and is then not taken from the supplementary bundle; that bundle goes through the same
test of time as any other, so a root that has expired in it is missing. A certificate its user denies on a Mac may still come from the built-in bundle. `-k` is set before the settings are
read and a stored `insecure_mode` overrides it (`config/config_version.cpp:80`, `config/config.cpp:121`). A settings file is truncated
before it is written, and the registry is written key by key: `timeout` is deleted before `connect_timeout` is written (`config/config.cpp:172`, 173), and a program killed between them
loses a setting an earlier version had stored (`Lost`). An absolute URL that is no valid GURL, such as one whose port is too high, passes `isUrlValid` and is forwarded as it is
(`net/http_parser.cpp:66`), and a CONNECT to an absolute URL is accepted if its last colon is followed by a port. A server whose name does not resolve runs without a listener. A
SIGINT queued together with a SIGQUIT is dropped by `signals.clear()`.

## Fairness

All of it is weak fairness, of steps that the code's event loops or the system take by themselves.

- `ContentServer`: posted tasks run, a cancelled accept completes, `run()` returns when it
  has nothing to do, and a connection that is open closes some
  time. The last is the environment's: without it a graceful shutdown waits for ever, by design.
- `Stream`: ready handlers run; lookup, connect, handshake and timers complete. Socket waits need not.
- `CliConnection`, `ServerConnection`: a handler whose event has come runs, connecting ends in some way,
  and a peer that is there takes what it is sent. Nothing is assumed of what the peers send or when they end.
- `ProxyHandshake`: each of the four parties goes on when it can; nothing is assumed of how a read is cut.
- `Http2Tunnel`: some step is taken while one is possible; the peers read.
- `TlsSockets`: each end goes on while it can (written out, since a world is one variable). That a peer closes is not assumed.
- `Lifecycle`: the worker's thread runs, the main loop serves what is queued, the system completes what it was asked for, and
  a user closes a message box (a modal loop would hold everything up otherwise). Clicks are not assumed.
- `Resolver`: handlers run and timers expire; a DNS server need not answer. `Programs`: both threads run; no signal need come.

## Proofs

Thirty theorems, for every value of the constants: any number of listeners, connections, queues, buffers, endpoints, chunks,
sessions, signals and lookups. In each case an invariant was first checked by TLC and then proved to be preserved, action by action; the
property of the run follows from it. Why each property is not inductive as it stands, and what was added:

- **I/O queue** (`SlotsCorrect`, `ObserversCorrect`, `Refinement`). The invariant
  says of each ring that its indexes are inside the capacity and that a slot holds a
  buffer exactly if its distance from the start is below the length. Neither part is inductive
  alone: growth copies slots, and only together with the occupancy does the copy have
  the same content. The refinement of `Fifo` then follows from one lemma per operation on the
  content of a ring; wrap-around is arithmetic on the two cases `start <= end` and
  `start > end`. `ObserversCorrect` needs induction over data: `byte_length` and the sum it is compared with are recursive functions.
  The lemma `Induct` is induction in a form the provers can use, for a set of numbers instead of a predicate, from the library's fact that
  `<` is well-founded. By it both functions exist (`SumExists`), and the loop's value at each
  index is the rest of the sum (`GoodBytes`).
- **Content server** (`AccountingCorrect`, `ParkedCorrect`, `DrainedCorrect`, `AcceptCorrect`). `IInv` adds `MapIsPast` (ids in
  the map were handed out), which makes an
  insertion raise the cardinality by one; `Accounting` keeps the counter from
  dropping below zero, so the type of the counter is not inductive without it. `AcceptSound` needs a second invariant, `AInv`, on
  the queue of posted tasks: which `start` belongs to which connection, that an accept comes before every request to end, what a
  stopped server has left, and a budget: every listener that is not parked may add one connection to those that are open, and every
  connection that has closed has raised what they may come to.
- **Stream** (`StreamInvariant`, `WaitersCorrect`, `EndsCorrect`). A kept callback has an operation behind it, but the
  operation may be armed, or its handler queued, or queued already when the stream closed. `StreamInv` counts the outstanding
  operations of each kind in each stage of connecting; lemmas on the queue of handlers say what a step does to a count.
- **Rate limiter** (`LimitCorrect`). `RateBounded` is about all that was moved since the stream connected, while the code only
  compares what was moved since a stamp. `LimitInv` carries what is in between: what was moved up to a stamp had its time but for a second
  and a burst per stamp, a wait that was let through had waited for what came after the stamp, and a delay nothing disturbed ends when the
  time is enough, although the other direction may renew the stamp meanwhile and the wall clock may be set back.
- **HTTP/2 tunnel** (`TunnelCorrect`). `TunnelIntact` is about what came out, and says nothing of a chunk that is cut in two or of padding that has yet
  to arrive. The lemmas read a stream of tokens as an automaton does: a place in it (`Spots`) is how many padded chunks have begun, how much payload has passed and what
  the chunk still has, and `Leads(s, D, t)` says that the tokens `D` go from one place to another. `Flow` then says of a direction that what the reader put aside, what is
  on the wire and what is still to be sent lead from the place of the reader to that of the writer. The loop over `padding_in_middle_buf_` is a recursive function; it exists
  (`UnpadIs`) and stops between two chunks with the payload in order (`UnpadReads`), by induction in the form of `Induct`. `Agreed` adds that both ends
  pad alike from the request on, `Finished` that no data follows the end of the stream. The theorem has the hypothesis `"client" \notin Paddings`, without
  which the property is false (see above).
- **Relays** (`RelayInvariant` and `RelayCorrect`, once for each end). `DataSafe` says that what arrived, what is queued and what is unread
  make up what was sent, and that whoever has data to take on will be woken. `RelayInv` adds where data can be at each stage of
  the channel (`UpShape`, `DownShape`, `Shape`), that a `wait_write` of the channel is parked on data, and that a connected channel without
  one is writable: without the last, `OnUpstreamWriteFlush` could leave data with nobody to wake. A handler is a chain of calls, so
  every method has a lemma of what it needs and what it leaves behind (`DownDone` towards the client, `UpDone` towards the remote),
  and an action is proved from the lemmas of the methods it calls.
- **Handshakes** (`HandshakeInvariant`, `AgreementCorrect`, `EndsCorrect`, `PayloadCorrect`). The three properties look at the server once it
  streams, at the reason of an end and at what arrived, and say nothing of the way there. `HandshakeInv` describes every state by a few numbers.
  The payload is one stream, and a buffer or a wire holds a piece of it (`Seg`), behind a whole message (`Front`) or the half of one that is still to
  come (`HalfFront`); under ss the stream of a redirected connection begins with its first read twice, and under the other methods the empty buffer
  left over stays at the end of `upstream_` (`PayloadTail`). The pieces join end to end, from what the destination got to what the client has not read yet. Until the client's channel is
  there (`Early`) the server is untouched and the invariant says how far the application and the client's front are; from then on (`Late`)
  client and server are at corresponding places of the exchange of one message (`LateAt`: which message, who holds it, how much of it), so a
  server that parses a request parses the one the client made from what the application asked for. `Ends` keeps, for either end that has
  closed, one of the reasons. As for the relays, each method has a lemma of what it makes of a piece and each action is proved from those. That the data
  in a piece is the data that was sent (`Kinds`) is induction over a recursive function, in the form of `Induct` above.
- **Keep-alive** (`RequestsCorrect`). `RequestsKept` joins what went out, is kept and is unread, but does not say where a request begins, and
  the code knows that only by counting. `KaInv` gives every buffer its place in what was sent: `Whole`, what was sent is one request after the other; `Stands` and `Raw`, a
  buffer is a stretch of it, with its heads rewritten or as it came; `Owes`, the count of the code is what is left of a body, all of it for the host of the
  channel, and behind it a request may begin; `Even`, what was put aside does not end inside a head. The theorem has the
  hypotheses `~SplitHeads` and `~SendsWhileReplaced`: without either the property fails, as the run `keepalive_split` shows for the first.
- **TLS sockets** (`SocketsCorrect`). `SocketsSound` says that a kept callback has an operation behind it, but a handler is a chain of calls, and
  while it runs the operation that led to it is neither armed nor queued. `Kept(v, e, ops)` is the invariant of a world in the middle of a handler of end `e`,
  whose callbacks may also be served by `ops`, what is running; `SocketsInv` is that with nothing running. Three things were added. A callback of
  the handshake is kept only by a loop in `STATE_HANDSHAKE`, and that of a shutdown only by a socket that is connected (`Served`). Each end has a budget
  of records it may still send without looking for room, three at most (`Budget`), which bounds the streams. And what the server has to answer
  is bounded by what the client sent and what is still under way (`Amounts`), where a record of data is counted once: in the stream, or as
  got. What a call of the TLS library may change is one relation (`Lib`), shown of each call; the functions of the sockets are then proved from it.
- **TLS** (`CacheCorrect`, `AlpnCorrect`, `StoreCorrect`). `CacheInv` says that every session in the cache was inserted before, that the slots of an
  entry differ and that no two entries share a session: only then is a session that is handed out gone. Each operation is followed
  by what it does to the set of sessions of an entry (`Ids`). For ALPN the callback may change the cipher of another connection; `AlpnInv` says that every
  cipher of every connection is one the listener serves. For the certificates `CaInv` says source by source what is in the store, that a
  root marked as found is in it or was refused (or leaving the supplementary bundle out would lose it), and that the root a Mac's user trusts was let in where its stores were
  looked at.
- **Programs** (`InstanceCorrect`). `ProgramInv` ties the life of the instance and of the signal thread to where `main` is: the thread is
  inside the time the instance lives, since `main` joins it first.
- **Settings** (`KeptCorrect`, `ValidCorrect`). `SettingsKept` speaks of what a program has read, so between programs it says nothing:
  `StoreTells` says what the place holds after a complete, a partial and no save, by what reading it would give, and `SaveGoesOn` what is still
  to be written or deleted; a setting that is there under neither of its keys is the one case in which reading gives the default. Underneath are lemmas on the conversions: what is written reads back as it was, rates with their units included, and
  what any parser accepts is in its range.
- **Resolver** (`AnswersCorrect`). An answer carries no number in the code: it is right because at most one is still to come, from the back end, posted, or from
  the C library (`Outstanding`); because a timer that is due while a lookup is at work is that lookup's (`Timers`); because the live
  requests are those in `reqs_`, IPv4 first (`RequestsKnown`); and because a lookup that succeeded leaves no address, no request and no bootstrap
  behind for the next one of the same back end (`NothingLeft`), while after a failure the users make a new one or never ask again. A lookup that failed
  may leave its bootstrap running or its timer due, and the lemma `LookupReady` is where the habits of the users are needed.
- **HTTP heads** (`HeadsCorrect`). `HeadsRight` speaks of a parser that has returned. `ParserInv` says what is known between the callbacks: after the first
  line, the error is there exactly if the line is wrong, since the visitor cannot stop the framer and the header lines are read all the same; after the lines,
  what is read is what the last line about it says (`HeadRead`). The loop over the lines is a recursive function, which exists (`TurnExists`) and whose
  value after each turn is what the lines so far say (`LoopReads`), both by induction in the form of `Induct`.

The assumptions are the named ones of the modules: bounds are naturals, there is at least one listener, the users and back ends of the resolver and the platforms are those of the code, certificates, stores and bundles are of the kinds the code tells apart, no required root is on the list of the skipped ones, the address in a bracketed IPv6 literal has no brackets itself, the capacity of a queue and the
limits are positive, the clock does not reach `INT64_MAX`, `RateMax` holds the rate the command line is given.

Only model-checked:

- all liveness, since the prover handles neither fairness nor `ENABLED`;
- what needs more induction over data: `CipherInStep`, whose module also has the only `RECURSIVE` operator;
- `StateTrue` of the life cycle: no fact about data stands in its way, but its inductive invariant, over nine platforms and two threads, has not been worked out.

## Not modelled, and why

- The `HAVE_TBB` build, in which connections run on threads of their own: the
  unlocked gap between reading the counter and parking a listener
  (`net/content_server.hpp:424-429`) needs its own module.
- The build with the http_parser library instead of Balsa; what the framer itself makes of bytes.
- The byte formats below a message (socks, HTTP lines, DNS, HTTP/2 framing, base64, JSON): no control; the models
  use the verdict of a parser on a buffer.
- Cryptography and certificate verification: outside what a model checker can decide; ideal in `CipherStream` and `TlsSockets`.
- I/O buffers, logging, process and platform helpers: memory and system calls without state of their own. The one
  write that matters, of the settings, is in `Settings`.
- Windows, menus, tray icons and translations of the front ends; packets of the mobile tunnels (tun2proxy is not in the repository).
- What the accept handler of a server does that was freed half-listening (`yass/client.cpp:325`): undefined behaviour.
- Options that only the command line has (`-t`, `--version`).

## Plan

1. Proofs about `Worker` and `Lifecycle`: `StateTrue`, one platform at a time over a common invariant of the worker.
2. Models: `ContentServerThreads` for the `HAVE_TBB` build; an abstract relay that both relays implement.
