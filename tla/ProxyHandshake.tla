---------------------------- MODULE ProxyHandshake ----------------------------
(***************************************************************************)
(* The handshakes between an application, the client proxy and the server  *)
(* proxy: the request the application makes (CliConnection: redirected,    *)
(* SOCKS4, SOCKS5 or HTTP), the request the client makes of the server in  *)
(* its turn (CliConnection::connected and the answers it waits for), and   *)
(* the other end of that (ServerConnection::Start and the handlers behind  *)
(* it), for every method but HTTP/2, which is module Http2Tunnel.          *)
(*                                                                         *)
(* All of it travels on byte streams: a read returns any part of what has  *)
(* arrived, which may end inside a message or reach into the payload       *)
(* behind it.  A stream is a sequence of tokens; a message is two tokens,  *)
(* so that it can be split, and carries what its receiver looks at; a      *)
(* chunk of payload is one token.  The relay of the payload, and how the   *)
(* connections end, are the business of CliConnection and                  *)
(* ServerConnection: here it moves a buffer at a time and no peer leaves.  *)
(***************************************************************************)
EXTENDS Naturals, Sequences

CONSTANTS
  Methods,      \* the cipher methods: a subset of AllMethods
  Fronts,       \* what applications speak: a subset of AllFronts
  Destinations, \* the kinds of destination asked for: a subset of AllDestinations
  MaxData       \* bound: chunks of payload in each direction

AllMethods == {"ss", "https", "socks4", "socks4a", "socks5", "socks5h"}
AllFronts == {"redir", "socks4", "socks5", "connect", "plain"}
\* "none": no host, an unspecified address, or port 0; "self": the proxy, which
\* only a redirected connection can mean, one nobody redirected.
AllDestinations == {"domain", "ipv4", "ipv6", "none", "self"}

ASSUME MethodsAssumption == Methods \subseteq AllMethods
ASSUME FrontsAssumption == Fronts \subseteq AllFronts
ASSUME DestinationsAssumption == Destinations \subseteq AllDestinations
ASSUME MaxDataAssumption == MaxData \in Nat

VARIABLES
  cfg,   \* what the parties are configured with, and what the application wants
  app,   \* the application and its destination: what each sent, what the first got
  c,     \* the client connection
  s,     \* the server connection
  wire   \* the byte streams: a2c, c2a, c2s, s2c, s2r, r2s

vars == <<cfg, app, c, s, wire>>

CIPHER_METHOD_IS_SOCKS_NON_DOMAIN_NAME(m) == m \in {"socks4", "socks5"}
CIPHER_METHOD_IS_SOCKS5(m) == m \in {"socks5", "socks5h"}

\* A message of a kind, with what its receiver looks at in it.
Msg(kind, what) == << <<kind, what, 1>>, <<kind, what, 2>> >>
Chunk(n) == << <<"data", n, 0>> >>

First(buf, n) == SubSeq(buf, 1, n)
Rest(buf, n) == SubSeq(buf, n + 1, Len(buf))

\* What the parsers find: they are given the buffer of one read, and a message
\* that is not complete in it is no message.
Starts(buf, kind) ==
  Len(buf) >= 2 /\ buf[1][1] = kind /\ First(buf, 2) = Msg(kind, buf[1][2])
What(buf) == buf[1][2]
Behind(buf) == Rest(buf, 2)

\* Why a buffer could not be parsed: the read ended inside a message.
Cause(buf) == IF buf[Len(buf)][3] = 1 THEN "split" ELSE "malformed"

InitialClient ==
  [ closed |-> FALSE, why |-> "none",
    reads |-> "method",         \* which read of the downlink is armed
    channel |-> "none",         \* then "resolving", "connecting", "connected"
    request_ |-> "none",
    pending_data_ |-> << >>,
    upstream_ |-> << >>,        \* buffers; the placeholders of a handshake are empty
    awaits |-> {} ]             \* the handshake flags: "method", "auth", "socks", "https"

InitialServer ==
  [ closed |-> FALSE, why |-> "none",
    stage |-> CASE cfg.method = "ss" -> "ss" [] cfg.method = "https" -> "https"
                [] OTHER -> "socks",
    handshake_pending_buf_ |-> << >>, chunk |-> << >>,
    request_ |-> "none", channel |-> "none", upstream_ |-> << >> ]

Init ==
  /\ cfg \in [method : Methods, front : Fronts, dest : Destinations, eager : BOOLEAN,
              credentials : {"none", "right", "wrong"}, auth_required : BOOLEAN,
              first : 0 .. MaxData]   \* chunks the first read of a redirected one returns
  /\ IF cfg.front = "redir" THEN cfg.dest # "domain"     \* the kernel knows addresses
                            ELSE cfg.dest # "self"
  /\ (cfg.front = "redir") = (cfg.first > 0)
  /\ app = [sent |-> 0, back |-> 0, got |-> << >>,
            next |-> CASE cfg.front = "redir" -> "data" [] cfg.front = "socks5" -> "greet"
                       [] OTHER -> "request"]
  /\ c = InitialClient
  /\ s = InitialServer
  /\ wire = [d \in {"a2c", "c2a", "c2s", "s2c", "s2r", "r2s"} |-> << >>]

Sends(d, tokens) == [wire EXCEPT ![d] = @ \o tokens]
Taken(d, n) == [wire EXCEPT ![d] = Rest(@, n)]

Ended(p, why) ==
  [p EXCEPT !.closed = TRUE, !.why = IF @ = "none" THEN why ELSE @]

-----------------------------------------------------------------------------
(* The application (external). *)

RequestKind == CASE cfg.front = "socks4" -> "req4" [] cfg.front = "socks5" -> "req5"
                 [] cfg.front = "connect" -> "http" [] OTHER -> "get"

\* The greeting, the request, then payload: behind the request at once if it is
\* eager, else after the reply.  A plain request gets no reply.
AppSends ==
  /\ ~c.closed
  /\ \/ /\ app.next = "greet"
        /\ wire' = Sends("a2c", Msg("greet", "noauth"))
        /\ app' = [app EXCEPT !.next = "wait"]
     \/ /\ app.next = "request"
        /\ wire' = Sends("a2c", Msg(RequestKind, cfg.dest))
        /\ app' = [app EXCEPT !.next = IF cfg.eager \/ cfg.front = "plain" THEN "data"
                                                                             ELSE "wait"]
     \/ /\ app.next = "data" /\ app.sent < MaxData
        /\ wire' = Sends("a2c", Chunk(app.sent + 1))
        /\ app' = [app EXCEPT !.sent = @ + 1]
  /\ UNCHANGED <<cfg, c, s>>

\* A reply of the client proxy is read, or payload.
AppReads ==
  /\ wire.c2a # << >>
  /\ \/ /\ Starts(wire.c2a, "method")
        /\ app' = [app EXCEPT !.next = "request"] /\ wire' = Taken("c2a", 2)
     \/ /\ Starts(wire.c2a, "granted")
        /\ app' = [app EXCEPT !.next = "data"] /\ wire' = Taken("c2a", 2)
     \/ /\ wire.c2a[1][1] = "data"
        /\ app' = [app EXCEPT !.got = Append(@, wire.c2a[1])] /\ wire' = Taken("c2a", 1)
  /\ UNCHANGED <<cfg, c, s>>

\* The destination sends payload of its own.
RemoteSends ==
  /\ s.channel = "connected" /\ ~s.closed /\ app.back < MaxData
  /\ app' = [app EXCEPT !.back = @ + 1]
  /\ wire' = Sends("r2s", Chunk(app.back + 1))
  /\ UNCHANGED <<cfg, c, s>>

-----------------------------------------------------------------------------
(* The client: the request of the application. *)

\* Mutant: every name goes to the server.
OnCmdConnect_unresolved(dest) ==
  [c EXCEPT !.channel = "connecting", !.request_ = dest]

\* OnCmdConnect and OnConnect: a name is resolved here for the methods that
\* cannot carry one, else the channel begins to connect.
OnCmdConnect(dest) ==
  IF dest = "domain" /\ CIPHER_METHOD_IS_SOCKS_NON_DOMAIN_NAME(cfg.method)
    THEN [c EXCEPT !.channel = "resolving"]
    ELSE [c EXCEPT !.channel = "connecting", !.request_ = dest]

\* Mutant: the rest of the buffer the request came in is not looked at.
HandleStream_forgets(d, buf) == [d EXCEPT !.reads = "stream"]

\* state_stream of ProcessReceivedData: what came behind the request waits for
\* the channel, and nothing more is read until it is there; else a read is armed.
HandleStream(d, buf) ==
  IF buf = << >> THEN [d EXCEPT !.reads = "stream"]
                 ELSE [d EXCEPT !.reads = "no", !.pending_data_ = @ \o buf]

\* OnReadRedirHandshake: there is no request, the kernel knows the destination;
\* the name found for the address, if any, takes its place.  A connection made
\* to the proxy itself is not supported.
OnReadRedirHandshake(buf) ==
  IF cfg.dest \in {"none", "self"} THEN {Ended(c, "destination")}
  ELSE {HandleStream(OnCmdConnect(dest), buf) : dest \in {cfg.dest, "domain"}}

\* The done: of ReadMethodSelect processes the buffer once more, and so puts it
\* into pending_data_ a second time.  With ss either one is encrypted, and its
\* payload goes out twice.  The other methods queue the buffer itself: it is
\* empty when its second turn comes (Leftover).
HandleAgain(d, buf) == IF cfg.method = "ss" THEN HandleStream(d, buf) ELSE d
Leftover == IF cfg.front = "redir" /\ cfg.method # "ss" THEN << << >> >> ELSE << >>

\* PerformCmdOpsV5, PerformCmdOpsV4 or PerformCmdOpsHttp, and the reply: the
\* request is granted before anything is known of the server.  (The reply to a
\* refused socks request is left to CliConnection.)
PerformCmdOps(buf, n, reply, behind) ==
  IF What(buf) = "none"
    THEN c' = Ended(c, "destination") /\ wire' = Taken("a2c", n)
    ELSE /\ c' = HandleStream(OnCmdConnect(What(buf)), behind)
         /\ wire' = [Taken("a2c", n) EXCEPT !.c2a = @ \o reply]

\* A plain HTTP request is sent on, rewritten, ahead of what follows it.
ReforgeHttpRequest(buf) == << <<"forward", What(buf), 0>> >>

OnReadSocks4Handshake(buf, n) ==
  Starts(buf, "req4") /\ PerformCmdOps(buf, n, Msg("granted", "none"), Behind(buf))

OnReadHttpRequest(buf, n) ==
  \/ Starts(buf, "http") /\ PerformCmdOps(buf, n, Msg("granted", "none"), Behind(buf))
  \/ Starts(buf, "get") /\ PerformCmdOps(buf, n, << >>, ReforgeHttpRequest(buf) \o Behind(buf))

\* The greeting is answered, and what else the read returned is dropped.
OnReadSocks5MethodSelect(buf, n) ==
  /\ Starts(buf, "greet")
  /\ c' = [c EXCEPT !.reads = "socks5"]
  /\ wire' = [Taken("a2c", n) EXCEPT !.c2a = @ \o Msg("method", "noauth")]

OnReadSocks5Handshake(buf, n) ==
  Starts(buf, "req5") /\ PerformCmdOps(buf, n, Msg("granted", "none"), Behind(buf))

\* No parser takes the buffer: OnDisconnect.
Refused(buf, n, kinds) ==
  /\ \A kind \in kinds : ~Starts(buf, kind)
  /\ c' = Ended(c, Cause(buf)) /\ wire' = Taken("a2c", n)

\* The first read is offered to the parsers in turn, once.
ReadMethodSelect ==
  /\ ~c.closed /\ c.reads = "method"
  /\ \E n \in 1 .. Len(wire.a2c) : LET buf == First(wire.a2c, n) IN
       IF cfg.front = "redir"
         THEN /\ n = cfg.first
              /\ \E d \in OnReadRedirHandshake(buf) :
                   c' = IF d.closed THEN d ELSE HandleAgain(d, buf)
              /\ wire' = Taken("a2c", n)
         ELSE \/ OnReadSocks5MethodSelect(buf, n) \/ OnReadSocks4Handshake(buf, n)
              \/ OnReadHttpRequest(buf, n) \/ Refused(buf, n, {"greet", "req4", "http", "get"})
  /\ UNCHANGED <<cfg, app, s>>

ReadSocks5Handshake ==
  /\ ~c.closed /\ c.reads = "socks5"
  /\ \E n \in 1 .. Len(wire.a2c) : LET buf == First(wire.a2c, n) IN
       OnReadSocks5Handshake(buf, n) \/ Refused(buf, n, {"req5"})
  /\ UNCHANGED <<cfg, app, s>>

\* The callback of the resolver; an error closes the connection.
OnResolve ==
  /\ ~c.closed /\ c.channel = "resolving"
  /\ \/ \E dest \in {"ipv4", "ipv6"} :
          c' = [c EXCEPT !.channel = "connecting", !.request_ = dest]
     \/ c' = Ended(c, "resolve")
  /\ UNCHANGED <<cfg, app, s, wire>>

\* The client is read while the channel is not there: into pending_data_.
ReadStream ==
  /\ ~c.closed /\ c.reads = "stream" /\ c.channel \in {"resolving", "connecting"}
  /\ \E n \in 1 .. Len(wire.a2c) :
       /\ c' = [c EXCEPT !.pending_data_ = @ \o First(wire.a2c, n)]
       /\ wire' = Taken("a2c", n)
  /\ UNCHANGED <<cfg, app, s>>

-----------------------------------------------------------------------------
(* The client: its own request of the server. *)

AuthRequired == cfg.credentials # "none"

\* Mutant: the greeting offers no authentication.
WriteUpstreamMethodSelectRequest_noauth ==
  << Msg("greet", "noauth") >> \o (IF AuthRequired THEN << << >> >> ELSE << >>) \o << << >> >>

\* WriteUpstreamMethodSelectRequest: the greeting, and empty buffers in the
\* places of the messages that depend on the answers.
WriteUpstreamMethodSelectRequest ==
  << Msg("greet", IF AuthRequired THEN "auth" ELSE "noauth") >>
  \o (IF AuthRequired THEN << << >> >> ELSE << >>) \o << << >> >>

WriteUpstreamSocks4Request == << Msg("req4", c.request_) >>

\* What connected() puts in front of the payload.
UpstreamHeader ==
  CASE cfg.method = "ss" -> << Msg("ss", c.request_) >>
    [] cfg.method = "https" -> << Msg("connect", c.request_) >>
    [] cfg.method \in {"socks4", "socks4a"} -> WriteUpstreamSocks4Request
    [] CIPHER_METHOD_IS_SOCKS5(cfg.method) -> WriteUpstreamMethodSelectRequest

UpstreamHandshakes ==
  CASE cfg.method = "ss" -> {}
    [] cfg.method = "https" -> {"https"}
    [] cfg.method \in {"socks4", "socks4a"} -> {"socks"}
    [] CIPHER_METHOD_IS_SOCKS5(cfg.method) -> {"method"} \union (IF AuthRequired THEN {"auth"} ELSE {})

\* What was read in the meantime.
PendingBuffers ==
  (IF c.pending_data_ = << >> THEN << >> ELSE <<c.pending_data_>>) \o Leftover

\* The channel is connected: the header, then what was read in the meantime.
\* SOCKS4 cannot carry an IPv6 address.
connected ==
  /\ ~c.closed /\ c.channel = "connecting"
  /\ c' = IF cfg.method = "socks4" /\ c.request_ = "ipv6" THEN Ended(c, "ipv6")
          ELSE [c EXCEPT !.channel = "connected", !.reads = "stream",
                         !.awaits = UpstreamHandshakes,
                         !.upstream_ = UpstreamHeader \o PendingBuffers,
                         !.pending_data_ = << >>]
  /\ UNCHANGED <<cfg, app, s, wire>>

\* The connect failed: disconnected() shuts the downlink.
connect_failed ==
  /\ ~c.closed /\ c.channel = "connecting"
  /\ c' = Ended([c EXCEPT !.channel = "none"], "connect")
  /\ UNCHANGED <<cfg, app, s, wire>>

\* GetNextUpstreamBuf: an empty buffer at the front waits for its handshake, or,
\* left over, stays there for ever: it is neither written nor taken off.
UpstreamReady == c.upstream_ # << >> /\ Head(c.upstream_) # << >>

\* WriteUpstreamInPipe: the next buffer goes out, or the client is read.
WriteUpstreamInPipe ==
  /\ ~c.closed /\ c.channel = "connected"
  /\ \/ /\ UpstreamReady
        /\ c' = [c EXCEPT !.upstream_ = Tail(@)]
        /\ wire' = Sends("c2s", Head(c.upstream_))
     \/ /\ c.upstream_ = << >>
        /\ \E n \in 1 .. Len(wire.a2c) :
             /\ c' = [c EXCEPT !.upstream_ = << First(wire.a2c, n) >>]
             /\ wire' = Taken("a2c", n)
  /\ UNCHANGED <<cfg, app, s>>

\* A handshake's answer was read; the message it allows fills its place.
Answered(d, flag) == [d EXCEPT !.awaits = @ \ {flag}]
Fills(d, message) == [d EXCEPT !.upstream_ = << message >> \o Tail(@)]
WriteUpstreamSocks5Request(d) ==
  [Fills(d, Msg("req5", d.request_)) EXCEPT !.awaits = @ \union {"socks"}]
WriteUpstreamAuthRequest(d) == Fills(d, Msg("auth", cfg.credentials))

\* The steps of GetNextDownstreamBuf on r = [conn, buf]: a step applies if its
\* handshake is awaited and the buffer holds something.
Step(r, flag, kind, Accepts(_), Then(_)) ==
  IF flag \notin r.conn.awaits \/ r.buf = << >> \/ r.conn.closed THEN r
  ELSE IF ~Starts(r.buf, kind) THEN [r EXCEPT !.conn = Ended(@, Cause(r.buf))]
  ELSE IF ~Accepts(What(r.buf)) THEN [r EXCEPT !.conn = Ended(@, "auth")]
  ELSE [conn |-> Then(Answered(r.conn, flag)), buf |-> Behind(r.buf)]

Any(what) == TRUE
Same(d) == d

ReadUpstreamHttpsHandshake(r) == Step(r, "https", "ok", Any, Same)
ReadUpstreamMethodSelectResponse(r) ==
  Step(r, "method", "method",
       LAMBDA what : what = (IF "auth" \in r.conn.awaits THEN "auth" ELSE "noauth"),
       LAMBDA d : IF "auth" \in d.awaits THEN WriteUpstreamAuthRequest(d)
                                         ELSE WriteUpstreamSocks5Request(d))

\* Mutant: the request is not made after the authentication.
ReadUpstreamAuthResponse_stops(r) == Step(r, "auth", "authok", Any, Same)

ReadUpstreamAuthResponse(r) ==
  Step(r, "auth", "authok", Any, WriteUpstreamSocks5Request)
ReadUpstreamSocksResponse(r) == Step(r, "socks", "granted", Any, Same)

\* received(): one read of the channel; what is behind the answers is payload.
ReadUpstream ==
  /\ ~c.closed /\ c.channel = "connected"
  /\ \E n \in 1 .. Len(wire.s2c) :
       LET first == ReadUpstreamHttpsHandshake([conn |-> c, buf |-> First(wire.s2c, n)])
           last == ReadUpstreamSocksResponse(ReadUpstreamAuthResponse(
                     ReadUpstreamMethodSelectResponse(first)))
       IN /\ c' = last.conn
          /\ wire' = IF last.conn.closed THEN Taken("s2c", n)
                     ELSE [Taken("s2c", n) EXCEPT !.c2a = @ \o last.buf]
  /\ UNCHANGED <<cfg, app, s>>

\* The server is gone: disconnected().
disconnected ==
  /\ ~c.closed /\ c.channel = "connected" /\ s.closed /\ wire.s2c = << >>
  /\ c' = Ended(c, "peer")
  /\ UNCHANGED <<cfg, app, s, wire>>

-----------------------------------------------------------------------------
(* The server. *)

Streaming(p, dest, rest) ==
  [p EXCEPT !.stage = "stream", !.request_ = dest, !.channel = "connecting", !.upstream_ = rest,
            !.handshake_pending_buf_ = << >>]

\* ReadHandshake: the decoder collects ciphertext until it has the frame of the
\* request.  The parser, though, is given as many bytes of the plaintext as the
\* last read had of ciphertext, which may be too few if the frame was split.
ReadHandshake(p, buf) ==
  LET all == p.chunk \o buf IN
  IF ~Starts(all, "ss") THEN {[p EXCEPT !.chunk = all]}
  ELSE IF What(all) = "none" THEN {Ended(p, "destination")}
  ELSE {Streaming(p, What(all), Behind(all))}
       \union (IF p.chunk = << >> THEN {} ELSE {Ended(p, "split")})

\* The Proxy-Authorization of the client's CONNECT; it has one with both a name
\* and a password configured.
VerifyProxyAuthorizationIdentity == cfg.credentials = "right"

OnReadHandshakeViaHttps(p, buf) ==
  IF ~Starts(buf, "connect") THEN Ended(p, Cause(buf))
  ELSE IF What(buf) = "none" THEN Ended(p, "destination")
  ELSE IF cfg.auth_required /\ ~VerifyProxyAuthorizationIdentity THEN Ended(p, "auth")
  ELSE Streaming(p, What(buf), Behind(buf))

\* OnReadHandshakeViaSocks: a SOCKS4 request, or the greeting of SOCKS5.
OnReadHandshakeViaSocks(p, buf) ==
  IF CIPHER_METHOD_IS_SOCKS5(cfg.method)
    THEN IF ~Starts(buf, "greet") THEN Ended(p, Cause(buf))
         ELSE IF What(buf) # (IF cfg.auth_required THEN "auth" ELSE "noauth") THEN Ended(p, "auth")
         ELSE [p EXCEPT !.stage = "write_method", !.handshake_pending_buf_ = Behind(buf)]
    ELSE IF ~Starts(buf, "req4") THEN Ended(p, Cause(buf))
         ELSE IF What(buf) = "none" THEN Ended(p, "destination")
         ELSE [p EXCEPT !.stage = "write_reply", !.request_ = What(buf),
                        !.handshake_pending_buf_ = Behind(buf)]

OnReadSocks5UsernamePasswordAuth(p, buf) ==
  IF ~Starts(buf, "auth") THEN Ended(p, Cause(buf))
  ELSE IF What(buf) # "right" THEN Ended(p, "auth")
  ELSE [p EXCEPT !.stage = "write_auth", !.handshake_pending_buf_ = Behind(buf)]

OnReadHandshakeViaSocks5(p, buf) ==
  IF ~Starts(buf, "req5") THEN Ended(p, Cause(buf))
  ELSE IF What(buf) = "none" THEN Ended(p, "destination")
  ELSE [p EXCEPT !.stage = "write_reply", !.request_ = What(buf),
                 !.handshake_pending_buf_ = Behind(buf)]

\* The handler of the read that is armed, on the buffer read.
OnRead(p, buf) ==
  CASE p.stage = "ss" -> ReadHandshake(p, buf)
    [] p.stage = "https" -> {OnReadHandshakeViaHttps(p, buf)}
    [] p.stage = "socks" -> {OnReadHandshakeViaSocks(p, buf)}
    [] p.stage = "auth" -> {OnReadSocks5UsernamePasswordAuth(p, buf)}
    [] p.stage = "request" -> {OnReadHandshakeViaSocks5(p, buf)}

Reading == {"ss", "https", "socks", "auth", "request"}

\* The reply to a CONNECT goes out as the channel begins to connect.
Replies(p) ==
  IF p.stage = "stream" /\ cfg.method = "https" THEN Msg("ok", "none") ELSE << >>

ServerReads ==
  /\ ~s.closed /\ s.stage \in Reading
  /\ \E n \in 1 .. Len(wire.c2s) : \E p \in OnRead(s, First(wire.c2s, n)) :
       /\ s' = p
       /\ wire' = [Taken("c2s", n) EXCEPT !.s2c = @ \o Replies(p)]
  /\ UNCHANGED <<cfg, app, c>>

\* A read that is ready and finds nothing.  The reads of a handshake are armed
\* again; but the one of the SOCKS5 request arms the one of the greeting, and
\* the one of the authentication looks at a buffer it has just given away.
ServerReadsNothing ==
  /\ ~s.closed /\ s.stage \in {"auth", "request"} /\ s.why = "none" /\ wire.c2s = << >>
  /\ s' = IF s.stage = "request" THEN [s EXCEPT !.stage = "socks", !.why = "spurious"]
                                 ELSE Ended(s, "spurious")
  /\ UNCHANGED <<cfg, app, c, wire>>

\* After a reply: what came behind the message it answers is looked at first.
Goes(p, stage) ==
  LET q == [p EXCEPT !.stage = stage, !.handshake_pending_buf_ = << >>] IN
  IF p.handshake_pending_buf_ = << >> THEN {q} ELSE OnRead(q, p.handshake_pending_buf_)

\* The replies, when the downlink takes them; they are small and next to nothing
\* was written before.
WriteMethodSelectResponse ==
  /\ ~s.closed /\ s.stage = "write_method"
  /\ s' \in Goes(s, IF cfg.auth_required THEN "auth" ELSE "request")
  /\ wire' = Sends("s2c", Msg("method", IF cfg.auth_required THEN "auth" ELSE "noauth"))
  /\ UNCHANGED <<cfg, app, c>>

WriteUsernamePasswordAuthResponse ==
  /\ ~s.closed /\ s.stage = "write_auth"
  /\ s' \in Goes(s, "request")
  /\ wire' = Sends("s2c", Msg("authok", "none"))
  /\ UNCHANGED <<cfg, app, c>>

WriteHandshakeResponse ==
  /\ ~s.closed /\ s.stage = "write_reply"
  /\ s' = Streaming(s, s.request_, s.handshake_pending_buf_)
  /\ wire' = Sends("s2c", Msg("granted", "none"))
  /\ UNCHANGED <<cfg, app, c>>

\* OnConnect: the channel to the destination is there, or is not to be had.
ServerConnects ==
  /\ ~s.closed /\ s.channel = "connecting"
  /\ \/ /\ s' = [s EXCEPT !.channel = "connected", !.upstream_ = << >>]
        /\ wire' = Sends("s2r", s.upstream_)
     \/ /\ s' = Ended(s, "connect")
        /\ UNCHANGED wire
  /\ UNCHANGED <<cfg, app, c>>

ServerRelays ==
  /\ ~s.closed /\ s.channel = "connected"
  /\ \/ wire.c2s # << >> /\ wire' = [Taken("c2s", Len(wire.c2s)) EXCEPT !.s2r = @ \o wire.c2s]
     \/ wire.r2s # << >> /\ wire' = [Taken("r2s", Len(wire.r2s)) EXCEPT !.s2c = @ \o wire.r2s]
  /\ UNCHANGED <<cfg, app, c, s>>

\* The client is gone.
ServerEnds ==
  /\ ~s.closed /\ c.closed /\ c.channel = "connected" /\ wire.c2s = << >>
  /\ s' = Ended(s, "peer")
  /\ UNCHANGED <<cfg, app, c, wire>>

-----------------------------------------------------------------------------
ClientSteps ==
  \/ ReadMethodSelect \/ ReadSocks5Handshake \/ OnResolve \/ ReadStream \/ connected
  \/ connect_failed \/ WriteUpstreamInPipe \/ ReadUpstream \/ disconnected

ServerSteps ==
  ServerReads \/ WriteMethodSelectResponse \/ WriteUsernamePasswordAuthResponse
  \/ WriteHandshakeResponse \/ ServerConnects \/ ServerRelays \/ ServerEnds

Next == AppSends \/ AppReads \/ RemoteSends \/ ClientSteps \/ ServerSteps \/ ServerReadsNothing

\* The io_context of each program runs the handlers whose events have come, and
\* an application that is not kept waiting goes on.
Fairness ==
  /\ WF_vars(AppSends) /\ WF_vars(AppReads) /\ WF_vars(RemoteSends)
  /\ WF_vars(ClientSteps) /\ WF_vars(ServerSteps)

Spec == Init /\ [][Next]_vars /\ Fairness

-----------------------------------------------------------------------------
(* Properties. *)

\* The tokens of some kinds, in their order.
Kinds(tokens, kinds) ==
  LET upto[k \in 0 .. Len(tokens)] ==
        IF k = 0 THEN << >>
        ELSE IF tokens[k][1] \in kinds THEN Append(upto[k - 1], tokens[k]) ELSE upto[k - 1]
  IN upto[Len(tokens)]

\* Where the connection of the server may go, for what the application wants.
Meant ==
  LET asked == IF cfg.front = "redir" THEN {cfg.dest, "domain"} ELSE {cfg.dest} IN
  IF CIPHER_METHOD_IS_SOCKS_NON_DOMAIN_NAME(cfg.method) /\ "domain" \in asked
    THEN (asked \ {"domain"}) \union {"ipv4", "ipv6"} ELSE asked

\* A server that connects does so for a client that showed the credentials it
\* asks for (where its protocol has any), to the destination the application
\* asked the client for: by name only if the method carries names.
Agreement ==
  s.stage = "stream" =>
    /\ s.request_ \in Meant
    /\ cfg.auth_required /\ (cfg.method = "https" \/ CIPHER_METHOD_IS_SOCKS5(cfg.method))
         => cfg.credentials = "right"

\* What the first read of a redirected connection returned, if it goes twice.
Repeated ==
  IF cfg.front = "redir" /\ cfg.method = "ss" /\ c.reads # "method" THEN cfg.first ELSE 0

\* The payload of the application is whole and in order, wherever reads end:
\* what the destination got, what is under way behind it and what is still to
\* be read make up what was sent, and no byte of a handshake got between.  Only
\* what the first read of a redirected connection returned is there a second
\* time, with ss, ahead of all.  What the application got of the destination is
\* a prefix of what it sent.
PayloadIntact ==
  /\ Kinds(wire.s2r, {"data", "forward"}) = wire.s2r
  /\ \A i \in DOMAIN wire.s2r : wire.s2r[i][1] = "forward" => i = 1
  /\ \A i \in DOMAIN app.got : app.got[i] = <<"data", i, 0>>
  /\ ~c.closed /\ ~s.closed =>
       LET own == Len(c.upstream_) - Len(Leftover)
           queued == IF Len(c.upstream_) <= Len(Leftover) THEN << >> ELSE c.upstream_[own] IN
       Kinds(wire.s2r \o s.upstream_ \o s.handshake_pending_buf_ \o wire.c2s \o queued
               \o c.pending_data_ \o wire.a2c, {"data"})
         = [i \in 1 .. Repeated + app.sent |->
              <<"data", IF i <= Repeated THEN i ELSE i - Repeated, 0>>]

\* Client and server are configured for different authentications.
Mismatch ==
  \/ cfg.method = "https" /\ cfg.auth_required /\ cfg.credentials # "right"
  \/ CIPHER_METHOD_IS_SOCKS5(cfg.method) /\ (cfg.auth_required = (cfg.credentials = "none"))
  \/ CIPHER_METHOD_IS_SOCKS5(cfg.method) /\ cfg.auth_required /\ cfg.credentials = "wrong"

\* Client and server understand each other: a connection ends before its time
\* only for credentials that do not match, a destination that is none, is the
\* proxy itself, or cannot be reached or carried, a message split by the network,
\* or a read that was ready for nothing; without these what one side writes the
\* other side reads.
EndedForAReason ==
  c.closed \/ s.closed =>
    \E why \in {c.why, s.why} :
      \/ why \in {"resolve", "connect", "split", "spurious"}
      \/ why = "auth" /\ Mismatch
      \/ why = "destination" /\ cfg.dest \in {"none", "self"}
      \/ why = "ipv6" /\ cfg.method = "socks4"

\* What of the payload gets to the destination: of a redirected connection only
\* what its first read returned, or with ss that and then all of it.
Deliverable ==
  IF cfg.front # "redir" THEN MaxData
  ELSE IF cfg.method = "ss" THEN cfg.first + MaxData ELSE cfg.first

\* With the handshakes done, all the payload of both sides arrives, or the
\* connection has ended; the exception is a redirected connection, whose payload
\* behind the first read never leaves the client with any method but ss.
BothWaysDeliver ==
  <>(\/ c.closed \/ s.closed
     \/ Len(Kinds(wire.s2r, {"data"})) = Deliverable /\ Len(app.got) = MaxData)

\* What GetNextUpstreamBuf asserts of the buffer it returns: behind the answers
\* to the SOCKS5 greeting and authentication the front of the queue is not empty.
FrontFull ==
  ~c.closed /\ c.upstream_ # << >> /\ c.awaits \intersect {"method", "auth"} = {} =>
    Head(c.upstream_) # << >>
=============================================================================
