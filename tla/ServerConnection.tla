-------------------------- MODULE ServerConnection --------------------------
(***************************************************************************)
(* The relay of a server connection (src/server/server_connection.cpp)     *)
(* from the end of the handshake on: bytes of the client go to the channel *)
(* through upstream_, bytes of the channel go back through downstream_.    *)
(* It has the parts of CliConnection and is built the other way round: the *)
(* downlink is written by a pipe, WriteStreamInPipe, which reads the       *)
(* channel as long as the client takes the data; what the client sends     *)
(* before the channel is there stays in upstream_ and nothing more is read *)
(* until then; and the proxy puts nothing in front of what it forwards.    *)
(*                                                                         *)
(* Without the HTTP/2 adapter: shadowsocks, https and socks, in which a    *)
(* chunk read (and decoded) is a chunk queued.  There is no rate limit.    *)
(* Chunk 0 is the reply of the proxy.  closed_ and closing_ are set        *)
(* together.                                                               *)
(*                                                                         *)
(* The connection is a record, and an operator named after a method maps a *)
(* record to the set of the records its call may leave behind.             *)
(***************************************************************************)
EXTENDS Relay

VARIABLE conn

vars == <<conn>>

InitialConnection ==
  [ closed_ |-> FALSE, shutdown_ |-> FALSE,
    stage |-> "handshake",      \* state_handshake, then "stream"
    replies |-> FALSE,          \* the handshake has a reply
    downstream_ |-> << >>, upstream_ |-> << >>,
    write_inprogress_ |-> FALSE,
    downstream_read |-> "no",   \* downstream_read_inprogress_: "wait" or "posted" if set
    upstream_writable_ |-> FALSE,
    channel |-> "none",         \* channel_: "connecting", "connected", "closed"
    eof |-> FALSE,              \* channel_->eof()
    channel_read |-> "no",      \* a wait_read of the channel: "wait", "yield"
    channel_write |-> FALSE,    \* a wait_write of the channel
    client |-> "there", csent |-> 0, cin |-> << >>, cout |-> << >>,
    remote |-> "there", rsent |-> 0, rin |-> << >>, rout |-> << >> ]

Init == conn = InitialConnection

-----------------------------------------------------------------------------
(* Ends. *)

CloseChannel(c) ==
  IF c.channel \in {"connecting", "connected"}
    THEN [c EXCEPT !.channel = "closed", !.eof = TRUE,
                   !.channel_read = "no", !.channel_write = FALSE]
    ELSE c

\* close(), by way of OnDisconnect.
OnDisconnect(c) == [CloseChannel(c) EXCEPT !.closed_ = TRUE]

\* async_shutdown of the downlink; on a socket that was reset it fails, which
\* closes the connection.
Shut(c) ==
  LET d == [c EXCEPT !.shutdown_ = TRUE] IN
  {d} \union When(c.client = "gone", {OnDisconnect(d)})

\* OnDownstreamWriteFlush: what is left waits for the downlink.
OnDownstreamWriteFlush(c) ==
  IF c.downstream_ # << >> THEN [c EXCEPT !.write_inprogress_ = TRUE] ELSE c

\* "shutdown the socket if upstream is eof and all remaining data sent"
OnStreamWrite(c) ==
  IF c.eof /\ c.downstream_ = << >> /\ ~c.shutdown_
    THEN Shut(c) ELSE {OnDownstreamWriteFlush(c)}

-----------------------------------------------------------------------------
(* Towards the client. *)

\* n chunks were read of the channel, and the first k of what downstream_
\* then holds were written.
Sent(c, n, k) ==
  LET all == c.downstream_ \o First(c.rin, n) IN
  [c EXCEPT !.rin = Rest(@, n), !.cout = @ \o First(all, k), !.downstream_ = Rest(all, k)]

SentAll(c, n) == Sent(c, n, Len(c.downstream_) + n)

\* The client took some and no more: what is left is a part of what downstream_
\* held or, after reads, of the last of them.
Full(c, n) ==
  LET m == Len(c.downstream_) + n IN
  UNION {OnStreamWrite(OnDownstreamWriteFlush(Sent(c, n, k))) :
           k \in (IF n = 0 THEN 0 ELSE m - n) .. m - 1}

\* channel_->wait_read, if nobody waits on it.
WaitUpstream(c, how) ==
  IF c.channel_read = "no" THEN [c EXCEPT !.channel_read = how] ELSE c

\* The client cannot be written to.
Unwritable(c) == c.client = "gone" \/ c.shutdown_

\* WriteStreamInPipe without a connected channel: it writes what downstream_ holds.
WriteBuffered(c) ==
  IF c.downstream_ = << >> THEN {c}
  ELSE IF Unwritable(c) THEN {OnDisconnect(c)}
  ELSE Full(c, 0) \union OnStreamWrite(SentAll(c, 0))

\* The channel was lost.  "delay the socket's close because downstream is buffered"
disconnected(c) ==
  LET d == [CloseChannel(c) EXCEPT !.upstream_writable_ = FALSE] IN
  IF d.downstream_ = << >> /\ ~d.shutdown_ THEN Shut(d) ELSE WriteBuffered(d)

\* Mutant: the pipe that has drained the channel does not wait for more.
Idle_forgets(c, n) ==
  When(c.remote = "there" /\ n = Len(c.rin), {SentAll(c, n)})
  \union When(c.remote = "gone" \/ (c.remote = "finished" /\ n = Len(c.rin)),
              disconnected(SentAll(c, n)))

\* The client took all: the channel has no more for now, or is at its end, or
\* the run was long and yields.
Idle(c, n) ==
  When(c.remote = "there" /\ n = Len(c.rin), {WaitUpstream(SentAll(c, n), "wait")})
  \union When(c.remote = "gone" \/ (c.remote = "finished" /\ n = Len(c.rin)),
              disconnected(SentAll(c, n)))
  \union When(Len(c.downstream_) + n > 0, {WaitUpstream(SentAll(c, n), "yield")})

\* WriteStreamInPipe writes what downstream_ holds, then reads the channel and
\* writes what it read, and so on; n chunks are read before it ends.
WriteStreamInPipe(c) ==
  IF c.channel # "connected" THEN WriteBuffered(c)
  ELSE IF ~Unwritable(c) THEN UNION {Full(c, n) \union Idle(c, n) : n \in 0 .. Len(c.rin)}
  ELSE IF c.downstream_ # << >> THEN {OnDisconnect(c)}
  ELSE Idle(c, 0) \union {OnDisconnect(Sent(c, n, 0)) : n \in 1 .. Len(c.rin)}

-----------------------------------------------------------------------------
(* Towards the remote. *)

OnUpstreamWriteFlush(c) ==
  IF c.upstream_ # << >> /\ c.upstream_writable_
    THEN [c EXCEPT !.upstream_writable_ = FALSE, !.channel_write = c.channel = "connected"]
    ELSE c

\* ReadStream, if no read of the client is under way.
ReadStream(c, how) ==
  IF c.downstream_read = "no" /\ ~c.closed_
    THEN [c EXCEPT !.downstream_read = how] ELSE c

\* The client has no more to give: its FIN was read, or its reset.
AtEnd(c) == c.client = "gone" \/ (c.client = "finished" /\ c.cin = << >>)

Took(c, n) == [c EXCEPT !.cin = Rest(@, n)]

\* WriteUpstreamInPipe without a connected channel: one read goes to upstream_,
\* and with data in upstream_ nothing is read.
FillUpstream(c) ==
  IF c.upstream_ # << >> THEN {c}
  ELSE When(AtEnd(c), {OnDisconnect(c)})
       \union When(c.client = "there" /\ c.cin = << >>, {ReadStream(c, "wait")})
       \union {[Took(c, n) EXCEPT !.upstream_ = First(c.cin, n)] : n \in 1 .. Len(c.cin)}

\* The first k of what upstream_ holds and the n chunks just read were written.
Piped(c, n, k) ==
  LET all == c.upstream_ \o First(c.cin, n) IN
  [Took(c, n) EXCEPT !.rout = @ \o First(all, k), !.upstream_ = Rest(all, k)]

\* The channel took some and no more.
Blocked(c, n) ==
  LET m == Len(c.upstream_) + n IN
  {OnUpstreamWriteFlush(Piped(c, n, k)) : k \in (IF n = 0 THEN 0 ELSE m - n) .. m - 1}

\* Mutant: after a full write nobody reads the client again.
Drained_no_read(c, n) ==
  LET all == Piped(c, n, Len(c.upstream_) + n) IN
  When(c.client = "there" /\ n = Len(c.cin), {all})
  \union When(AtEnd(Took(c, n)), {OnDisconnect(all)})

\* The channel took all: the client has no more for now, or is at its end, or
\* the run was long and yields.
Drained(c, n) ==
  LET all == Piped(c, n, Len(c.upstream_) + n) IN
  When(c.client = "there" /\ n = Len(c.cin), {ReadStream(all, "wait")})
  \union When(AtEnd(Took(c, n)), {OnDisconnect(all)})
  \union When(Len(c.upstream_) + n > 0, {ReadStream(all, "posted")})

\* The channel fails at the first write: the stream tells disconnected(), then
\* the pipe closes the connection.
Broken(c, n) == {OnDisconnect(d) : d \in disconnected(Piped(c, n, 0))}

\* WriteUpstreamInPipe with a connected channel writes what upstream_ holds,
\* then reads the client and writes what it read, and so on.
WriteUpstreamInPipe(c) ==
  IF c.channel_write THEN {c}
  ELSE IF c.channel # "connected" THEN FillUpstream(c)
  ELSE IF c.remote # "gone"
    THEN UNION {Blocked(c, n) \union Drained(c, n) : n \in 0 .. Len(c.cin)}
  ELSE IF c.upstream_ # << >> THEN Broken(c, 0)
  ELSE (UNION {Broken(c, n) : n \in 1 .. Len(c.cin)})
       \union When(AtEnd(c), {OnDisconnect(c)})
       \union When(c.client = "there" /\ c.cin = << >>, {ReadStream(c, "wait")})

PipeAndFlush(c) == Then(WriteUpstreamInPipe(c), LAMBDA d : {OnUpstreamWriteFlush(d)})

\* Mutant: the pipe towards the remote is not started.
connected_reads_only(c) ==
  WriteStreamInPipe([c EXCEPT !.channel = "connected", !.upstream_writable_ = TRUE])

\* The channel is connected: both pipes start.
connected(c) ==
  Then(WriteStreamInPipe([c EXCEPT !.channel = "connected", !.upstream_writable_ = TRUE]),
       PipeAndFlush)

received(c) == Then(WriteStreamInPipe(c), LAMBDA d : {OnDownstreamWriteFlush(d)})

sent(c) == PipeAndFlush([c EXCEPT !.channel_write = FALSE, !.upstream_writable_ = TRUE])

-----------------------------------------------------------------------------
(* The handlers. *)

Open == ~conn.closed_
Does(outcomes) == conn' \in outcomes

\* The request is complete: ProcessReceivedData begins to connect, which may
\* fail at once (the stream then gives up and does not set eof).  A socks reply
\* was written before, the reply to CONNECT waits for the downlink, the others
\* have none.  What came with the request (of a plain HTTP request, the request
\* itself) goes to upstream_, and no read follows until the channel is there.
handshake ==
  /\ Open /\ conn.stage = "handshake" /\ conn.client # "gone"
  /\ \E start \in {"connecting", "closed"}, kind \in {"ss", "socks", "connect", "plain"},
       n \in 0 .. Len(conn.cin) :
       LET c == [conn EXCEPT !.stage = "stream", !.channel = start,
                             !.replies = kind \in {"socks", "connect"},
                             !.cout = IF kind = "socks" THEN <<0>> ELSE @]
           begun == IF start = "closed" THEN disconnected(c) ELSE {c}
           replied(d) == {IF kind = "connect"
                            THEN OnDownstreamWriteFlush([d EXCEPT !.downstream_ = <<0>>]) ELSE d}
           goOn(d) == IF n > 0 THEN {[Took(d, n) EXCEPT !.upstream_ = First(d.cin, n)]}
                               ELSE PipeAndFlush(d)
       IN (kind = "plain" => n > 0) /\ Does(Then(Then(begun, replied), goOn))

\* The client ends before its request is complete, the request is malformed,
\* not authorized or names no host or port, or a reply cannot be written.
handshake_fails ==
  /\ Open /\ conn.stage = "handshake"
  /\ Does({OnDisconnect(conn)})

channel_connected == Open /\ conn.channel = "connecting" /\ Does(connected(conn))

\* The connect failed; where the stream gave up by itself it does not set eof.
channel_refused ==
  /\ Open /\ conn.channel = "connecting"
  /\ Does(disconnected(conn) \union disconnected([conn EXCEPT !.channel = "closed"]))

\* The channel is readable, or its yield is over.
channel_readable ==
  /\ Open
  /\ \/ conn.channel_read = "yield"
     \/ conn.channel_read = "wait" /\ (conn.rin # << >> \/ conn.remote # "there")
  /\ Does(received([conn EXCEPT !.channel_read = "no"]))

channel_writable == Open /\ conn.channel_write /\ Does(sent(conn))

\* The client is readable, or the posted continuation runs.
downlink_readable ==
  /\ Open
  /\ \/ conn.downstream_read = "posted"
     \/ conn.downstream_read = "wait" /\ (conn.cin # << >> \/ conn.client # "there")
  /\ Does(PipeAndFlush([conn EXCEPT !.downstream_read = "no"]))

\* The handler of WriteStream.
downlink_writable ==
  /\ Open /\ conn.write_inprogress_
  /\ Does(WriteStreamInPipe([conn EXCEPT !.write_inprogress_ = FALSE]))

\* WaitStreamError: the client was reset, or both sides have finished.
downlink_error ==
  /\ Open
  /\ conn.client = "gone" \/ (conn.client = "finished" /\ conn.shutdown_)
  /\ Does({OnDisconnect(conn)})

-----------------------------------------------------------------------------
(* The peers. *)

client_sends ==
  /\ Open /\ conn.client = "there" /\ conn.csent < MaxClient
  /\ Does({[conn EXCEPT !.csent = @ + 1, !.cin = Append(@, conn.csent + 1)]})

client_ends ==
  /\ Open
  /\ \/ conn.client = "there" /\ Does({[conn EXCEPT !.client = "finished"]})
     \/ conn.client # "gone" /\ Does({[conn EXCEPT !.client = "gone"]})

remote_sends ==
  /\ Open /\ conn.channel = "connected" /\ conn.remote = "there" /\ conn.rsent < MaxRemote
  /\ Does({[conn EXCEPT !.rsent = @ + 1, !.rin = Append(@, conn.rsent + 1)]})

remote_ends ==
  /\ Open /\ conn.channel = "connected"
  /\ \/ conn.remote = "there" /\ Does({[conn EXCEPT !.remote = "finished"]})
     \/ conn.remote # "gone" /\ Does({[conn EXCEPT !.remote = "gone"]})

Next ==
  \/ handshake \/ handshake_fails \/ channel_connected \/ channel_refused
  \/ channel_readable \/ channel_writable
  \/ downlink_readable \/ downlink_writable \/ downlink_error
  \/ client_sends \/ client_ends \/ remote_sends \/ remote_ends

Spec == Init /\ [][Next]_vars

\* The io_context runs every handler whose event has come; connecting ends one
\* way or the other; a peer that is there takes what it is sent.
Fairness ==
  /\ WF_vars(handshake \/ handshake_fails)
  /\ WF_vars(channel_connected \/ channel_refused)
  /\ WF_vars(channel_readable) /\ WF_vars(channel_writable)
  /\ WF_vars(downlink_readable) /\ WF_vars(downlink_writable) /\ WF_vars(downlink_error)

FairSpec == Spec /\ Fairness

-----------------------------------------------------------------------------
(* Properties. *)

\* Type invariant of the connection; only a connected channel is waited on.
TypeOK ==
  /\ \A f \in {"closed_", "shutdown_", "replies", "write_inprogress_", "upstream_writable_", "eof",
               "channel_write"} : conn[f] \in BOOLEAN
  /\ conn.stage \in {"handshake", "stream"}
  /\ conn.channel \in {"none", "connecting", "connected", "closed"}
  /\ conn.downstream_read \in {"no", "wait", "posted"}
  /\ conn.channel_read \in {"no", "wait", "yield"}
  /\ conn.client \in Peer /\ conn.remote \in Peer
  /\ conn.csent \in 0 .. MaxClient /\ conn.rsent \in 0 .. MaxRemote
  /\ \A f \in {"downstream_", "upstream_", "cin", "cout", "rin", "rout"} : conn[f] \in Seq(Chunks)
  /\ conn.channel_write \/ conn.channel_read # "no" => conn.channel = "connected"

\* In both directions what was sent is, in order and once each, at the other
\* peer, in the queue between them, or still to be read; the reply of the proxy
\* comes before all else.  Partial writes, data read before the channel is
\* there, and a channel lost with data buffered change nothing in it.
Conserved ==
  Open =>
    /\ conn.rout \o conn.upstream_ \o conn.cin = Run(conn.csent)
    /\ conn.cout \o conn.downstream_ \o conn.rin
         = (IF conn.replies THEN <<0>> ELSE << >>) \o Run(conn.rsent)

\* Nobody sleeps: data in a queue has a wait that will take it on, and where a
\* queue is empty and the channel there, the side that fills it is being read.
NeverStalls ==
  Open =>
    /\ conn.downstream_ # << >> => conn.write_inprogress_
    /\ conn.channel = "connected" =>
         /\ conn.downstream_ = << >> => conn.channel_read # "no"
         /\ IF conn.upstream_ # << >> THEN conn.channel_write ELSE conn.downstream_read # "no"

\* Every chunk the remote sent reaches the client, also when the remote
\* finishes behind it, unless the connection closes or the remote was reset.
DownstreamDelivers ==
  \A n \in 1 .. MaxRemote :
    (conn.rsent >= n) ~> (conn.closed_ \/ conn.remote = "gone"
                           \/ \E i \in DOMAIN conn.cout : conn.cout[i] = n)

\* When the client has ended the connection closes, unless its channel gave up
\* on its own, after which nothing reads the client.
ClientEndCloses ==
  (conn.client # "there") ~> (conn.closed_ \/ (conn.channel = "closed" /\ ~conn.eof))

\* What either peer sent is kept, in order and once, and whoever has to take
\* it on will be woken.
DataSafe == TypeOK /\ Conserved /\ NeverStalls
=============================================================================
