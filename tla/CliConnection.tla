---------------------------- MODULE CliConnection ----------------------------
(***************************************************************************)
(* The relay of a client connection (src/cli/cli_connection.cpp) from the  *)
(* end of the handshake on: bytes of the client go to the upstream channel *)
(* through pending_data_ and upstream_, bytes of the channel go back       *)
(* through downstream_.  Both directions run on the thread of the          *)
(* io_context; a handler runs to its end.  Writes may take a part of what  *)
(* is offered, either peer may finish or vanish at any time.               *)
(*                                                                         *)
(* The ciphers and protocols in which a chunk read is a chunk queued (the  *)
(* shadowsocks ciphers once the chunk is decoded, plain socks, https) look *)
(* the same here; there is no rate limit, and no HTTP request is kept      *)
(* alive.  Chunk 0 is the request header upstream and the handshake's      *)
(* reply downstream.                                                       *)
(*                                                                         *)
(* The connection is a record, and an operator named after a method maps a *)
(* record to the set of the records its call may leave behind.             *)
(***************************************************************************)
EXTENDS Relay

CONSTANT MaxPending   \* kMaxHeaderSize, in chunks

ASSUME MaxPendingAssumption == MaxPending \in Nat \ {0}

VARIABLE conn

vars == <<conn>>

\* The async_write of a socks reply is pending (on a downlink that is shut:
\* failing; of a reply that says no: refusing) or done; a plain HTTP request
\* gets none, and the reply to CONNECT is written at once.
Replies == {"none", "pending", "failing", "refusing", "done", "plain"}

InitialConnection ==
  [ closed_ |-> FALSE, shutdown_ |-> FALSE,
    stage |-> "handshake",      \* then "stream"
    reply |-> "none",           \* the proxy's reply: see Replies
    downstream_ |-> << >>, upstream_ |-> << >>, pending_data_ |-> << >>,
    write_inprogress_ |-> FALSE,
    downstream_read |-> "no",   \* downstream_read_inprogress_: "wait" or "posted" if set
    upstream_writable_ |-> FALSE,
    channel |-> "none",         \* channel_: "connecting", "connected", "closed"
    eof |-> FALSE,              \* channel_->eof()
    channel_read |-> "no",      \* a wait_read of the channel: "wait", "yield"
    channel_write |-> FALSE,    \* a wait_write of the channel
    client |-> "there", csent |-> 0, cin |-> << >>, cout |-> << >>,
    remote |-> "there", rsent |-> 0, rin |-> << >>, rout |-> << >> ]

Init == conn = InitialConnection

-----------------------------------------------------------------------------
(* Ends. *)

CloseChannel(c) ==
  IF c.channel \in {"connecting", "connected"}
    THEN [c EXCEPT !.channel = "closed", !.eof = TRUE,
                   !.channel_read = "no", !.channel_write = FALSE]
    ELSE c

\* close(), by way of OnDisconnect.
OnDisconnect(c) == [CloseChannel(c) EXCEPT !.closed_ = TRUE]

\* OnStreamWrite, when the write left nothing: shut the downlink of a lost channel.
OnStreamWrite(c) ==
  IF c.eof /\ c.downstream_ = << >> THEN [c EXCEPT !.shutdown_ = TRUE] ELSE c

-----------------------------------------------------------------------------
(* Towards the client. *)

\* ReadUpstreamAsync, if the channel is there and nobody waits on it.
ReadUpstreamAsync(c, how) ==
  IF c.channel = "connected" /\ c.channel_read = "no"
    THEN [c EXCEPT !.channel_read = how] ELSE c

\* The first n chunks of downstream_ were written.
Sent(c, n) ==
  [c EXCEPT !.cout = @ \o First(c.downstream_, n), !.downstream_ = Rest(c.downstream_, n)]

\* WriteStream with WriteStreamAsync and ProcessSentData: it writes until the
\* socket takes no more, and waits for it; or all, and reads the channel again,
\* at once or, after a long run, behind a yield.
\* A call with a wait under way returns (in a debug build its DCHECK fails).
WriteStream(c) ==
  IF c.write_inprogress_ THEN {c}
  ELSE IF c.downstream_ = << >> THEN {ReadUpstreamAsync(c, "wait")}
  ELSE IF c.client = "gone" \/ c.shutdown_ THEN {OnDisconnect(c)}
  ELSE {[Sent(c, n) EXCEPT !.write_inprogress_ = TRUE] : n \in 0 .. Len(c.downstream_) - 1}
       \union {OnStreamWrite(ReadUpstreamAsync(Sent(c, Len(c.downstream_)), how)) :
                 how \in {"wait", "yield"}}

\* The channel was lost.  "delay the socket's close because downstream is buffered"
disconnected(c) ==
  LET d == [CloseChannel(c) EXCEPT !.upstream_writable_ = FALSE] IN
  IF d.downstream_ = << >> /\ ~d.shutdown_
    THEN {[d EXCEPT !.shutdown_ = TRUE]}
    ELSE WriteStream(d)

\* ReadUpstream and GetNextDownstreamBuf: one read, then WriteStream.
ReadUpstream(c) ==
  IF c.write_inprogress_ THEN {c}
  ELSE IF c.downstream_ # << >> THEN WriteStream(c)
  ELSE IF c.channel # "connected" THEN {c}
  ELSE When(c.remote = "gone" \/ (c.remote = "finished" /\ c.rin = << >>), disconnected(c))
       \union When(c.remote = "there" /\ c.rin = << >>, {ReadUpstreamAsync(c, "wait")})
       \union UNION {WriteStream([c EXCEPT !.downstream_ = First(c.rin, n),
                                           !.rin = Rest(@, n)]) : n \in 1 .. Len(c.rin)}

-----------------------------------------------------------------------------
(* Towards the remote. *)

OnUpstreamWriteFlush(c) ==
  IF c.upstream_ # << >> /\ c.upstream_writable_
    THEN [c EXCEPT !.upstream_writable_ = FALSE, !.channel_write = c.channel = "connected"]
    ELSE c

\* OnStreamRead while the channel is not connected.
OnStreamRead(c, data) ==
  IF Len(c.pending_data_) + Len(data) > MaxPending
    THEN OnDisconnect(c)
    ELSE [c EXCEPT !.pending_data_ = @ \o data]

\* ReadStream, if no read of the client is under way.
ReadStream(c, how) ==
  IF c.downstream_read = "no" /\ ~c.closed_
    THEN [c EXCEPT !.downstream_read = how] ELSE c

Took(c, n) == [c EXCEPT !.cin = Rest(@, n)]

\* The client has no more to give: its FIN was read, or its reset.
AtEnd(c) == c.client = "gone" \/ (c.client = "finished" /\ c.cin = << >>)

\* GetNextUpstreamBuf and WriteUpstreamInPipe without a connected channel: one
\* read goes to pending_data_.  With data left in upstream_ nothing is read.
FillPending(c) ==
  IF c.upstream_ # << >> THEN {OnUpstreamWriteFlush(c)}
  ELSE When(AtEnd(c), {OnDisconnect(c)})
       \union When(c.client = "there" /\ c.cin = << >>, {ReadStream(c, "wait")})
       \union {ReadStream(OnStreamRead(Took(c, n), First(c.cin, n)), "wait") :
                 n \in 1 .. Len(c.cin)}

\* The first k of what upstream_ holds and the n chunks just read were written.
Piped(c, n, k) ==
  LET all == c.upstream_ \o First(c.cin, n) IN
  [Took(c, n) EXCEPT !.rout = @ \o First(all, k), !.upstream_ = Rest(all, k)]

\* The channel took k chunks and no more: the rest is a part of what upstream_
\* held or, after reads, of the last of them.
Blocked(c, n) ==
  LET m == Len(c.upstream_) + n IN
  {OnUpstreamWriteFlush(Piped(c, n, k)) : k \in (IF n = 0 THEN 0 ELSE m - n) .. m - 1}

\* Mutant: after a full write nobody reads the client again.
Drained_no_read(c, n) ==
  LET all == Piped(c, n, Len(c.upstream_) + n) IN
  When(c.client = "there" /\ n = Len(c.cin), {all})
  \union When(AtEnd(Took(c, n)), {OnDisconnect(all)})

\* The channel took all: the client has no more for now, or is at its end, or
\* the run was long and yields.
Drained(c, n) ==
  LET all == Piped(c, n, Len(c.upstream_) + n) IN
  When(c.client = "there" /\ n = Len(c.cin), {ReadStream(all, "wait")})
  \union When(AtEnd(Took(c, n)), {OnDisconnect(all)})
  \union When(Len(c.upstream_) + n > 0, {ReadStream(all, "posted")})

\* The channel fails at the first write: the stream tells disconnected(), then
\* the pipe closes the connection.
Broken(c, n) == {OnDisconnect(d) : d \in disconnected(Piped(c, n, 0))}

\* WriteUpstreamInPipe with a connected channel writes what upstream_ holds,
\* then reads the client and writes what it read, and so on; n chunks are read
\* before it ends.
WriteUpstreamInPipe(c) ==
  IF c.channel_write THEN {c}
  ELSE IF c.channel # "connected" THEN FillPending(c)
  ELSE IF c.remote # "gone"
    THEN UNION {Blocked(c, n) \union Drained(c, n) : n \in 0 .. Len(c.cin)}
  ELSE IF c.upstream_ # << >> THEN Broken(c, 0)
  ELSE (UNION {Broken(c, n) : n \in 1 .. Len(c.cin)})
       \union When(AtEnd(c), {OnDisconnect(c)})
       \union When(c.client = "there" /\ c.cin = << >>, {ReadStream(c, "wait")})

PipeAndFlush(c) == Then(WriteUpstreamInPipe(c), LAMBDA d : {OnUpstreamWriteFlush(d)})

\* Mutant: what was read before the channel was there is forgotten.
connected_drops_pending(c) ==
  LET d == [c EXCEPT !.channel = "connected", !.upstream_ = @ \o <<0>>,
                     !.pending_data_ = << >>, !.upstream_writable_ = TRUE] IN
  Then(ReadUpstream(d), PipeAndFlush)

\* The channel is connected: the header, then what was read in the meantime.
connected(c) ==
  LET d == [c EXCEPT !.channel = "connected", !.upstream_ = @ \o <<0>> \o c.pending_data_,
                     !.pending_data_ = << >>]
      piped == IF c.pending_data_ = << >> THEN {d} ELSE WriteUpstreamInPipe(d)
      writable(e) == {[e EXCEPT !.upstream_writable_ = TRUE]}
  IN Then(Then(Then(piped, writable), ReadUpstream), PipeAndFlush)

\* Mutant: the channel is writable and the flag stays down.
sent_keeps_flag(c) == PipeAndFlush([c EXCEPT !.channel_write = FALSE])

sent(c) == PipeAndFlush([c EXCEPT !.channel_write = FALSE, !.upstream_writable_ = TRUE])

-----------------------------------------------------------------------------
(* The handlers. *)

Open == ~conn.closed_
Does(outcomes) == conn' \in outcomes

\* The request is complete: ProcessReceivedData performs the command, which
\* begins to connect or fails at once (the downlink is then shut before the
\* reply), and replies: a socks reply by an async_write of its own, the reply to
\* CONNECT through downstream_, none to another HTTP request.  What the client
\* sent behind the request is kept if it was read with it (of a plain request,
\* the request itself); then no read follows until the channel is there.
\* A reply fits the buffer of a socket on which next to nothing was sent.
handshake ==
  /\ Open /\ conn.stage = "handshake" /\ conn.client # "gone"
  /\ \E start \in {"connecting", "closed"}, kind \in {"socks", "connect", "plain"},
       n \in 0 .. Len(conn.cin) :
       LET c == [conn EXCEPT !.stage = "stream", !.channel = start,
                             !.shutdown_ = (start = "closed")]
           replied ==
             CASE kind = "connect" ->
                    {d \in WriteStream([c EXCEPT !.downstream_ = <<0>>]) : ~d.write_inprogress_}
               [] kind = "plain" -> {[c EXCEPT !.reply = "plain"]}
               [] kind = "socks" /\ c.shutdown_ -> {[c EXCEPT !.reply = "failing"]}
               [] kind = "socks" /\ ~c.shutdown_ ->
                    {[c EXCEPT !.reply = "pending", !.cout = <<0>>]}
           goOn(d) == IF n > 0 THEN {OnStreamRead(Took(d, n), First(d.cin, n))}
                                ELSE PipeAndFlush(d)
       IN (kind = "plain" => n > 0) /\ Does(Then(replied, goOn))

\* A socks command that is not supported, or names no host or port: the reply
\* says so, and the client is read to its end.
handshake_refused ==
  /\ Open /\ conn.stage = "handshake" /\ conn.client # "gone"
  /\ Does({ReadStream([conn EXCEPT !.stage = "stream", !.reply = "refusing", !.cout = <<0>>],
                      "posted")})

\* The client ends before its request is complete, the request is malformed,
\* or an HTTP request names no host or port.
handshake_fails ==
  /\ Open /\ conn.stage = "handshake"
  /\ Does({OnDisconnect(conn)})

\* The async_write of the socks reply is over.
reply_sent ==
  /\ Open /\ conn.reply \in {"pending", "failing", "refusing"}
  /\ LET c == [conn EXCEPT !.reply = "done",
                            !.shutdown_ = @ \/ conn.reply = "refusing"] IN
     Does(IF conn.reply = "failing" THEN {OnDisconnect(conn)}
          ELSE IF c.downstream_ # << >> /\ ~c.write_inprogress_ THEN WriteStream(c)
          ELSE {OnStreamWrite(c)})

channel_connected == Open /\ conn.channel = "connecting" /\ Does(connected(conn))

\* The connect failed; where the stream gave up by itself it does not set eof.
channel_refused ==
  /\ Open /\ conn.channel = "connecting"
  /\ Does(disconnected(conn) \union disconnected([conn EXCEPT !.channel = "closed"]))

\* The channel is readable, or its yield is over: received().
channel_readable ==
  /\ Open
  /\ \/ conn.channel_read = "yield"
     \/ conn.channel_read = "wait" /\ (conn.rin # << >> \/ conn.remote # "there")
  /\ Does(ReadUpstream([conn EXCEPT !.channel_read = "no"]))

channel_writable == Open /\ conn.channel_write /\ Does(sent(conn))

\* The client is readable, or the posted continuation runs.
downlink_readable ==
  /\ Open
  /\ \/ conn.downstream_read = "posted"
     \/ conn.downstream_read = "wait" /\ (conn.cin # << >> \/ conn.client # "there")
  /\ Does(PipeAndFlush([conn EXCEPT !.downstream_read = "no"]))

downlink_writable ==
  /\ Open /\ conn.write_inprogress_
  /\ Does(WriteStream([conn EXCEPT !.write_inprogress_ = FALSE]))

\* WaitStreamError: the client was reset, or both sides have finished.
downlink_error ==
  /\ Open
  /\ conn.client = "gone" \/ (conn.client = "finished" /\ conn.shutdown_)
  /\ Does({OnDisconnect(conn)})

-----------------------------------------------------------------------------
(* The peers. *)

client_sends ==
  /\ Open /\ conn.client = "there" /\ conn.csent < MaxClient
  /\ Does({[conn EXCEPT !.csent = @ + 1, !.cin = Append(@, conn.csent + 1)]})

client_ends ==
  /\ Open
  /\ \/ conn.client = "there" /\ Does({[conn EXCEPT !.client = "finished"]})
     \/ conn.client # "gone" /\ Does({[conn EXCEPT !.client = "gone"]})

remote_sends ==
  /\ Open /\ conn.channel = "connected" /\ conn.remote = "there" /\ conn.rsent < MaxRemote
  /\ Does({[conn EXCEPT !.rsent = @ + 1, !.rin = Append(@, conn.rsent + 1)]})

remote_ends ==
  /\ Open /\ conn.channel = "connected"
  /\ \/ conn.remote = "there" /\ Does({[conn EXCEPT !.remote = "finished"]})
     \/ conn.remote # "gone" /\ Does({[conn EXCEPT !.remote = "gone"]})

Next ==
  \/ handshake \/ handshake_refused \/ handshake_fails \/ reply_sent \/ channel_connected \/ channel_refused
  \/ channel_readable \/ channel_writable
  \/ downlink_readable \/ downlink_writable \/ downlink_error
  \/ client_sends \/ client_ends \/ remote_sends \/ remote_ends

Spec == Init /\ [][Next]_vars

\* The io_context runs every handler whose event has come; connecting ends one
\* way or the other; a peer that is there takes what it is sent.
Fairness ==
  /\ WF_vars(handshake \/ handshake_refused \/ handshake_fails) /\ WF_vars(reply_sent)
  /\ WF_vars(channel_connected \/ channel_refused)
  /\ WF_vars(channel_readable) /\ WF_vars(channel_writable)
  /\ WF_vars(downlink_readable) /\ WF_vars(downlink_writable) /\ WF_vars(downlink_error)

FairSpec == Spec /\ Fairness

-----------------------------------------------------------------------------
(* Properties. *)

\* Type invariant of the connection; pending_data_ keeps within its limit.
TypeOK ==
  /\ conn \in
      [ closed_ : BOOLEAN, shutdown_ : BOOLEAN, stage : {"handshake", "stream"},
        reply : Replies,
        downstream_ : Seq(Chunks), upstream_ : Seq(Chunks), pending_data_ : Seq(Chunks),
        write_inprogress_ : BOOLEAN, downstream_read : {"no", "wait", "posted"},
        upstream_writable_ : BOOLEAN,
        channel : {"none", "connecting", "connected", "closed"}, eof : BOOLEAN,
        channel_read : {"no", "wait", "yield"}, channel_write : BOOLEAN,
        client : Peer, csent : 0 .. MaxClient, cin : Seq(Chunks), cout : Seq(Chunks),
        remote : Peer, rsent : 0 .. MaxRemote, rin : Seq(Chunks), rout : Seq(Chunks) ]
  /\ Len(conn.pending_data_) <= MaxPending

\* What the client sent is, in order and once each, at the remote, in
\* upstream_, in pending_data_ or still to be read, behind the header: through
\* early data, partial writes and a channel that connects late or is lost.
UpstreamConserved ==
  LET up == conn.rout \o conn.upstream_ IN
  Open => up \o conn.pending_data_ \o conn.cin
            = (IF up = << >> THEN << >> ELSE <<0>>) \o Run(conn.csent)

\* What the remote sent is, in order and once each, at the client, in
\* downstream_ or still to be read, behind the reply of the proxy.
DownstreamConserved ==
  Open => conn.cout \o conn.downstream_ \o conn.rin
            = (IF conn.stage = "stream" /\ conn.reply \notin {"failing", "plain"} THEN <<0>> ELSE << >>)
              \o Run(conn.rsent)

\* Towards the remote nobody sleeps: data in upstream_ has a wait_write that
\* will take it on, and with upstream_ empty the client is being read.
UpstreamNeverStalls ==
  Open /\ conn.channel = "connected" =>
    IF conn.upstream_ # << >> THEN conn.channel_write ELSE conn.downstream_read # "no"

\* Towards the client nobody sleeps: data in downstream_ has a wait on the
\* downlink, also when the channel is lost; with downstream_ empty the channel
\* is being read.
DownstreamNeverStalls ==
  Open =>
    /\ conn.downstream_ # << >> => conn.write_inprogress_
    /\ conn.channel = "connected" /\ conn.downstream_ = << >> => conn.channel_read # "no"

\* Every chunk the client sent reaches the remote, unless the connection or
\* the channel ends or the request was refused.
UpstreamDelivers ==
  \A n \in 1 .. MaxClient :
    (conn.csent >= n) ~>
      \/ conn.closed_ \/ conn.shutdown_ \/ conn.channel = "closed"
      \/ \E i \in DOMAIN conn.rout : conn.rout[i] = n

\* A channel that is lost has the downlink shut behind the data that is left,
\* or the connection closed.
LostChannelEnds == (conn.channel = "closed") ~> (conn.shutdown_ \/ conn.closed_)

\* When the client has ended, the connection closes.
ClientEndCloses == (conn.client # "there") ~> conn.closed_

\* What either peer sent is kept, in order and once, within the limit of
\* pending_data_, and whoever has to take it on will be woken.
DataSafe ==
  /\ TypeOK /\ UpstreamConserved /\ DownstreamConserved
  /\ UpstreamNeverStalls /\ DownstreamNeverStalls

\* An end on either side is noticed: a lost channel shuts the downlink or
\* closes the connection, and the client's end closes it.
EndsNoticed == LostChannelEnds /\ ClientEndCloses
=============================================================================
