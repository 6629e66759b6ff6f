----------------------------- MODULE Http2Tunnel -----------------------------
(***************************************************************************)
(* The HTTP/2 tunnel between a client connection and a server connection:  *)
(* the request and its response, the padding of the first chunks, which    *)
(* the two negotiate with their header fields, the data frames with their  *)
(* flow control window, and the end of the stream.  The framing itself is  *)
(* nghttp2's (external): a stream of tokens that keeps its order, of which *)
(* a read returns any part.                                                *)
(*                                                                         *)
(* Client and server connection share most of the code word for word, so   *)
(* the operations are of an endpoint e and are used for both.  A write to  *)
(* the peer succeeds at once; what happens when it does not is the         *)
(* business of CliConnection and ServerConnection.                         *)
(***************************************************************************)
EXTENDS Naturals, Sequences

CONSTANTS
  Paddings,       \* who is configured to pad: a subset of {"both", "client", "server", "none"}
  kFirstPaddings, \* how many chunks are padded
  Window,         \* bound: tokens a sender may have under way
  MaxTokens       \* bound: tokens of payload in each direction

ASSUME TunnelAssumption ==
  /\ Paddings \subseteq {"both", "client", "server", "none"}
  /\ kFirstPaddings \in Nat /\ Window \in Nat /\ MaxTokens \in Nat

VARIABLE h2

Least(a, b) == IF a < b THEN a ELSE b
First(buf, n) == SubSeq(buf, 1, n)
Rest(buf, n) == SubSeq(buf, n + 1, Len(buf))

Payload(n) == [kind |-> "data", n |-> n, pad |-> 0]
PaddingHeader(n, pad) == [kind |-> "head", n |-> n, pad |-> pad]
Pad == [kind |-> "pad", n |-> 0, pad |-> 0]
Headers(padding) == [kind |-> "headers", n |-> 0, pad |-> IF padding THEN 1 ELSE 0]
WindowUpdate(n) == [kind |-> "window", n |-> n, pad |-> 0]
EndStream == [kind |-> "end", n |-> 0, pad |-> 0]
IsData(token) == token.kind \in {"data", "head", "pad"}

\* The members of a connection that the tunnel uses.
Endpoint(padding) ==
  [ padding_support_in_fact_ |-> padding, num_padding_send_ |-> 0, num_padding_recv_ |-> 0,
    padding_in_middle_buf_ |-> << >>,
    data_frame_ |-> FALSE, chunks_ |-> << >>,   \* the data frame source and its one chunk
    window |-> Window,                          \* what flow control still allows (external)
    queue |-> << >> ]                           \* downstream_ of the client, upstream_ of the server

\* connected() has sent the request; data may follow it at once.
Initial(who, authorized) ==
  LET client == who \in {"both", "client"} server == who \in {"both", "server"} IN
  [ authorized |-> authorized, refused |-> FALSE,
    c |-> [Endpoint(client) EXCEPT !.data_frame_ = TRUE],
    s |-> Endpoint(server),
    c2s |-> << Headers(client) >>, s2c |-> << >>,
    channel |-> "none", recv_eof |-> FALSE, shutdown_ |-> FALSE,
    app |-> [sent |-> 0, got |-> << >>],
    remote |-> [sent |-> 0, got |-> << >>, ended |-> FALSE] ]

TunnelInit == h2 \in {Initial(who, authorized) : who \in Paddings, authorized \in BOOLEAN}

-----------------------------------------------------------------------------
(* Operations of an endpoint. *)

AddPadding(buf, pad) ==
  << PaddingHeader(Len(buf), pad) >> \o buf \o [i \in 1 .. pad |-> Pad]

\* AddChunk with the padding of the first chunks, of random length.
Chunks(e, buf) ==
  IF e.padding_support_in_fact_ /\ e.num_padding_send_ < kFirstPaddings
    THEN {[e EXCEPT !.num_padding_send_ = @ + 1, !.chunks_ = AddPadding(buf, pad)] : pad \in 0 .. 1}
    ELSE {[e EXCEPT !.chunks_ = buf]}

\* SelectPayloadLength and Send, for as long as the window allows.
Sendable(e) == First(e.chunks_, Least(e.window, Len(e.chunks_)))
Sent(e) ==
  LET n == Len(Sendable(e)) IN [e EXCEPT !.chunks_ = Rest(@, n), !.window = @ - n]

\* RemovePadding: "try_again" is the empty sequence.
CompleteChunk(buf) ==
  /\ buf # << >> /\ buf[1].kind = "head" /\ buf[1].n > 0
  /\ Len(buf) >= 1 + buf[1].n + buf[1].pad
RemovePadding(buf) ==
  [payload |-> SubSeq(buf, 2, 1 + buf[1].n), rest |-> Rest(buf, 1 + buf[1].n + buf[1].pad)]

\* The loop over padding_in_middle_buf_: buf yields padded chunks while some
\* are due, and behind the last of them everything is payload.
Unpad[n \in 0 .. kFirstPaddings] ==
  [ buf \in Seq({Payload(i) : i \in 1 .. MaxTokens} \union {Pad}
                \union {PaddingHeader(i, p) : i \in 1 .. MaxTokens, p \in 0 .. 1}) |->
      IF n = kFirstPaddings THEN [payload |-> buf, recv |-> n, middle |-> << >>]
      ELSE IF ~CompleteChunk(buf) THEN [payload |-> << >>, recv |-> n, middle |-> buf]
      ELSE LET r == RemovePadding(buf) more == Unpad[n + 1][r.rest]
           IN [more EXCEPT !.payload = r.payload \o @] ]

\* Mutant: a chunk that came in parts is forgotten but for its last part.
OnDataForStream_restarts(e, data) ==
  IF e.padding_support_in_fact_ /\ e.num_padding_recv_ < kFirstPaddings
    THEN LET r == Unpad[e.num_padding_recv_][data]
         IN [conn |-> [e EXCEPT !.queue = @ \o r.payload, !.num_padding_recv_ = r.recv,
                                !.padding_in_middle_buf_ = r.middle],
             consumed |-> Len(data)]
    ELSE [conn |-> [e EXCEPT !.queue = @ \o data], consumed |-> Len(data)]

\* Mutant: what waits for the rest of its chunk is not marked as consumed.
OnDataForStream_unmarked(e, data) ==
  IF e.padding_support_in_fact_ /\ e.num_padding_recv_ < kFirstPaddings
    THEN LET r == Unpad[e.num_padding_recv_][e.padding_in_middle_buf_ \o data]
         IN [conn |-> [e EXCEPT !.queue = @ \o r.payload, !.num_padding_recv_ = r.recv,
                                !.padding_in_middle_buf_ = r.middle],
             consumed |-> IF r.middle = << >> THEN Len(data) ELSE 0]
    ELSE [conn |-> [e EXCEPT !.queue = @ \o data], consumed |-> Len(data)]

\* Data arrived: of a padded chunk, or as it is; all of it is consumed at once.
OnDataForStream(e, data) ==
  IF e.padding_support_in_fact_ /\ e.num_padding_recv_ < kFirstPaddings
    THEN LET r == Unpad[e.num_padding_recv_][e.padding_in_middle_buf_ \o data]
         IN [conn |-> [e EXCEPT !.queue = @ \o r.payload, !.num_padding_recv_ = r.recv,
                                !.padding_in_middle_buf_ = r.middle],
             consumed |-> Len(data)]
    ELSE [conn |-> [e EXCEPT !.queue = @ \o data], consumed |-> Len(data)]

\* A read of the peer goes on until the queue holds a window of data.
Reads(e) == Len(e.queue) < Window

DataPieces(wire) == {n \in 1 .. Len(wire) : \A i \in 1 .. n : IsData(wire[i])}

-----------------------------------------------------------------------------
(* The client connection. *)

\* GetNextUpstreamBuf: the application is read once the last chunk is gone.
ClientReadsApp ==
  /\ ~h2.refused /\ h2.c.data_frame_ /\ h2.c.chunks_ = << >>
  /\ \E n \in 1 .. Least(2, MaxTokens - h2.app.sent) :
     \E e \in Chunks(h2.c, [i \in 1 .. n |-> Payload(h2.app.sent + i)]) :
       h2' = [h2 EXCEPT !.app.sent = @ + n, !.c = Sent(e), !.c2s = @ \o Sendable(e)]

\* GetNextDownstreamBuf and the callbacks of ProcessBytes.
ClientReceives ==
  /\ ~h2.refused /\ Reads(h2.c) /\ h2.s2c # << >>
  /\ LET token == Head(h2.s2c) IN
     \/ /\ token.kind = "headers"                                 \* OnEndHeadersForStream
        /\ h2' = [h2 EXCEPT !.s2c = Tail(@),
                    !.c.padding_support_in_fact_ = @ /\ token.pad = 1]
     \/ /\ token.kind = "window"
        /\ LET e == [h2.c EXCEPT !.window = @ + token.n]
           IN h2' = [h2 EXCEPT !.s2c = Tail(@), !.c = Sent(e), !.c2s = @ \o Sendable(e)]
     \/ \E n \in DataPieces(h2.s2c) :
          LET r == OnDataForStream(h2.c, First(h2.s2c, n))
          IN h2' = [h2 EXCEPT !.s2c = Rest(@, n), !.c = r.conn, !.c2s = @ \o
                      (IF r.consumed = 0 THEN << >> ELSE << WindowUpdate(r.consumed) >>)]
     \/ /\ token.kind = "end"                                     \* OnEndStream
        /\ h2' = [h2 EXCEPT !.s2c = Tail(@), !.recv_eof = TRUE, !.shutdown_ = h2.c.queue = << >>]

\* WriteStream and OnStreamWrite: with the last data written the downlink is shut.
ClientWritesApp ==
  /\ h2.c.queue # << >>
  /\ \E n \in 1 .. Len(h2.c.queue) :
       h2' = [h2 EXCEPT !.c.queue = Rest(@, n), !.app.got = @ \o First(h2.c.queue, n),
                        !.shutdown_ = h2.recv_eof /\ n = Len(h2.c.queue)]

-----------------------------------------------------------------------------
(* The server connection. *)

\* OnEndHeadersForStream and OnConnect: the request is refused, which ends the
\* connection, or the channel begins to connect and the response is sent.
OnEndHeadersForStream(padding) ==
  IF ~h2.authorized THEN h2' = [h2 EXCEPT !.refused = TRUE]
  ELSE LET padded == h2.s.padding_support_in_fact_ /\ padding
       IN h2' = [h2 EXCEPT !.c2s = Tail(@), !.channel = "connecting",
                           !.s.padding_support_in_fact_ = padded, !.s.data_frame_ = TRUE,
                           !.s2c = Append(@, Headers(padded))]

ServerReceives ==
  /\ ~h2.refused /\ Reads(h2.s) /\ h2.c2s # << >>
  /\ LET token == Head(h2.c2s) IN
     \/ token.kind = "headers" /\ OnEndHeadersForStream(token.pad = 1)
     \/ /\ token.kind = "window"
        /\ LET e == [h2.s EXCEPT !.window = @ + token.n]
           IN h2' = [h2 EXCEPT !.c2s = Tail(@), !.s = Sent(e), !.s2c = @ \o Sendable(e)]
     \/ \E n \in DataPieces(h2.c2s) :
          LET r == OnDataForStream(h2.s, First(h2.c2s, n))
          IN h2' = [h2 EXCEPT !.c2s = Rest(@, n), !.s = r.conn, !.s2c = @ \o
                      (IF r.consumed = 0 THEN << >> ELSE << WindowUpdate(r.consumed) >>)]

\* The last frame of the stream is sent and the stream forgotten: disconnected()
\* and OnStreamWrite, which wait for the data that is left.
LastFrame(t) ==
  [t EXCEPT !.channel = "eof", !.s.data_frame_ = FALSE, !.s2c = Append(@, EndStream)]

\* The channel is there, or is not to be had.
ServerConnects ==
  /\ ~h2.refused /\ h2.channel = "connecting"
  /\ \/ h2' = [h2 EXCEPT !.channel = "connected"]
     \/ h2' = LastFrame([h2 EXCEPT !.remote.ended = TRUE])

\* WriteUpstreamInPipe
ServerWritesRemote ==
  /\ ~h2.refused /\ h2.channel = "connected" /\ h2.s.queue # << >>
  /\ h2' = [h2 EXCEPT !.s.queue = << >>, !.remote.got = @ \o h2.s.queue]

\* GetNextDownstreamBuf: the channel is read while no chunk is left.
Readable == ~h2.refused /\ h2.channel = "connected" /\ h2.s.data_frame_ /\ h2.s.chunks_ = << >>

ServerReadsRemote ==
  /\ Readable
  /\ \E n \in 1 .. Least(2, MaxTokens - h2.remote.sent) :
     \E e \in Chunks(h2.s, [i \in 1 .. n |-> Payload(h2.remote.sent + i)]) :
       h2' = [h2 EXCEPT !.remote.sent = @ + n, !.s = Sent(e), !.s2c = @ \o Sendable(e)]

\* The remote may end.
ServerReadsEnd ==
  Readable /\ h2' = LastFrame([h2 EXCEPT !.remote.ended = TRUE])

TunnelSteps ==
  \/ ClientReadsApp \/ ClientReceives \/ ClientWritesApp
  \/ ServerReceives \/ ServerConnects \/ ServerWritesRemote \/ ServerReadsRemote

TunnelNext == TunnelSteps \/ ServerReadsEnd
TunnelSpec == TunnelInit /\ [][TunnelNext]_h2

\* The handlers of both io_contexts run, and application and remote read.
TunnelFairness == WF_h2(TunnelSteps)

-----------------------------------------------------------------------------
(* Properties. *)

\* What either side got is what the other sent, in order, with no byte of
\* padding in it and none of the payload taken for padding.
TunnelIntact ==
  /\ \A i \in DOMAIN h2.remote.got : h2.remote.got[i] = Payload(i)
  /\ \A i \in DOMAIN h2.app.got : h2.app.got[i] = Payload(i)
  /\ h2.shutdown_ => Len(h2.app.got) = h2.remote.sent

\* The flow control never starves a stream whose ends are read: an application
\* gets all the remote sent and then the end, and a remote that does not end
\* gets all the application sent.
TunnelDelivers ==
  <>[](\/ h2.refused
       \/ h2.remote.ended /\ h2.shutdown_
       \/ ~h2.remote.ended /\ Len(h2.remote.got) = MaxTokens /\ Len(h2.app.got) = MaxTokens)
=============================================================================
