----------------------- MODULE ServerConnectionProofs -----------------------
(***************************************************************************)
(* The relay of a server connection keeps what either peer sent, in order  *)
(* and once, and wakes whoever has to take it on: DataSafe holds for any   *)
(* number of chunks.                                                       *)
(*                                                                         *)
(* The argument is that of CliConnectionProofs, on the pipes of the        *)
(* server: RelayInv adds to DataSafe where data can be at each stage       *)
(* (Shape), that a wait_write of the channel is parked on data, and that a *)
(* connected channel without one is writable (Parked, Writable).  Every    *)
(* method has a lemma; one towards the client leaves DownDone behind, one  *)
(* towards the remote UpDone, and a handler joins the two.                 *)
(***************************************************************************)
EXTENDS ServerConnection, RelayLemmas

\* The records a connection can be.
Connection ==
  [ closed_ : BOOLEAN, shutdown_ : BOOLEAN, stage : {"handshake", "stream"}, replies : BOOLEAN,
    downstream_ : Seq(Chunks), upstream_ : Seq(Chunks),
    write_inprogress_ : BOOLEAN, downstream_read : {"no", "wait", "posted"},
    upstream_writable_ : BOOLEAN,
    channel : {"none", "connecting", "connected", "closed"}, eof : BOOLEAN,
    channel_read : {"no", "wait", "yield"}, channel_write : BOOLEAN,
    client : Peer, csent : 0 .. MaxClient, cin : Seq(Chunks), cout : Seq(Chunks),
    remote : Peer, rsent : 0 .. MaxRemote, rin : Seq(Chunks), rout : Seq(Chunks) ]

\* The part that also holds of a closed connection: only a connected channel is
\* waited on.
Good(c) ==
  /\ c \in Connection
  /\ c.channel_write \/ c.channel_read # "no" => c.channel = "connected"

\* Upstream: the chunks in order.
UpData(c) == (c.rout \o c.upstream_) \o c.cin = Run(c.csent)

\* Downstream: the chunks in order, behind the reply.
Front(c) == IF c.replies THEN <<0>> ELSE << >>
DownData(c) == (c.cout \o c.downstream_) \o c.rin = Front(c) \o Run(c.rsent)

\* Where data cannot be yet.
Shape(c) ==
  /\ c.channel \in {"none", "connecting"} => c.rin = << >> /\ c.rsent = 0
  /\ c.stage = "handshake" =>
       /\ c.channel = "none" /\ c.upstream_ = << >> /\ c.cout = << >> /\ c.downstream_ = << >>
       /\ ~c.replies /\ c.downstream_read = "no"

\* Nothing is lost, doubled or reordered.
Cons(c) == UpData(c) /\ DownData(c) /\ Shape(c)

\* Towards the remote nobody sleeps.
Parked(c) == c.channel_write => c.upstream_ # << >>
Writable(c) == c.channel = "connected" /\ ~c.channel_write => c.upstream_writable_
UpArm(c) ==
  /\ Parked(c) /\ Writable(c)
  /\ c.channel = "connected" => IF c.upstream_ # << >> THEN c.channel_write ELSE c.downstream_read # "no"

\* Towards the client nobody sleeps.
DownArm(c) ==
  /\ c.downstream_ # << >> => c.write_inprogress_
  /\ c.channel = "connected" /\ c.downstream_ = << >> => c.channel_read # "no"

\* The inductive invariant.
RelayInv == Good(conn) /\ (Open => Cons(conn) /\ UpArm(conn) /\ DownArm(conn))

-----------------------------------------------------------------------------
(* What calls leave alone. *)

\* The data of either direction is the same.
SameUp(c, d) ==
  d.rout = c.rout /\ d.upstream_ = c.upstream_ /\ d.cin = c.cin /\ d.csent = c.csent
SameDown(c, d) ==
  /\ d.cout = c.cout /\ d.downstream_ = c.downstream_ /\ d.rin = c.rin /\ d.rsent = c.rsent
  /\ d.replies = c.replies

\* So are the waits and the channel.
SameWaits(c, d) ==
  /\ d.stage = c.stage /\ d.closed_ = c.closed_ /\ d.write_inprogress_ = c.write_inprogress_
  /\ d.downstream_read = c.downstream_read /\ d.channel = c.channel
  /\ d.channel_read = c.channel_read /\ d.channel_write = c.channel_write

\* What keeps Cons: the data stays, the channel stays or closes.
LEMMA KeepCons ==
  ASSUME NEW c, NEW d, Cons(c), SameUp(c, d), SameDown(c, d), d.stage = c.stage,
         d.downstream_read = c.downstream_read \/ d.stage # "handshake",
         d.channel = c.channel \/ (d.channel = "closed" /\ c.channel # "none")
  PROVE  Cons(d)
  <1>1. UpData(d) BY DEF Cons, UpData, SameUp
  <1>2. DownData(d) BY DEF Cons, DownData, SameDown, Front
  <1>3. Shape(d) BY DEF Cons, Shape, SameUp, SameDown
  <1> QED BY <1>1, <1>2, <1>3 DEF Cons

\* The side of the remote is untouched, or its channel closed.
DownFrame(c, d) ==
  /\ d.upstream_ = c.upstream_ /\ d.downstream_read = c.downstream_read /\ d.cin = c.cin
  /\ d.stage = c.stage
  /\ \/ d.channel = c.channel /\ d.channel_write = c.channel_write /\ d.upstream_writable_ = c.upstream_writable_
     \/ d.channel = "closed" /\ ~d.channel_write

\* What a step towards the client leaves behind.
DownDone(c, d) == Good(d) /\ (d.closed_ \/ (Cons(d) /\ DownArm(d) /\ DownFrame(c, d)))

\* CloseChannel touches the channel and nothing else.
LEMMA CloseFields ==
  ASSUME NEW c, Good(c)
  PROVE  LET d == CloseChannel(c) IN
         /\ Good(d) /\ SameUp(c, d) /\ SameDown(c, d) /\ d.stage = c.stage
         /\ d.write_inprogress_ = c.write_inprogress_ /\ d.downstream_read = c.downstream_read
         /\ d.closed_ = c.closed_ /\ d.shutdown_ = c.shutdown_
         /\ d.channel_read = "no" /\ ~d.channel_write
         /\ c.channel # "none" => d.channel = "closed"
         /\ c.channel = "closed" => d = c
  <1> DEFINE e == [c EXCEPT !.channel = "closed", !.eof = TRUE, !.channel_read = "no", !.channel_write = FALSE]
  <1>0. c \in Connection BY DEF Good
  <1>1. e \in Connection BY <1>0 DEF Connection
  <1>2. SameUp(c, e) /\ SameDown(c, e) /\ SameUp(c, c) /\ SameDown(c, c) BY <1>0 DEF Connection, SameUp, SameDown
  <1>3. /\ e.stage = c.stage /\ e.write_inprogress_ = c.write_inprogress_
        /\ e.downstream_read = c.downstream_read /\ e.closed_ = c.closed_ /\ e.shutdown_ = c.shutdown_
    BY <1>0 DEF Connection
  <1>4. e.channel = "closed" /\ ~e.channel_write /\ e.channel_read = "no" BY <1>0 DEF Connection
  <1>5. CloseChannel(c) = IF c.channel \in {"connecting", "connected"} THEN e ELSE c BY DEF CloseChannel
  <1>6. c.channel \in {"none", "connecting", "connected", "closed"} BY <1>0 DEF Connection
  <1> HIDE DEF e
  <1>7. Good(e) BY <1>1, <1>4 DEF Good
  <1>8. c.channel \notin {"connecting", "connected"} => c.channel_read = "no" /\ ~c.channel_write BY DEF Good
  <1> QED BY <1>2, <1>3, <1>4, <1>5, <1>6, <1>7, <1>8

\* close() keeps the types, and leaves no wait on the channel.
LEMMA OnDisconnectOK ==
  ASSUME NEW c, Good(c)
  PROVE  Good(OnDisconnect(c)) /\ OnDisconnect(c).closed_
  <1> DEFINE e == CloseChannel(c)
             d == [e EXCEPT !.closed_ = TRUE]
  <1>0. OnDisconnect(c) = d BY DEF OnDisconnect
  <1>1. Good(e) /\ e.channel_read = "no" /\ ~e.channel_write BY CloseFields
  <1> HIDE DEF e
  <1>2. d \in Connection /\ d.closed_ /\ d.channel_read = "no" /\ ~d.channel_write BY <1>1 DEF Connection, Good
  <1> QED BY <1>0, <1>2 DEF Good

\* Shut shuts the downlink, or closes the connection.
LEMMA ShutOK ==
  ASSUME NEW c, Good(c), ~c.closed_, NEW d \in Shut(c)
  PROVE  /\ Good(d)
         /\ d.closed_ \/ (SameUp(c, d) /\ SameDown(c, d) /\ SameWaits(c, d)
                          /\ d.upstream_writable_ = c.upstream_writable_)
  <1> DEFINE e == [c EXCEPT !.shutdown_ = TRUE]
  <1>0. c \in Connection BY DEF Good
  <1>1. e \in Connection BY <1>0 DEF Connection
  <1>2. SameUp(c, e) /\ SameDown(c, e) BY <1>0 DEF Connection, SameUp, SameDown
  <1>3. SameWaits(c, e) /\ e.upstream_writable_ = c.upstream_writable_ BY <1>0 DEF Connection, SameWaits
  <1>4. d = e \/ d = OnDisconnect(e) BY DEF Shut, When
  <1> HIDE DEF e
  <1>5. Good(e) BY <1>1, <1>3 DEF Good, SameWaits
  <1> QED BY <1>2, <1>3, <1>4, <1>5, OnDisconnectOK

\* OnDownstreamWriteFlush waits on the downlink where data is left.
LEMMA DownFlushOK ==
  ASSUME NEW c, Good(c), Cons(c), ~c.closed_, NEW d, d = OnDownstreamWriteFlush(c)
  PROVE  /\ Good(d) /\ Cons(d) /\ ~d.closed_ /\ DownFrame(c, d)
         /\ d.downstream_ = c.downstream_ /\ (d.downstream_ # << >> => d.write_inprogress_)
         /\ d.channel = c.channel /\ d.channel_read = c.channel_read
  <1> DEFINE e == [c EXCEPT !.write_inprogress_ = TRUE]
  <1>0. c \in Connection BY DEF Good
  <1>1. e \in Connection BY <1>0 DEF Connection
  <1>2. SameUp(c, e) /\ SameDown(c, e) BY <1>0 DEF Connection, SameUp, SameDown
  <1>3. /\ e.stage = c.stage /\ e.closed_ = c.closed_ /\ e.write_inprogress_
        /\ e.downstream_read = c.downstream_read /\ e.channel = c.channel
        /\ e.channel_read = c.channel_read /\ e.channel_write = c.channel_write
        /\ e.upstream_writable_ = c.upstream_writable_
    BY <1>0 DEF Connection
  <1>4. d = IF c.downstream_ # << >> THEN e ELSE c BY DEF OnDownstreamWriteFlush
  <1> HIDE DEF e
  <1>5. Good(e) BY <1>1, <1>3 DEF Good
  <1>6. Cons(e) BY <1>2, <1>3, KeepCons
  <1>7. DownFrame(c, e) /\ DownFrame(c, c) BY <1>2, <1>3 DEF DownFrame, SameUp
  <1> QED BY <1>2, <1>3, <1>4, <1>5, <1>6, <1>7 DEF SameDown

\* OnStreamWrite shuts the downlink of a lost channel once all is written.
LEMMA OnStreamWriteOK ==
  ASSUME NEW c, Good(c), Cons(c), ~c.closed_, NEW d \in OnStreamWrite(c),
         c.channel = "connected" => c.downstream_ # << >>
  PROVE  DownDone(c, d)
  <1>1. CASE c.eof /\ c.downstream_ = << >> /\ ~c.shutdown_
    <2>1. d \in Shut(c) BY <1>1 DEF OnStreamWrite
    <2>2. /\ Good(d)
          /\ d.closed_ \/ (SameUp(c, d) /\ SameDown(c, d) /\ SameWaits(c, d)
                           /\ d.upstream_writable_ = c.upstream_writable_)
      BY <2>1, ShutOK
    <2>3. CASE d.closed_ BY <2>2, <2>3 DEF DownDone
    <2>4. CASE ~d.closed_
      <3>1. Cons(d) BY <2>2, <2>4, KeepCons DEF SameWaits
      <3>2. DownArm(d) BY <1>1, <2>2, <2>4 DEF DownArm, SameDown, SameWaits
      <3>3. DownFrame(c, d) BY <2>2, <2>4 DEF DownFrame, SameUp, SameWaits
      <3> QED BY <2>2, <3>1, <3>2, <3>3 DEF DownDone
    <2> QED BY <2>3, <2>4
  <1>2. CASE ~(c.eof /\ c.downstream_ = << >> /\ ~c.shutdown_)
    <2>1. d = OnDownstreamWriteFlush(c) BY <1>2 DEF OnStreamWrite
    <2>2. /\ Good(d) /\ Cons(d) /\ ~d.closed_ /\ DownFrame(c, d)
          /\ d.downstream_ = c.downstream_ /\ (d.downstream_ # << >> => d.write_inprogress_)
          /\ d.channel = c.channel
      BY <2>1, DownFlushOK
    <2>3. DownArm(d) BY <2>2 DEF DownArm
    <2> QED BY <2>2, <2>3 DEF DownDone
  <1> QED BY <1>1, <1>2

-----------------------------------------------------------------------------
(* Towards the client. *)

\* n chunks of the channel were read, and the client took k of what there was.
LEMMA SentOK ==
  ASSUME NEW c, Good(c), Cons(c), ~c.closed_, c.stage = "stream",
         NEW n \in 0 .. Len(c.rin), NEW k \in 0 .. Len(c.downstream_) + n, NEW d, d = Sent(c, n, k)
  PROVE  /\ Good(d) /\ Cons(d) /\ ~d.closed_ /\ DownFrame(c, d) /\ d.channel = c.channel
         /\ Len(d.downstream_) = Len(c.downstream_) + n - k /\ d.downstream_ \in Seq(Chunks)
  <1> DEFINE all == c.downstream_ \o First(c.rin, n)
             o == c.cout \o First(all, k)
             u == Rest(all, k)
             r == Rest(c.rin, n)
  <1>0. c \in Connection BY DEF Good
  <1>1. c.cout \in Seq(Chunks) /\ c.downstream_ \in Seq(Chunks) /\ c.rin \in Seq(Chunks)
    BY <1>0 DEF Connection
  <1>2. d = [c EXCEPT !.rin = r, !.cout = o, !.downstream_ = u] BY <1>0 DEF Sent, Connection
  <1>3. /\ o \in Seq(Chunks) /\ u \in Seq(Chunks) /\ r \in Seq(Chunks)
        /\ Len(u) = Len(c.downstream_) + n - k
        /\ (o \o u) \o r = (c.cout \o c.downstream_) \o c.rin
    <2>1. PipeKeeps(c.cout, c.downstream_, c.rin, n, k) BY <1>1, PipedMoved
    <2> QED BY <2>1 DEF PipeKeeps
  <1>4. c.rin = << >> => r = << >>
    <2>1. Len(r) = Len(c.rin) - n /\ Len(c.rin) \in Nat BY <1>1, Split, Empty
    <2>2. r = << >> <=> Len(r) = 0 BY <1>3, Empty
    <2>3. c.rin = << >> => Len(c.rin) = 0 BY <1>1, Empty
    <2> QED BY <2>1, <2>2, <2>3
  <1> HIDE DEF all, o, u, r
  <1>5. d \in Connection BY <1>0, <1>2, <1>3 DEF Connection
  <1>6. SameUp(c, d) BY <1>0, <1>2 DEF Connection, SameUp
  <1>7. d.cout = o /\ d.downstream_ = u /\ d.rin = r /\ d.rsent = c.rsent /\ d.replies = c.replies
    BY <1>0, <1>2 DEF Connection
  <1>8. /\ d.stage = c.stage /\ d.closed_ = c.closed_
        /\ d.downstream_read = c.downstream_read /\ d.channel = c.channel
        /\ d.channel_read = c.channel_read /\ d.channel_write = c.channel_write
        /\ d.upstream_writable_ = c.upstream_writable_
    BY <1>0, <1>2 DEF Connection
  <1>9. Good(d) BY <1>5, <1>8 DEF Good
  <1>10. UpData(d) BY <1>6 DEF Cons, UpData, SameUp
  <1>11. DownData(d) BY <1>3, <1>7 DEF Cons, DownData, Front
  <1>12. Shape(d) BY <1>4, <1>7, <1>8 DEF Cons, Shape
  <1>13. DownFrame(c, d) BY <1>6, <1>8 DEF DownFrame, SameUp
  <1> QED BY <1>3, <1>7, <1>8, <1>9, <1>10, <1>11, <1>12, <1>13 DEF Cons

\* The client took some and no more: the rest is waited for.
LEMMA FullOK ==
  ASSUME NEW c, Good(c), Cons(c), ~c.closed_, c.stage = "stream",
         NEW n \in 0 .. Len(c.rin), NEW d \in Full(c, n)
  PROVE  DownDone(c, d)
  <1>0. Len(c.downstream_) \in Nat /\ Len(c.rin) \in Nat BY Empty DEF Good, Connection
  <1>1. PICK k \in (IF n = 0 THEN 0 ELSE Len(c.downstream_) + n - n) .. Len(c.downstream_) + n - 1 :
          d \in OnStreamWrite(OnDownstreamWriteFlush(Sent(c, n, k)))
    BY DEF Full
  <1>2. k \in 0 .. Len(c.downstream_) + n /\ Len(c.downstream_) + n - k # 0 BY <1>0
  <1> DEFINE a == Sent(c, n, k)
             b == OnDownstreamWriteFlush(a)
  <1>3. /\ Good(a) /\ Cons(a) /\ ~a.closed_ /\ DownFrame(c, a)
        /\ Len(a.downstream_) = Len(c.downstream_) + n - k /\ a.downstream_ \in Seq(Chunks)
    BY <1>2, SentOK
  <1>4. d \in OnStreamWrite(b) BY <1>1
  <1> HIDE DEF a
  <1>5. a.downstream_ # << >> BY <1>2, <1>3, Empty
  <1>6. Good(b) /\ Cons(b) /\ ~b.closed_ /\ DownFrame(a, b) /\ b.downstream_ = a.downstream_
    BY <1>3, DownFlushOK
  <1> HIDE DEF b
  <1>7. DownDone(b, d) BY <1>4, <1>5, <1>6, OnStreamWriteOK
  <1>8. ~d.closed_ => DownFrame(c, d) BY <1>3, <1>6, <1>7 DEF DownDone, DownFrame
  <1> QED BY <1>7, <1>8 DEF DownDone

\* The client took all.
LEMMA SentAllOK ==
  ASSUME NEW c, Good(c), Cons(c), ~c.closed_, c.stage = "stream",
         NEW n \in 0 .. Len(c.rin), NEW d, d = SentAll(c, n)
  PROVE  Good(d) /\ Cons(d) /\ ~d.closed_ /\ DownFrame(c, d) /\ d.channel = c.channel /\ d.downstream_ = << >>
  <1> DEFINE k == Len(c.downstream_) + n
  <1>0. Len(c.downstream_) \in Nat /\ Len(c.rin) \in Nat BY Empty DEF Good, Connection
  <1>1. k \in 0 .. Len(c.downstream_) + n /\ Len(c.downstream_) + n - k = 0 BY <1>0
  <1>2. d = Sent(c, n, k) BY DEF SentAll
  <1> HIDE DEF k
  <1>3. /\ Good(d) /\ Cons(d) /\ ~d.closed_ /\ DownFrame(c, d) /\ d.channel = c.channel
        /\ Len(d.downstream_) = Len(c.downstream_) + n - k /\ d.downstream_ \in Seq(Chunks)
    BY <1>1, <1>2, SentOK
  <1> QED BY <1>1, <1>3, Empty

\* Without a connected channel the pipe writes what downstream_ holds.
LEMMA WriteBufferedOK ==
  ASSUME NEW c, Good(c), Cons(c), ~c.closed_, c.channel # "connected", NEW d \in WriteBuffered(c)
  PROVE  DownDone(c, d)
  <1>1. CASE c.downstream_ = << >>
    <2>1. d = c BY <1>1 DEF WriteBuffered
    <2>2. DownArm(c) BY <1>1 DEF DownArm
    <2>3. DownFrame(c, c) BY DEF DownFrame
    <2> QED BY <2>1, <2>2, <2>3 DEF DownDone
  <1>2. CASE c.downstream_ # << >> /\ Unwritable(c)
    <2>1. d = OnDisconnect(c) BY <1>2 DEF WriteBuffered
    <2> QED BY <2>1, OnDisconnectOK DEF DownDone
  <1>3. CASE c.downstream_ # << >> /\ ~Unwritable(c)
    <2>0. c.stage = "stream" /\ 0 \in 0 .. Len(c.rin)
      <3>1. c.stage \in {"handshake", "stream"} /\ Len(c.rin) \in Nat BY Empty DEF Good, Connection
      <3> QED BY <1>3, <3>1 DEF Cons, Shape
    <2>1. d \in Full(c, 0) \/ d \in OnStreamWrite(SentAll(c, 0)) BY <1>3 DEF WriteBuffered
    <2>2. ASSUME d \in Full(c, 0) PROVE DownDone(c, d) BY <2>0, <2>2, FullOK
    <2>3. ASSUME d \in OnStreamWrite(SentAll(c, 0)) PROVE DownDone(c, d)
      <3> DEFINE a == SentAll(c, 0)
      <3>1. Good(a) /\ Cons(a) /\ ~a.closed_ /\ DownFrame(c, a) /\ a.channel = c.channel BY <2>0, SentAllOK
      <3>2. d \in OnStreamWrite(a) BY <2>3
      <3> HIDE DEF a
      <3>3. DownDone(a, d) BY <3>1, <3>2, OnStreamWriteOK
      <3>4. ~d.closed_ => DownFrame(c, d) BY <3>1, <3>3 DEF DownDone, DownFrame
      <3> QED BY <3>3, <3>4 DEF DownDone
    <2> QED BY <2>1, <2>2, <2>3
  <1> QED BY <1>1, <1>2, <1>3

\* What disconnected() does: the channel is closed, what is buffered is written
\* and the downlink shut behind it.
LEMMA disconnectedOK ==
  ASSUME NEW c, Good(c), Cons(c), ~c.closed_, c.channel # "none", NEW d \in disconnected(c)
  PROVE  DownDone(c, d)
  <1> DEFINE e == CloseChannel(c)
             f == [e EXCEPT !.upstream_writable_ = FALSE]
  <1>1. /\ Good(e) /\ SameUp(c, e) /\ SameDown(c, e) /\ e.stage = c.stage
        /\ e.write_inprogress_ = c.write_inprogress_ /\ e.downstream_read = c.downstream_read
        /\ e.closed_ = c.closed_ /\ e.channel = "closed" /\ e.channel_read = "no" /\ ~e.channel_write
    BY CloseFields
  <1>2. d \in IF f.downstream_ = << >> /\ ~f.shutdown_ THEN Shut(f) ELSE WriteBuffered(f) BY DEF disconnected
  <1> HIDE DEF e
  <1>3. f \in Connection BY <1>1 DEF Connection, Good
  <1>4. SameUp(e, f) /\ SameDown(e, f) /\ SameWaits(e, f)
    BY <1>1 DEF Connection, Good, SameUp, SameDown, SameWaits
  <1> HIDE DEF f
  <1>5. SameUp(c, f) /\ SameDown(c, f) BY <1>1, <1>4 DEF SameUp, SameDown
  <1>6. /\ f.stage = c.stage /\ f.closed_ = c.closed_ /\ f.downstream_read = c.downstream_read
        /\ f.channel = "closed" /\ f.channel_read = "no" /\ ~f.channel_write
    BY <1>1, <1>4 DEF SameWaits
  <1>7. Good(f) BY <1>3, <1>6 DEF Good
  <1>8. Cons(f) BY <1>5, <1>6, KeepCons
  <1>9. ASSUME DownDone(f, d) PROVE DownDone(c, d)
    <2>1. ~d.closed_ => DownFrame(c, d) BY <1>5, <1>6, <1>9 DEF DownDone, DownFrame, SameUp
    <2> QED BY <1>9, <2>1 DEF DownDone
  <1>10. CASE f.downstream_ = << >> /\ ~f.shutdown_
    <2>1. d \in Shut(f) BY <1>2, <1>10
    <2>2. /\ Good(d)
          /\ d.closed_ \/ (SameUp(f, d) /\ SameDown(f, d) /\ SameWaits(f, d)
                           /\ d.upstream_writable_ = f.upstream_writable_)
      BY <1>6, <1>7, <2>1, ShutOK
    <2>3. CASE d.closed_ BY <2>2, <2>3 DEF DownDone
    <2>4. CASE ~d.closed_
      <3>1. Cons(d) BY <1>8, <2>2, <2>4, KeepCons DEF SameWaits
      <3>2. DownArm(d) BY <1>6, <1>10, <2>2, <2>4 DEF DownArm, SameDown, SameWaits
      <3>3. DownFrame(f, d) BY <2>2, <2>4 DEF DownFrame, SameUp, SameWaits
      <3> QED BY <1>9, <2>2, <3>1, <3>2, <3>3 DEF DownDone
    <2> QED BY <2>3, <2>4
  <1>11. CASE ~(f.downstream_ = << >> /\ ~f.shutdown_)
    <2>1. d \in WriteBuffered(f) BY <1>2, <1>11
    <2>2. DownDone(f, d) BY <1>6, <1>7, <1>8, <2>1, WriteBufferedOK
    <2> QED BY <1>9, <2>2
  <1> QED BY <1>10, <1>11

\* The client took all: the channel is waited on, or lost.
LEMMA IdleOK ==
  ASSUME NEW c, Good(c), Cons(c), ~c.closed_, c.channel = "connected",
         NEW n \in 0 .. Len(c.rin), NEW d \in Idle(c, n)
  PROVE  DownDone(c, d)
  <1> DEFINE a == SentAll(c, n)
  <1>0. c.stage = "stream"
    <2>1. c.stage \in {"handshake", "stream"} BY DEF Good, Connection
    <2> QED BY <2>1 DEF Cons, Shape
  <1>1. Good(a) /\ Cons(a) /\ ~a.closed_ /\ DownFrame(c, a) /\ a.channel = "connected" /\ a.downstream_ = << >>
    BY <1>0, SentAllOK
  <1>2. d \in disconnected(a) \/ \E how \in {"wait", "yield"} : d = WaitUpstream(a, how) BY DEF Idle, When
  <1> HIDE DEF a
  <1>3. ASSUME DownDone(a, d) PROVE DownDone(c, d)
    <2>1. ~d.closed_ => DownFrame(c, d) BY <1>1, <1>3 DEF DownDone, DownFrame
    <2> QED BY <1>3, <2>1 DEF DownDone
  <1>4. ASSUME d \in disconnected(a) PROVE DownDone(c, d) BY <1>1, <1>3, <1>4, disconnectedOK
  <1>5. ASSUME NEW how \in {"wait", "yield"}, d = WaitUpstream(a, how) PROVE DownDone(c, d)
    <2> DEFINE e == [a EXCEPT !.channel_read = how]
    <2>0. a \in Connection BY <1>1 DEF Good
    <2>1. e \in Connection BY <2>0 DEF Connection
    <2>2. SameUp(a, e) /\ SameDown(a, e) BY <2>0 DEF Connection, SameUp, SameDown
    <2>3. /\ e.stage = a.stage /\ e.closed_ = a.closed_ /\ e.downstream_read = a.downstream_read
          /\ e.channel = a.channel /\ e.channel_read # "no" /\ e.channel_write = a.channel_write
          /\ e.upstream_writable_ = a.upstream_writable_
      BY <2>0 DEF Connection
    <2>4. d = IF a.channel_read = "no" THEN e ELSE a BY <1>5 DEF WaitUpstream
    <2> HIDE DEF e
    <2>5. Good(e) BY <1>1, <2>1, <2>3 DEF Good
    <2>6. Cons(e) BY <1>1, <2>2, <2>3, KeepCons
    <2>7. DownFrame(a, e) /\ DownFrame(a, a) BY <2>2, <2>3 DEF DownFrame, SameUp
    <2>8. DownArm(d) BY <1>1, <2>2, <2>3, <2>4 DEF DownArm, SameDown
    <2>9. DownDone(a, d) BY <1>1, <2>4, <2>5, <2>6, <2>7, <2>8 DEF DownDone
    <2> QED BY <1>3, <2>9
  <1> QED BY <1>2, <1>4, <1>5

\* The whole pipe towards the client.
LEMMA WriteStreamInPipeOK ==
  ASSUME NEW c, Good(c), Cons(c), ~c.closed_, NEW d \in WriteStreamInPipe(c)
  PROVE  DownDone(c, d)
  <1>0. Len(c.rin) \in Nat /\ Len(c.downstream_) \in Nat /\ c.stage \in {"handshake", "stream"}
    BY Empty DEF Good, Connection
  <1>1. CASE c.channel # "connected"
    <2>1. d \in WriteBuffered(c) BY <1>1 DEF WriteStreamInPipe
    <2> QED BY <1>1, <2>1, WriteBufferedOK
  <1>2. CASE c.channel = "connected" /\ ~Unwritable(c)
    <2>1. c.stage = "stream" BY <1>0, <1>2 DEF Cons, Shape
    <2>2. PICK n \in 0 .. Len(c.rin) : d \in Full(c, n) \/ d \in Idle(c, n) BY <1>2 DEF WriteStreamInPipe
    <2> QED BY <1>2, <2>1, <2>2, FullOK, IdleOK
  <1>3. CASE c.channel = "connected" /\ Unwritable(c) /\ c.downstream_ # << >>
    <2>1. d = OnDisconnect(c) BY <1>3 DEF WriteStreamInPipe
    <2> QED BY <2>1, OnDisconnectOK DEF DownDone
  <1>4. CASE c.channel = "connected" /\ Unwritable(c) /\ c.downstream_ = << >>
    <2>1. d \in Idle(c, 0) \/ \E n \in 1 .. Len(c.rin) : d = OnDisconnect(Sent(c, n, 0))
      BY <1>4 DEF WriteStreamInPipe
    <2>2. 0 \in 0 .. Len(c.rin) BY <1>0
    <2>3. ASSUME d \in Idle(c, 0) PROVE DownDone(c, d) BY <1>4, <2>2, <2>3, IdleOK
    <2>4. ASSUME NEW n \in 1 .. Len(c.rin), d = OnDisconnect(Sent(c, n, 0)) PROVE DownDone(c, d)
      <3> DEFINE a == Sent(c, n, 0)
      <3>1. n \in 0 .. Len(c.rin) /\ 0 \in 0 .. Len(c.downstream_) + n BY <1>0
      <3>2. c.stage = "stream" BY <1>0, <1>4 DEF Cons, Shape
      <3>3. Good(a) BY <3>1, <3>2, SentOK
      <3> HIDE DEF a
      <3> QED BY <2>4, <3>3, OnDisconnectOK DEF DownDone, a
    <2> QED BY <2>1, <2>3, <2>4
  <1> QED BY <1>1, <1>2, <1>3, <1>4

-----------------------------------------------------------------------------
(* Towards the remote. *)

\* The side of the client is untouched.
UpFrame(c, d) ==
  /\ d.downstream_ = c.downstream_ /\ d.write_inprogress_ = c.write_inprogress_
  /\ d.channel = c.channel /\ d.channel_read = c.channel_read /\ d.stage = c.stage

\* What a step towards the remote leaves behind.
UpDone(c, d) ==
  /\ Good(d)
  /\ d.closed_ \/ (Cons(d) /\ UpFrame(c, d) /\ Parked(d) /\ (Writable(c) => UpArm(d)))

\* OnUpstreamWriteFlush parks a wait_write on data, if the channel is writable.
LEMMA FlushOK ==
  ASSUME NEW c, Good(c), Cons(c), ~c.closed_, Parked(c), NEW d, d = OnUpstreamWriteFlush(c)
  PROVE  /\ Good(d) /\ Cons(d) /\ ~d.closed_ /\ UpFrame(c, d) /\ Parked(d)
         /\ Writable(c) /\ c.upstream_ # << >> => UpArm(d)
         /\ UpArm(c) => UpArm(d)
  <1> DEFINE e == [c EXCEPT !.upstream_writable_ = FALSE, !.channel_write = (c.channel = "connected")]
  <1>0. c \in Connection BY DEF Good
  <1>1. e \in Connection BY <1>0 DEF Connection
  <1>2. SameUp(c, e) /\ SameDown(c, e) BY <1>0 DEF Connection, SameUp, SameDown
  <1>3. /\ e.stage = c.stage /\ e.write_inprogress_ = c.write_inprogress_
        /\ e.downstream_read = c.downstream_read /\ e.closed_ = c.closed_
        /\ e.channel = c.channel /\ e.channel_read = c.channel_read
        /\ e.channel_write = (c.channel = "connected")
    BY <1>0 DEF Connection
  <1>4. d = IF c.upstream_ # << >> /\ c.upstream_writable_ THEN e ELSE c BY DEF OnUpstreamWriteFlush
  <1>5. c.channel_write \in BOOLEAN BY <1>0 DEF Connection
  <1> HIDE DEF e
  <1>6. Good(e) BY <1>1, <1>3 DEF Good
  <1>9. Cons(e) BY <1>2, <1>3, KeepCons
  <1>10. UpFrame(c, e) /\ UpFrame(c, c) BY <1>2, <1>3 DEF UpFrame, SameDown
  <1>11. c.upstream_ # << >> => Parked(e) /\ UpArm(e)
    BY <1>2, <1>3 DEF Parked, UpArm, Writable, SameUp
  <1>12. CASE c.upstream_ # << >> /\ c.upstream_writable_
    BY <1>3, <1>4, <1>6, <1>9, <1>10, <1>11, <1>12
  <1>13. CASE ~(c.upstream_ # << >> /\ c.upstream_writable_)
    <2>1. d = c BY <1>4, <1>13
    <2>2. Writable(c) /\ c.upstream_ # << >> => UpArm(c) BY <1>13 DEF Writable, UpArm
    <2> QED BY <2>1, <2>2, <1>10
  <1> QED BY <1>12, <1>13

\* ReadStream leaves the client being read.
LEMMA ReadStreamOK ==
  ASSUME NEW c, Good(c), Cons(c), ~c.closed_, c.stage = "stream", Parked(c), NEW how \in {"wait", "posted"},
         NEW d, d = ReadStream(c, how)
  PROVE  /\ Good(d) /\ Cons(d) /\ ~d.closed_ /\ UpFrame(c, d) /\ Parked(d)
         /\ Writable(c) /\ (c.upstream_ = << >> \/ c.channel # "connected") => UpArm(d)
  <1> DEFINE e == [c EXCEPT !.downstream_read = how]
  <1>0. c \in Connection BY DEF Good
  <1>1. e \in Connection BY <1>0 DEF Connection
  <1>2. SameUp(c, e) /\ SameDown(c, e) BY <1>0 DEF Connection, SameUp, SameDown
  <1>3. /\ e.stage = c.stage /\ e.write_inprogress_ = c.write_inprogress_
        /\ e.downstream_read # "no" /\ e.closed_ = c.closed_
        /\ e.upstream_writable_ = c.upstream_writable_ /\ e.channel = c.channel
        /\ e.channel_write = c.channel_write /\ e.channel_read = c.channel_read
    BY <1>0 DEF Connection
  <1>4. d = IF c.downstream_read = "no" THEN e ELSE c BY DEF ReadStream
  <1> HIDE DEF e
  <1>5. Good(e) BY <1>1, <1>3 DEF Good
  <1>6. Cons(e) BY <1>2, <1>3, KeepCons
  <1>7. UpFrame(c, e) /\ UpFrame(c, c) BY <1>2, <1>3 DEF UpFrame, SameDown
  <1>8. Parked(e) BY <1>2, <1>3 DEF Parked, SameUp
  <1>9. d.downstream_read # "no" BY <1>3, <1>4
  <1>10. Good(d) /\ Cons(d) /\ ~d.closed_ /\ UpFrame(c, d) /\ Parked(d) BY <1>3, <1>4, <1>5, <1>6, <1>7, <1>8
  <1>11. /\ d.upstream_ = c.upstream_ /\ d.channel = c.channel /\ d.channel_write = c.channel_write
         /\ d.upstream_writable_ = c.upstream_writable_
    BY <1>2, <1>3, <1>4 DEF SameUp
  <1>12. Writable(c) /\ (c.upstream_ = << >> \/ c.channel # "connected") => UpArm(d)
    BY <1>9, <1>10, <1>11 DEF UpArm, Writable
  <1> QED BY <1>10, <1>12

\* n chunks of the client were read, and the channel took k of what there was.
LEMMA PipedOK ==
  ASSUME NEW c, Good(c), Cons(c), ~c.closed_, c.channel = "connected", ~c.channel_write,
         NEW n \in 0 .. Len(c.cin), NEW k \in 0 .. Len(c.upstream_) + n, NEW d, d = Piped(c, n, k)
  PROVE  /\ Good(d) /\ Cons(d) /\ ~d.closed_ /\ UpFrame(c, d) /\ Parked(d)
         /\ d.channel = "connected" /\ d.stage = "stream"
         /\ Len(d.upstream_) = Len(c.upstream_) + n - k /\ d.upstream_ \in Seq(Chunks)
         /\ Writable(c) => Writable(d)
  <1> DEFINE all == c.upstream_ \o First(c.cin, n)
             o == c.rout \o First(all, k)
             u == Rest(all, k)
             r == Rest(c.cin, n)
  <1>0. c \in Connection BY DEF Good
  <1>1. /\ c.rout \in Seq(Chunks) /\ c.upstream_ \in Seq(Chunks) /\ c.cin \in Seq(Chunks)
        /\ c.stage \in {"handshake", "stream"}
    BY <1>0 DEF Connection
  <1>2. d = [[c EXCEPT !.cin = r] EXCEPT !.rout = o, !.upstream_ = u]
    BY <1>0 DEF Piped, Took, Connection
  <1>3. /\ o \in Seq(Chunks) /\ u \in Seq(Chunks) /\ r \in Seq(Chunks)
        /\ Len(u) = Len(c.upstream_) + n - k
        /\ (o \o u) \o r = (c.rout \o c.upstream_) \o c.cin
    <2>1. PipeKeeps(c.rout, c.upstream_, c.cin, n, k) BY <1>1, PipedMoved
    <2> QED BY <2>1 DEF PipeKeeps
  <1> HIDE DEF all, o, u, r
  <1>4. d \in Connection BY <1>0, <1>2, <1>3 DEF Connection
  <1>5. SameDown(c, d) BY <1>0, <1>2 DEF Connection, SameDown
  <1>6. d.rout = o /\ d.upstream_ = u /\ d.cin = r /\ d.csent = c.csent BY <1>0, <1>2 DEF Connection
  <1>7. /\ d.stage = c.stage /\ d.write_inprogress_ = c.write_inprogress_
        /\ d.downstream_read = c.downstream_read /\ d.closed_ = c.closed_
        /\ d.upstream_writable_ = c.upstream_writable_ /\ d.channel = c.channel
        /\ d.channel_write = c.channel_write /\ d.channel_read = c.channel_read
    BY <1>0, <1>2 DEF Connection
  <1>8. Good(d) BY <1>4, <1>7 DEF Good
  <1>9. UpData(d) BY <1>3, <1>6 DEF Cons, UpData
  <1>10. c.stage = "stream" BY <1>1 DEF Cons, Shape
  <1>11. DownData(d) BY <1>5 DEF Cons, DownData, Front, SameDown
  <1>12. Shape(d) BY <1>7, <1>10 DEF Shape
  <1>13. UpFrame(c, d) BY <1>5, <1>7 DEF UpFrame, SameDown
  <1>14. Parked(d) /\ (Writable(c) => Writable(d)) BY <1>7 DEF Parked, Writable
  <1> QED BY <1>3, <1>6, <1>7, <1>8, <1>9, <1>10, <1>11, <1>12, <1>13, <1>14 DEF Cons

\* A read while the channel is not connected goes to upstream_, which is empty.
LEMMA FilledOK ==
  ASSUME NEW c, Good(c), Cons(c), ~c.closed_, c.stage = "stream", c.channel # "connected", c.upstream_ = << >>,
         NEW n \in 0 .. Len(c.cin), NEW d, d = [Took(c, n) EXCEPT !.upstream_ = First(c.cin, n)]
  PROVE  Good(d) /\ Cons(d) /\ ~d.closed_ /\ UpFrame(c, d) /\ UpArm(d)
  <1> DEFINE u == First(c.cin, n)
             r == Rest(c.cin, n)
  <1>0. c \in Connection BY DEF Good
  <1>1. c.rout \in Seq(Chunks) /\ c.cin \in Seq(Chunks) BY <1>0 DEF Connection
  <1>2. d = [[c EXCEPT !.cin = r] EXCEPT !.upstream_ = u] BY <1>0 DEF Took, Connection
  <1>3. u \in Seq(Chunks) /\ r \in Seq(Chunks) /\ (c.rout \o u) \o r = c.rout \o c.cin BY <1>1, Split, Moved
  <1>4. c.rout \o << >> = c.rout BY <1>1, Empty
  <1> HIDE DEF u, r
  <1>5. d \in Connection BY <1>0, <1>2, <1>3 DEF Connection
  <1>6. SameDown(c, d) BY <1>0, <1>2 DEF Connection, SameDown
  <1>7. d.rout = c.rout /\ d.upstream_ = u /\ d.cin = r /\ d.csent = c.csent BY <1>0, <1>2 DEF Connection
  <1>8. SameWaits(c, d) BY <1>0, <1>2 DEF Connection, SameWaits
  <1>9. Good(d) BY <1>5, <1>8 DEF Good, SameWaits
  <1>10. UpData(d) BY <1>3, <1>4, <1>7 DEF Cons, UpData
  <1>11. DownData(d) BY <1>6 DEF Cons, DownData, Front, SameDown
  <1>12. Shape(d) BY <1>6, <1>8 DEF Cons, Shape, SameDown, SameWaits
  <1>13. UpFrame(c, d) BY <1>6, <1>8 DEF UpFrame, SameDown, SameWaits
  <1>14. UpArm(d) BY <1>8 DEF UpArm, Parked, Writable, Good, SameWaits
  <1> QED BY <1>8, <1>9, <1>10, <1>11, <1>12, <1>13, <1>14 DEF Cons, SameWaits

\* WriteUpstreamInPipe without a connected channel.
LEMMA FillUpstreamOK ==
  ASSUME NEW c, Good(c), Cons(c), ~c.closed_, c.stage = "stream", c.channel # "connected", NEW d \in FillUpstream(c)
  PROVE  UpDone(c, d)
  <1>1. Parked(c) /\ Writable(c) /\ UpArm(c) BY DEF Parked, Writable, UpArm, Good
  <1>2. CASE c.upstream_ # << >>
    <2>1. d = c BY <1>2 DEF FillUpstream
    <2>2. UpFrame(c, c) BY DEF UpFrame
    <2> QED BY <1>1, <2>1, <2>2 DEF UpDone
  <1>3. CASE c.upstream_ = << >>
    <2>1. \/ d = OnDisconnect(c) \/ d = ReadStream(c, "wait")
          \/ \E n \in 1 .. Len(c.cin) : d = [Took(c, n) EXCEPT !.upstream_ = First(c.cin, n)]
      BY <1>3 DEF FillUpstream, When
    <2>2. ASSUME d = OnDisconnect(c) PROVE UpDone(c, d) BY <2>2, OnDisconnectOK DEF UpDone
    <2>3. ASSUME d = ReadStream(c, "wait") PROVE UpDone(c, d) BY <1>1, <2>3, ReadStreamOK DEF UpDone
    <2>4. ASSUME NEW n \in 1 .. Len(c.cin), d = [Took(c, n) EXCEPT !.upstream_ = First(c.cin, n)]
          PROVE  UpDone(c, d)
      <3>0. Len(c.cin) \in Nat BY Empty DEF Good, Connection
      <3>1. n \in 0 .. Len(c.cin) BY <3>0
      <3>2. Good(d) /\ Cons(d) /\ UpFrame(c, d) /\ UpArm(d) BY <1>3, <2>4, <3>1, FilledOK
      <3> QED BY <3>2 DEF UpDone, UpArm
    <2> QED BY <2>1, <2>2, <2>3, <2>4
  <1> QED BY <1>2, <1>3

\* The channel took some and no more: the rest is waited for.
LEMMA BlockedOK ==
  ASSUME NEW c, Good(c), Cons(c), ~c.closed_, c.channel = "connected", ~c.channel_write,
         NEW n \in 0 .. Len(c.cin), NEW d \in Blocked(c, n)
  PROVE  UpDone(c, d)
  <1>0. Len(c.upstream_) \in Nat /\ Len(c.cin) \in Nat BY Empty DEF Good, Connection
  <1>1. PICK k \in (IF n = 0 THEN 0 ELSE Len(c.upstream_) + n - n) .. Len(c.upstream_) + n - 1 :
          d = OnUpstreamWriteFlush(Piped(c, n, k))
    BY DEF Blocked
  <1>2. k \in 0 .. Len(c.upstream_) + n /\ Len(c.upstream_) + n - k # 0 BY <1>0
  <1> DEFINE e == Piped(c, n, k)
  <1>3. /\ Good(e) /\ Cons(e) /\ ~e.closed_ /\ UpFrame(c, e) /\ Parked(e)
        /\ Len(e.upstream_) = Len(c.upstream_) + n - k /\ e.upstream_ \in Seq(Chunks)
        /\ Writable(c) => Writable(e)
    BY <1>2, PipedOK
  <1>4. d = OnUpstreamWriteFlush(e) BY <1>1
  <1> HIDE DEF e
  <1>5. e.upstream_ # << >> BY <1>2, <1>3, Empty
  <1>6. Good(d) /\ Cons(d) /\ UpFrame(e, d) /\ Parked(d) /\ (Writable(c) => UpArm(d))
    BY <1>3, <1>4, <1>5, FlushOK
  <1>7. UpFrame(c, d) BY <1>3, <1>6 DEF UpFrame
  <1> QED BY <1>6, <1>7 DEF UpDone

\* The channel took all: the client is being read.
LEMMA DrainedOK ==
  ASSUME NEW c, Good(c), Cons(c), ~c.closed_, c.channel = "connected", ~c.channel_write,
         NEW n \in 0 .. Len(c.cin), NEW d \in Drained(c, n)
  PROVE  UpDone(c, d)
  <1> DEFINE k == Len(c.upstream_) + n
             e == Piped(c, n, k)
  <1>0. Len(c.upstream_) \in Nat /\ Len(c.cin) \in Nat BY Empty DEF Good, Connection
  <1>1. k \in 0 .. Len(c.upstream_) + n /\ Len(c.upstream_) + n - k = 0 BY <1>0
  <1>2. d = OnDisconnect(e) \/ \E how \in {"wait", "posted"} : d = ReadStream(e, how)
    BY DEF Drained, When
  <1> HIDE DEF k
  <1>3. /\ Good(e) /\ Cons(e) /\ ~e.closed_ /\ UpFrame(c, e) /\ Parked(e) /\ e.stage = "stream"
        /\ Len(e.upstream_) = Len(c.upstream_) + n - k /\ e.upstream_ \in Seq(Chunks)
        /\ Writable(c) => Writable(e)
    BY <1>1, PipedOK
  <1> HIDE DEF e
  <1>4. e.upstream_ = << >> BY <1>1, <1>3, Empty
  <1>5. ASSUME d = OnDisconnect(e) PROVE UpDone(c, d) BY <1>3, <1>5, OnDisconnectOK DEF UpDone
  <1>6. ASSUME NEW how \in {"wait", "posted"}, d = ReadStream(e, how) PROVE UpDone(c, d)
    <2>1. Good(d) /\ Cons(d) /\ UpFrame(e, d) /\ Parked(d) /\ (Writable(c) => UpArm(d))
      BY <1>3, <1>4, <1>6, ReadStreamOK
    <2>2. UpFrame(c, d) BY <1>3, <2>1 DEF UpFrame
    <2> QED BY <2>1, <2>2 DEF UpDone
  <1> QED BY <1>2, <1>5, <1>6

\* The channel failed: the connection is closed.
LEMMA BrokenOK ==
  ASSUME NEW c, Good(c), Cons(c), ~c.closed_, c.channel = "connected", ~c.channel_write,
         NEW n \in 0 .. Len(c.cin), NEW d \in Broken(c, n)
  PROVE  UpDone(c, d)
  <1> DEFINE e == Piped(c, n, 0)
  <1>1. PICK b \in disconnected(e) : d = OnDisconnect(b) BY DEF Broken
  <1>2. 0 \in 0 .. Len(c.upstream_) + n
    <2>1. Len(c.upstream_) \in Nat /\ Len(c.cin) \in Nat BY Empty DEF Good, Connection
    <2> QED BY <2>1
  <1>3. Good(e) /\ Cons(e) /\ ~e.closed_ /\ e.channel = "connected" BY <1>2, PipedOK
  <1> HIDE DEF e
  <1>4. Good(b) BY <1>1, <1>3, disconnectedOK DEF DownDone
  <1> QED BY <1>1, <1>4, OnDisconnectOK DEF UpDone

\* The whole pipe towards the remote.
LEMMA WriteUpstreamInPipeOK ==
  ASSUME NEW c, Good(c), Cons(c), ~c.closed_, c.stage = "stream", Parked(c), NEW d \in WriteUpstreamInPipe(c)
  PROVE  UpDone(c, d)
  <1>0. Len(c.cin) \in Nat BY Empty DEF Good, Connection
  <1>1. CASE c.channel_write
    <2>1. d = c BY <1>1 DEF WriteUpstreamInPipe
    <2>2. UpArm(c) BY <1>1 DEF UpArm, Parked, Writable
    <2>3. UpFrame(c, c) BY DEF UpFrame
    <2> QED BY <2>1, <2>2, <2>3 DEF UpDone
  <1>2. CASE ~c.channel_write /\ c.channel # "connected"
    <2>1. d \in FillUpstream(c) BY <1>2 DEF WriteUpstreamInPipe
    <2> QED BY <1>2, <2>1, FillUpstreamOK
  <1>3. CASE ~c.channel_write /\ c.channel = "connected" /\ c.remote # "gone"
    <2>1. PICK n \in 0 .. Len(c.cin) : d \in Blocked(c, n) \/ d \in Drained(c, n)
      BY <1>3 DEF WriteUpstreamInPipe
    <2> QED BY <1>3, <2>1, BlockedOK, DrainedOK
  <1>4. CASE ~c.channel_write /\ c.channel = "connected" /\ c.remote = "gone"
    <2>1. \/ d \in Broken(c, 0)
          \/ \E n \in 1 .. Len(c.cin) : d \in Broken(c, n)
          \/ d = OnDisconnect(c)
          \/ c.upstream_ = << >> /\ d = ReadStream(c, "wait")
      <3>1. CASE c.upstream_ # << >> BY <1>4, <3>1 DEF WriteUpstreamInPipe
      <3>2. CASE c.upstream_ = << >> BY <1>4, <3>2 DEF WriteUpstreamInPipe, When
      <3> QED BY <3>1, <3>2
    <2>2. 0 \in 0 .. Len(c.cin) /\ \A n \in 1 .. Len(c.cin) : n \in 0 .. Len(c.cin) BY <1>0
    <2>3. ASSUME NEW n \in 0 .. Len(c.cin), d \in Broken(c, n) PROVE UpDone(c, d) BY <1>4, <2>3, BrokenOK
    <2>4. ASSUME d = OnDisconnect(c) PROVE UpDone(c, d) BY <2>4, OnDisconnectOK DEF UpDone
    <2>5. ASSUME c.upstream_ = << >>, d = ReadStream(c, "wait") PROVE UpDone(c, d)
      BY <2>5, ReadStreamOK DEF UpDone
    <2> QED BY <2>1, <2>2, <2>3, <2>4, <2>5
  <1> QED BY <1>1, <1>2, <1>3, <1>4

\* The pipe and the flush behind it, as the handlers call them.
LEMMA PipeAndFlushOK ==
  ASSUME NEW c, Good(c), Cons(c), ~c.closed_, c.stage = "stream", Parked(c), NEW d \in PipeAndFlush(c)
  PROVE  UpDone(c, d)
  <1>1. PICK e \in WriteUpstreamInPipe(c) : d \in IF e.closed_ THEN {e} ELSE {OnUpstreamWriteFlush(e)}
    BY ZenonT(30) DEF PipeAndFlush, Then
  <1>2. UpDone(c, e) BY <1>1, WriteUpstreamInPipeOK
  <1>3. CASE e.closed_
    <2>1. d = e BY <1>1, <1>3
    <2> QED BY <1>2, <2>1
  <1>4. CASE ~e.closed_
    <2>1. d = OnUpstreamWriteFlush(e) BY <1>1, <1>4
    <2>2. Good(e) /\ Cons(e) /\ UpFrame(c, e) /\ Parked(e) /\ (Writable(c) => UpArm(e)) BY <1>2, <1>4 DEF UpDone
    <2>3. Good(d) /\ Cons(d) /\ UpFrame(e, d) /\ Parked(d) /\ (Writable(c) => UpArm(d))
      BY <1>4, <2>1, <2>2, FlushOK
    <2>4. UpFrame(c, d) BY <2>2, <2>3 DEF UpFrame
    <2> QED BY <2>3, <2>4 DEF UpDone
  <1> QED BY <1>3, <1>4

-----------------------------------------------------------------------------
(* The handlers. *)

\* What every handler leaves behind.
Kept(d) == Good(d) /\ (d.closed_ \/ (Cons(d) /\ UpArm(d) /\ DownArm(d)))

\* A handler that works towards the client.
LEMMA DownKept ==
  ASSUME NEW c, UpArm(c), NEW d, DownDone(c, d)
  PROVE  Kept(d)
  <1>1. DownFrame(c, d) => UpArm(d) BY DEF UpArm, Parked, Writable, DownFrame
  <1> QED BY <1>1 DEF Kept, DownDone

\* A handler that works towards the remote.
LEMMA UpKept ==
  ASSUME NEW c, Writable(c), DownArm(c), NEW d, UpDone(c, d)
  PROVE  Kept(d)
  <1>1. UpFrame(c, d) => DownArm(d) BY DEF DownArm, UpFrame
  <1> QED BY <1>1 DEF Kept, UpDone

\* The stream gives up before anything was written: nothing but the flags of the
\* connection changes.
LEMMA QuietlyDisconnected ==
  ASSUME NEW c, Good(c), ~c.closed_, c.channel = "closed", c.downstream_ = << >>, NEW d \in disconnected(c)
  PROVE  Good(d) /\ (d.closed_ \/ (SameUp(c, d) /\ SameDown(c, d) /\ SameWaits(c, d)))
  <1> DEFINE f == [c EXCEPT !.upstream_writable_ = FALSE]
  <1>0. c \in Connection /\ CloseChannel(c) = c BY CloseFields DEF Good
  <1>1. d \in IF f.downstream_ = << >> /\ ~f.shutdown_ THEN Shut(f) ELSE WriteBuffered(f)
    BY <1>0 DEF disconnected
  <1>2. f \in Connection BY <1>0 DEF Connection
  <1>3. SameUp(c, f) /\ SameDown(c, f) /\ SameWaits(c, f) BY <1>0 DEF Connection, SameUp, SameDown, SameWaits
  <1> HIDE DEF f
  <1>4. Good(f) /\ ~f.closed_ BY <1>2, <1>3 DEF Good, SameWaits
  <1>5. f.downstream_ = << >> BY <1>3 DEF SameDown
  <1>6. CASE ~f.shutdown_
    <2>1. d \in Shut(f) BY <1>1, <1>5, <1>6
    <2>2. Good(d) /\ (d.closed_ \/ (SameUp(f, d) /\ SameDown(f, d) /\ SameWaits(f, d))) BY <1>4, <2>1, ShutOK
    <2> QED BY <1>3, <2>2 DEF SameUp, SameDown, SameWaits
  <1>7. CASE f.shutdown_
    <2>1. d = f BY <1>1, <1>5, <1>7 DEF WriteBuffered
    <2> QED BY <1>3, <1>4, <2>1
  <1> QED BY <1>6, <1>7

\* A connection on which the request is complete, before the reply to CONNECT.
Ready(c, start, kind) ==
  [c EXCEPT !.stage = "stream", !.channel = start, !.replies = kind \in {"socks", "connect"},
            !.cout = IF kind = "socks" THEN <<0>> ELSE @]

\* The reply to CONNECT goes through downstream_.
Replied(b, kind) ==
  IF kind = "connect" THEN OnDownstreamWriteFlush([b EXCEPT !.downstream_ = <<0>>]) ELSE b

\* How a reply leaves the connection: in order, and the channel not yet there.
Answered(c, d) ==
  /\ Good(d) /\ Cons(d) /\ ~d.closed_ /\ DownArm(d) /\ d.stage = "stream"
  /\ d.channel # "connected" /\ d.upstream_ = << >> /\ d.cin = c.cin

\* Membership is a Boolean.
LEMMA Membership == ASSUME NEW k, NEW S PROVE (k \in S) \in BOOLEAN
  OBVIOUS

\* b differs from a only in its flags.
Alike(a, b) == SameUp(a, b) /\ SameDown(a, b) /\ SameWaits(a, b)

\* The reply to the request, if there is one, comes before all else.
LEMMA RepliedOK ==
  ASSUME NEW c, Good(c), Cons(c), ~c.closed_, c.stage = "handshake",
         NEW start \in {"connecting", "closed"}, NEW kind \in {"ss", "socks", "connect", "plain"},
         NEW b, Good(b), Alike(Ready(c, start, kind), b)
  PROVE  Answered(c, Replied(b, kind))
  <1> DEFINE a == Ready(c, start, kind)
             d == Replied(b, kind)
  <1>0. c \in Connection /\ b \in Connection BY DEF Good
  <1>1. /\ c.cout = << >> /\ c.downstream_ = << >> /\ c.upstream_ = << >> /\ c.channel = "none"
        /\ c.rin = << >> /\ c.rsent = 0
    BY DEF Cons, Shape
  <1> DEFINE o == IF kind = "socks" THEN <<0>> ELSE << >>
             y == kind \in {"socks", "connect"}
  <1>2. a = [c EXCEPT !.stage = "stream", !.channel = start, !.replies = y, !.cout = o]
    BY <1>0, <1>1 DEF Ready, Connection
  <1>3. /\ a.rout = c.rout /\ a.upstream_ = c.upstream_ /\ a.cin = c.cin /\ a.csent = c.csent
        /\ a.cout = o /\ a.downstream_ = c.downstream_ /\ a.rin = c.rin /\ a.rsent = c.rsent
        /\ a.replies = y /\ a.stage = "stream" /\ a.closed_ = c.closed_ /\ a.channel = start
    BY <1>0, <1>2 DEF Connection
  <1> HIDE DEF o, y
  <1>4. /\ b.rout = c.rout /\ b.upstream_ = << >> /\ b.cin = c.cin /\ b.csent = c.csent
        /\ b.cout = o /\ b.downstream_ = << >> /\ b.rin = << >> /\ b.rsent = 0
        /\ b.replies = y /\ b.stage = "stream" /\ ~b.closed_ /\ b.channel # "connected"
    BY <1>1, <1>3 DEF Alike, SameUp, SameDown, SameWaits
  <1> HIDE DEF a
  <1>5. UpData(b) BY <1>1, <1>4 DEF Cons, UpData
  <1>6. << >> \o <<0>> = <<0>> /\ <<0>> \o << >> = <<0>> /\ << >> \o << >> = << >>
    BY ZeroChunk, Empty
  <1>7. Run(0) = << >> BY DEF Run
  <1>8. CASE kind = "connect"
    <2> DEFINE e == [b EXCEPT !.downstream_ = <<0>>]
    <2>1. e \in Connection BY <1>0, ZeroChunk DEF Connection
    <2>2. SameUp(b, e) BY <1>0 DEF Connection, SameUp
    <2>3. /\ e.cout = b.cout /\ e.downstream_ = <<0>> /\ e.rin = b.rin /\ e.rsent = b.rsent
          /\ e.replies = b.replies
      BY <1>0 DEF Connection
    <2>4. /\ e.stage = b.stage /\ e.closed_ = b.closed_ /\ e.channel = b.channel
          /\ e.channel_read = b.channel_read /\ e.channel_write = b.channel_write
      BY <1>0 DEF Connection
    <2>5. d = OnDownstreamWriteFlush(e) BY <1>8 DEF Replied
    <2> HIDE DEF e, d
    <2>6. Good(e) BY <2>1, <2>4 DEF Good
    <2>7. UpData(e) BY <1>5, <2>2 DEF UpData, SameUp
    <2>8. DownData(e)
      <3>1. o = << >> /\ y BY <1>8 DEF o, y
      <3>2. (e.cout \o e.downstream_) \o e.rin = <<0>> \o << >> BY <1>4, <1>6, <2>3, <3>1
      <3> QED BY <1>4, <1>7, <2>3, <3>1, <3>2 DEF DownData, Front
    <2>9. Shape(e) BY <1>4, <2>3, <2>4 DEF Shape
    <2>10. Cons(e) BY <2>7, <2>8, <2>9 DEF Cons
    <2>11. /\ Good(d) /\ Cons(d) /\ ~d.closed_ /\ DownFrame(e, d)
           /\ d.downstream_ = e.downstream_ /\ (d.downstream_ # << >> => d.write_inprogress_)
           /\ d.channel = e.channel
      BY <1>4, <2>4, <2>5, <2>6, <2>10, DownFlushOK
    <2>12. DownArm(d) BY <1>4, <2>4, <2>11 DEF DownArm
    <2>13. d.stage = "stream" /\ d.channel # "connected" /\ d.upstream_ = << >> /\ d.cin = c.cin
      BY <1>4, <2>2, <2>4, <2>11 DEF DownFrame, SameUp
    <2>14. Answered(c, d) BY <2>11, <2>12, <2>13 DEF Answered
    <2> QED BY <2>14 DEF d
  <1>9. CASE kind # "connect"
    <2>0. d = b BY <1>9 DEF Replied
    <2>1. DownData(b)
      <3>1. (o = <<0>> /\ y) \/ (o = << >> /\ ~y) BY <1>9 DEF o, y
      <3>2. (b.cout \o b.downstream_) \o b.rin = o \o << >>
        BY <1>4, <1>6, <3>1
      <3> QED BY <1>4, <1>7, <3>1, <3>2 DEF DownData, Front
    <2>2. Shape(b) BY <1>4 DEF Shape
    <2>3. DownArm(b) BY <1>4 DEF DownArm
    <2>4. Answered(c, b) BY <1>1, <1>4, <1>5, <2>1, <2>2, <2>3 DEF Cons, Answered
    <2> QED BY <2>0, <2>4
  <1> QED BY <1>8, <1>9

\* What came with the request is kept, or the client is read.
LEMMA GoOnOK ==
  ASSUME NEW d, Good(d), Cons(d), ~d.closed_, DownArm(d), d.stage = "stream", d.channel # "connected",
         d.upstream_ = << >>, NEW n \in 0 .. Len(d.cin),
         NEW e \in (IF n > 0 THEN {[Took(d, n) EXCEPT !.upstream_ = First(d.cin, n)]} ELSE PipeAndFlush(d))
  PROVE  Kept(e)
  <1>1. CASE n > 0
    <2>1. e = [Took(d, n) EXCEPT !.upstream_ = First(d.cin, n)] BY <1>1
    <2>2. Good(e) /\ Cons(e) /\ UpFrame(d, e) /\ UpArm(e) BY <2>1, FilledOK
    <2>3. DownArm(e) BY <2>2 DEF DownArm, UpFrame
    <2> QED BY <2>2, <2>3 DEF Kept
  <1>2. CASE ~(n > 0)
    <2>1. e \in PipeAndFlush(d) BY <1>2
    <2>2. Parked(d) /\ Writable(d) BY DEF Parked, Writable, Good
    <2> QED BY <2>1, <2>2, PipeAndFlushOK, UpKept
  <1> QED BY <1>1, <1>2

\* The end of the handshake preserves the invariant.
LEMMA HandshakeStep ==
  ASSUME RelayInv, handshake
  PROVE  Kept(conn')
  <1>0. Good(conn) /\ Cons(conn) /\ ~conn.closed_ /\ conn.stage = "handshake" /\ conn \in Connection
    BY DEF RelayInv, handshake, Open, Good
  <1>1. PICK start \in {"connecting", "closed"}, kind \in {"ss", "socks", "connect", "plain"},
             n \in 0 .. Len(conn.cin) :
       LET c == Ready(conn, start, kind)
           begun == IF start = "closed" THEN disconnected(c) ELSE {c}
           replied(d) == {IF kind = "connect"
                            THEN OnDownstreamWriteFlush([d EXCEPT !.downstream_ = <<0>>]) ELSE d}
           goOn(d) == IF n > 0 THEN {[Took(d, n) EXCEPT !.upstream_ = First(d.cin, n)]}
                               ELSE PipeAndFlush(d)
       IN Does(Then(Then(begun, replied), goOn))
    BY Zenon DEF handshake, Ready
  <1> DEFINE a == Ready(conn, start, kind)
             begun == IF start = "closed" THEN disconnected(a) ELSE {a}
             replied(d) == {IF kind = "connect"
                              THEN OnDownstreamWriteFlush([d EXCEPT !.downstream_ = <<0>>]) ELSE d}
             goOn(d) == IF n > 0 THEN {[Took(d, n) EXCEPT !.upstream_ = First(d.cin, n)]} ELSE PipeAndFlush(d)
  <1>2. conn' \in Then(Then(begun, replied), goOn) BY <1>1, Zenon DEF Does
  <1>3. PICK d \in Then(begun, replied) : conn' \in IF d.closed_ THEN {d} ELSE goOn(d) BY <1>2, Zenon DEF Then
  <1>4. PICK b \in begun : d \in IF b.closed_ THEN {b} ELSE replied(b) BY <1>3, Zenon DEF Then
  <1>5. a = Ready(conn, start, kind) OBVIOUS
  <1>6. a \in Connection /\ SameWaits([conn EXCEPT !.stage = "stream", !.channel = start], a)
        /\ a.downstream_ = conn.downstream_
    <2> DEFINE o == IF kind = "socks" THEN <<0>> ELSE conn.cout
               y == kind \in {"socks", "connect"}
    <2>1. a = [conn EXCEPT !.stage = "stream", !.channel = start, !.replies = y, !.cout = o]
      BY <1>0 DEF Ready, Connection
    <2>3. conn.cout \in Seq(Chunks) BY <1>0 DEF Connection
    <2>4. o \in Seq(Chunks) BY <2>3, ZeroChunk
    <2>5. (kind \in {"socks", "connect"}) \in BOOLEAN BY ONLY Membership
    <2>2. o \in Seq(Chunks) /\ y \in BOOLEAN BY <2>4, <2>5
    <2> HIDE DEF a, o, y
    <2> QED BY <1>0, <2>1, <2>2 DEF Connection, SameWaits
  <1> HIDE DEF a
  <1>7. /\ a.channel = start /\ a.closed_ = conn.closed_ /\ a.channel_read = conn.channel_read
        /\ a.channel_write = conn.channel_write
    BY <1>0, <1>6 DEF SameWaits, Connection
  <1>8. conn.channel = "none" /\ conn.downstream_ = << >> BY <1>0 DEF Cons, Shape
  <1>9. Good(a) /\ ~a.closed_ /\ a.downstream_ = << >> BY <1>0, <1>6, <1>7, <1>8 DEF Good
  <1>10. Good(b) /\ (b.closed_ \/ (SameUp(a, b) /\ SameDown(a, b) /\ SameWaits(a, b)))
    <2>1. CASE start = "closed"
      <3>1. b \in disconnected(a) BY <1>4, <2>1
      <3> QED BY <1>7, <1>9, <2>1, <3>1, QuietlyDisconnected
    <2>2. CASE start # "closed"
      <3>1. b = a BY <1>4, <2>2
      <3> QED BY <1>9, <3>1 DEF SameUp, SameDown, SameWaits
    <2> QED BY <2>1, <2>2
  <1>11. CASE b.closed_
    <2>1. d = b BY <1>4, <1>11
    <2>2. conn' = b BY <1>3, <1>11, <2>1
    <2> QED BY <1>10, <1>11, <2>2 DEF Kept
  <1>12. CASE ~b.closed_
    <2>1. d = Replied(b, kind) BY <1>4, <1>12 DEF Replied
    <2>5. Good(b) /\ Alike(Ready(conn, start, kind), b) BY <1>5, <1>10, <1>12 DEF Alike
    <2>6. Answered(conn, Replied(b, kind)) BY ONLY <1>0, <2>5, RepliedOK,
        start \in {"connecting", "closed"}, kind \in {"ss", "socks", "connect", "plain"}
    <2>2. /\ Good(d) /\ Cons(d) /\ ~d.closed_ /\ DownArm(d) /\ d.stage = "stream"
          /\ d.channel # "connected" /\ d.upstream_ = << >> /\ d.cin = conn.cin
      BY <2>1, <2>6 DEF Answered
    <2>3. conn' \in (IF n > 0 THEN {[Took(d, n) EXCEPT !.upstream_ = First(d.cin, n)]} ELSE PipeAndFlush(d))
      BY <1>3, <2>2
    <2>4. n \in 0 .. Len(d.cin) BY <2>2
    <2> QED BY <2>2, <2>3, <2>4, GoOnOK
  <1> QED BY <1>11, <1>12


\* The channel is there: both pipes start.
LEMMA ConnectedStep ==
  ASSUME RelayInv, channel_connected
  PROVE  Kept(conn')
  <1> DEFINE c == [conn EXCEPT !.channel = "connected", !.upstream_writable_ = TRUE]
  <1>0. Good(conn) /\ Cons(conn) /\ ~conn.closed_ /\ conn.channel = "connecting" /\ conn \in Connection
    BY DEF RelayInv, channel_connected, Open, Good
  <1>1. conn' \in Then(WriteStreamInPipe(c), PipeAndFlush) BY Zenon DEF channel_connected, Does, connected
  <1>2. PICK d \in WriteStreamInPipe(c) : conn' \in IF d.closed_ THEN {d} ELSE PipeAndFlush(d)
    BY <1>1, Zenon DEF Then
  <1>3. c \in Connection BY <1>0 DEF Connection
  <1>4. SameUp(conn, c) /\ SameDown(conn, c) BY <1>0 DEF Connection, SameUp, SameDown
  <1>5. /\ c.stage = conn.stage /\ c.channel = "connected" /\ c.channel_write = conn.channel_write
        /\ c.closed_ = conn.closed_ /\ c.downstream_read = conn.downstream_read /\ c.upstream_writable_
    BY <1>0 DEF Connection
  <1> HIDE DEF c
  <1>6. Good(c) BY <1>3, <1>5 DEF Good
  <1>7. conn.stage = "stream" /\ ~conn.channel_write
    <2>1. conn.stage \in {"handshake", "stream"} BY <1>0 DEF Connection
    <2> QED BY <1>0, <2>1 DEF Cons, Shape, Good
  <1>8. Cons(c)
    <2>1. UpData(c) BY <1>0, <1>4 DEF Cons, UpData, SameUp
    <2>2. DownData(c) BY <1>0, <1>4 DEF Cons, DownData, SameDown, Front
    <2>3. Shape(c) BY <1>5, <1>7 DEF Shape
    <2> QED BY <2>1, <2>2, <2>3 DEF Cons
  <1>9. DownDone(c, d) BY <1>0, <1>2, <1>5, <1>6, <1>8, WriteStreamInPipeOK
  <1>10. CASE d.closed_
    <2>1. conn' = d BY <1>2, <1>10
    <2> QED BY <1>9, <1>10, <2>1 DEF DownDone, Kept
  <1>11. CASE ~d.closed_
    <2>1. Good(d) /\ Cons(d) /\ DownArm(d) /\ DownFrame(c, d) BY <1>9, <1>11 DEF DownDone
    <2>2. Parked(d) /\ Writable(d) /\ d.stage = "stream"
      BY <1>5, <1>7, <2>1 DEF DownFrame, Parked, Writable
    <2>3. conn' \in PipeAndFlush(d) BY <1>2, <1>11
    <2>4. UpDone(d, conn') BY <1>11, <2>1, <2>2, <2>3, PipeAndFlushOK
    <2> QED BY <2>1, <2>2, <2>4, UpKept
  <1> QED BY <1>10, <1>11

\* The connect fails.
LEMMA ChannelRefusedStep ==
  ASSUME RelayInv, channel_refused
  PROVE  Kept(conn')
  <1>0. /\ Good(conn) /\ Cons(conn) /\ ~conn.closed_ /\ UpArm(conn) /\ DownArm(conn) /\ conn \in Connection
        /\ conn.channel = "connecting" /\ ~conn.channel_write /\ conn.channel_read = "no"
    BY DEF RelayInv, channel_refused, Open, Good
  <1>1. CASE conn' \in disconnected(conn)
    <2>1. DownDone(conn, conn') BY <1>0, <1>1, disconnectedOK
    <2> QED BY <1>0, <2>1, DownKept
  <1>2. CASE conn' \in disconnected([conn EXCEPT !.channel = "closed"])
    <2> DEFINE c == [conn EXCEPT !.channel = "closed"]
    <2>1. c \in Connection BY <1>0 DEF Connection
    <2>2. SameUp(conn, c) /\ SameDown(conn, c) BY <1>0 DEF Connection, SameUp, SameDown
    <2>3. /\ c.stage = conn.stage /\ c.channel = "closed" /\ c.channel_write = conn.channel_write
          /\ c.channel_read = conn.channel_read /\ c.closed_ = conn.closed_
          /\ c.downstream_read = conn.downstream_read
      BY <1>0 DEF Connection
    <2>4. conn' \in disconnected(c) BY <1>2
    <2> HIDE DEF c
    <2>5. Good(c) BY <1>0, <2>1, <2>3 DEF Good
    <2>6. Cons(c) BY <1>0, <2>2, <2>3, KeepCons
    <2>7. UpArm(c) BY <1>0, <2>3 DEF UpArm, Parked, Writable
    <2>8. DownDone(c, conn') BY <1>0, <2>3, <2>4, <2>5, <2>6, disconnectedOK
    <2> QED BY <2>7, <2>8, DownKept
  <1> QED BY <1>1, <1>2 DEF channel_refused, Does

\* The channel is read: the pipe runs, then the flush.
LEMMA ChannelReadableStep ==
  ASSUME RelayInv, channel_readable
  PROVE  Kept(conn')
  <1> DEFINE c == [conn EXCEPT !.channel_read = "no"]
  <1>0. Good(conn) /\ Cons(conn) /\ ~conn.closed_ /\ UpArm(conn) /\ conn \in Connection
    BY DEF RelayInv, channel_readable, Open, Good
  <1>1. conn' \in received(c) BY DEF channel_readable, Does
  <1>2. c \in Connection BY <1>0 DEF Connection
  <1>3. SameUp(conn, c) /\ SameDown(conn, c) BY <1>0 DEF Connection, SameUp, SameDown
  <1>4. /\ c.stage = conn.stage /\ c.channel = conn.channel /\ c.channel_write = conn.channel_write
        /\ c.closed_ = conn.closed_ /\ c.downstream_read = conn.downstream_read
        /\ c.upstream_writable_ = conn.upstream_writable_ /\ c.channel_read = "no"
    BY <1>0 DEF Connection
  <1> HIDE DEF c
  <1>5. Good(c) BY <1>0, <1>2, <1>4 DEF Good
  <1>6. Cons(c) BY <1>0, <1>3, <1>4, KeepCons
  <1>7. UpArm(c) BY <1>0, <1>3, <1>4 DEF UpArm, Parked, Writable, SameUp
  <1>8. PICK d \in WriteStreamInPipe(c) : conn' \in IF d.closed_ THEN {d} ELSE {OnDownstreamWriteFlush(d)}
    BY <1>1, ZenonT(30) DEF received, Then
  <1>9. DownDone(c, d) BY <1>0, <1>4, <1>5, <1>6, <1>8, WriteStreamInPipeOK
  <1>10. CASE d.closed_
    <2>1. conn' = d BY <1>8, <1>10
    <2> QED BY <1>9, <1>10, <2>1 DEF DownDone, Kept
  <1>11. CASE ~d.closed_
    <2>1. Good(d) /\ Cons(d) /\ DownArm(d) /\ DownFrame(c, d) BY <1>9, <1>11 DEF DownDone
    <2>2. conn' = OnDownstreamWriteFlush(d) BY <1>8, <1>11
    <2>3. UpArm(d) BY <1>7, <2>1 DEF UpArm, Parked, Writable, DownFrame
    <2>4. /\ Good(conn') /\ Cons(conn') /\ ~conn'.closed_ /\ DownFrame(d, conn')
          /\ conn'.downstream_ = d.downstream_ /\ (conn'.downstream_ # << >> => conn'.write_inprogress_)
          /\ conn'.channel = d.channel /\ conn'.channel_read = d.channel_read
      BY <1>11, <2>1, <2>2, DownFlushOK
    <2>5. DownArm(conn') BY <2>1, <2>4 DEF DownArm
    <2>6. DownDone(d, conn') BY <2>4, <2>5 DEF DownDone
    <2> QED BY <2>3, <2>6, DownKept
  <1> QED BY <1>10, <1>11

\* The downlink takes more.
LEMMA DownlinkWritableStep ==
  ASSUME RelayInv, downlink_writable
  PROVE  Kept(conn')
  <1> DEFINE c == [conn EXCEPT !.write_inprogress_ = FALSE]
  <1>0. Good(conn) /\ Cons(conn) /\ ~conn.closed_ /\ UpArm(conn) /\ conn \in Connection
    BY DEF RelayInv, downlink_writable, Open, Good
  <1>1. conn' \in WriteStreamInPipe(c) BY DEF downlink_writable, Does
  <1>2. c \in Connection BY <1>0 DEF Connection
  <1>3. SameUp(conn, c) /\ SameDown(conn, c) BY <1>0 DEF Connection, SameUp, SameDown
  <1>4. /\ c.stage = conn.stage /\ c.channel = conn.channel /\ c.channel_write = conn.channel_write
        /\ c.closed_ = conn.closed_ /\ c.downstream_read = conn.downstream_read
        /\ c.upstream_writable_ = conn.upstream_writable_ /\ c.channel_read = conn.channel_read
    BY <1>0 DEF Connection
  <1> HIDE DEF c
  <1>5. Good(c) BY <1>0, <1>2, <1>4 DEF Good
  <1>6. Cons(c) BY <1>0, <1>3, <1>4, KeepCons
  <1>7. UpArm(c) BY <1>0, <1>3, <1>4 DEF UpArm, Parked, Writable, SameUp
  <1>8. DownDone(c, conn') BY <1>0, <1>1, <1>4, <1>5, <1>6, WriteStreamInPipeOK
  <1> QED BY <1>7, <1>8, DownKept

\* The channel takes more.
LEMMA ChannelWritableStep ==
  ASSUME RelayInv, channel_writable
  PROVE  Kept(conn')
  <1> DEFINE c == [conn EXCEPT !.channel_write = FALSE, !.upstream_writable_ = TRUE]
  <1>0. /\ Good(conn) /\ Cons(conn) /\ ~conn.closed_ /\ DownArm(conn) /\ conn \in Connection
        /\ conn.channel_write
    BY DEF RelayInv, channel_writable, Open, Good
  <1>1. conn' \in PipeAndFlush(c) BY DEF channel_writable, Does, sent
  <1>2. c \in Connection BY <1>0 DEF Connection
  <1>3. SameUp(conn, c) /\ SameDown(conn, c) BY <1>0 DEF Connection, SameUp, SameDown
  <1>4. /\ c.stage = conn.stage /\ c.channel = conn.channel
        /\ ~c.channel_write /\ c.write_inprogress_ = conn.write_inprogress_
        /\ c.closed_ = conn.closed_ /\ c.channel_read = conn.channel_read
        /\ c.downstream_read = conn.downstream_read /\ c.upstream_writable_
    BY <1>0 DEF Connection
  <1> HIDE DEF c
  <1>5. Good(c) BY <1>0, <1>2, <1>4 DEF Good
  <1>6. Cons(c) BY <1>0, <1>3, <1>4, KeepCons
  <1>7. Parked(c) /\ Writable(c) BY <1>4 DEF Parked, Writable
  <1>8. DownArm(c) BY <1>0, <1>3, <1>4 DEF DownArm, SameDown
  <1>9. c.stage = "stream"
    <2>1. conn.stage \in {"handshake", "stream"} /\ conn.channel = "connected" BY <1>0 DEF Connection, Good
    <2> QED BY <1>0, <1>4, <2>1 DEF Cons, Shape
  <1>10. UpDone(c, conn') BY <1>0, <1>1, <1>4, <1>5, <1>6, <1>7, <1>9, PipeAndFlushOK
  <1> QED BY <1>7, <1>8, <1>10, UpKept

\* The client is read.
LEMMA DownlinkReadableStep ==
  ASSUME RelayInv, downlink_readable
  PROVE  Kept(conn')
  <1> DEFINE c == [conn EXCEPT !.downstream_read = "no"]
  <1>0. /\ Good(conn) /\ Cons(conn) /\ ~conn.closed_ /\ UpArm(conn) /\ DownArm(conn) /\ conn \in Connection
        /\ conn.downstream_read # "no"
    BY DEF RelayInv, downlink_readable, Open, Good
  <1>1. conn' \in PipeAndFlush(c) BY DEF downlink_readable, Does
  <1>2. c \in Connection BY <1>0 DEF Connection
  <1>3. SameUp(conn, c) /\ SameDown(conn, c) BY <1>0 DEF Connection, SameUp, SameDown
  <1>4. /\ c.stage = conn.stage /\ c.channel = conn.channel
        /\ c.channel_write = conn.channel_write /\ c.write_inprogress_ = conn.write_inprogress_
        /\ c.closed_ = conn.closed_ /\ c.channel_read = conn.channel_read
        /\ c.upstream_writable_ = conn.upstream_writable_
    BY <1>0 DEF Connection
  <1> HIDE DEF c
  <1>5. Good(c) BY <1>0, <1>2, <1>4 DEF Good
  <1>9. conn.stage = "stream"
    <2>1. conn.stage \in {"handshake", "stream"} BY <1>0 DEF Connection
    <2> QED BY <1>0, <2>1 DEF Cons, Shape
  <1>6. Cons(c) BY <1>0, <1>3, <1>4, <1>9, KeepCons
  <1>7. Parked(c) /\ Writable(c) BY <1>0, <1>3, <1>4 DEF UpArm, Parked, Writable, SameUp
  <1>8. DownArm(c) BY <1>0, <1>3, <1>4 DEF DownArm, SameDown
  <1>10. UpDone(c, conn') BY <1>0, <1>1, <1>4, <1>5, <1>6, <1>7, <1>9, PipeAndFlushOK
  <1> QED BY <1>7, <1>8, <1>10, UpKept

\* A peer that only ends changes nothing the invariant is about.
LEMMA PeerEndsOK ==
  ASSUME RelayInv, Open, NEW p \in Peer,
         conn' = [conn EXCEPT !.client = p] \/ conn' = [conn EXCEPT !.remote = p]
  PROVE  Kept(conn')
  <1>0. Good(conn) /\ Cons(conn) /\ ~conn.closed_ /\ UpArm(conn) /\ DownArm(conn) /\ conn \in Connection
    BY DEF RelayInv, Open, Good
  <1>1. conn' \in Connection
    <2>1. CASE conn' = [conn EXCEPT !.client = p] BY <1>0, <2>1 DEF Connection
    <2>2. CASE conn' = [conn EXCEPT !.remote = p] BY <1>0, <2>2 DEF Connection
    <2> QED BY <2>1, <2>2
  <1>2. SameUp(conn, conn') /\ SameDown(conn, conn') BY <1>0 DEF Connection, SameUp, SameDown
  <1>3. SameWaits(conn, conn') /\ conn'.upstream_writable_ = conn.upstream_writable_
    BY <1>0 DEF Connection, SameWaits
  <1>4. Good(conn') BY <1>0, <1>1, <1>3 DEF Good, SameWaits
  <1>5. Cons(conn') BY <1>0, <1>2, <1>3, KeepCons DEF SameWaits
  <1>6. UpArm(conn') /\ DownArm(conn')
    BY <1>0, <1>2, <1>3 DEF UpArm, Parked, Writable, DownArm, SameUp, SameDown, SameWaits
  <1> QED BY <1>4, <1>5, <1>6 DEF Kept

\* The client sends its next chunk.
LEMMA ClientSendsStep ==
  ASSUME RelayInv, client_sends
  PROVE  Kept(conn')
  <1> DEFINE n == conn.csent
             i == Append(conn.cin, n + 1)
             x == conn.rout \o conn.upstream_
  <1>0. Good(conn) /\ Cons(conn) /\ ~conn.closed_ /\ UpArm(conn) /\ DownArm(conn) /\ conn \in Connection
    BY DEF RelayInv, client_sends, Open, Good
  <1>1. n \in 0 .. MaxClient /\ n < MaxClient /\ conn.cin \in Seq(Chunks)
    BY <1>0 DEF client_sends, Connection
  <1>2. conn' = [conn EXCEPT !.csent = n + 1, !.cin = i] BY <1>0 DEF client_sends, Does, Connection
  <1>3. x \in Seq(Chunks) BY <1>0, Joined DEF Connection
  <1>4. x \o conn.cin = Run(n) BY <1>0 DEF Cons, UpData
  <1>5. n \in Nat /\ n + 1 \in 0 .. MaxClient BY <1>1, MaxClientAssumption
  <1> HIDE DEF n, x
  <1>6. x \o i = Run(n + 1) /\ i \in Seq(Chunks)
    <2>1. 1 .. n \subseteq Chunks /\ 1 .. n + 1 \subseteq Chunks BY <1>1, <1>5, RunBound
    <2>2. Run(n) \in Seq(Chunks) /\ Run(n + 1) \in Seq(Chunks) BY <1>5, <2>1, RunType
    <2>3. << >> \o Run(n) = Run(n) /\ << >> \o Run(n + 1) = Run(n + 1) BY <2>2, Empty
    <2>4. x \o conn.cin = << >> \o Run(n) BY <1>4, <2>3
    <2>5. x \o i = << >> \o Run(n + 1) /\ i \in Seq(Chunks)
      BY <1>1, <1>3, <1>5, <2>1, <2>4, ZeroChunk, SendMoved
    <2> QED BY <2>3, <2>5
  <1> HIDE DEF i
  <1>7. conn' \in Connection BY <1>0, <1>2, <1>5, <1>6 DEF Connection
  <1>8. SameDown(conn, conn') BY <1>0, <1>2 DEF Connection, SameDown
  <1>9. /\ conn'.rout = conn.rout /\ conn'.upstream_ = conn.upstream_
        /\ conn'.cin = i /\ conn'.csent = n + 1
    BY <1>0, <1>2 DEF Connection
  <1>10. SameWaits(conn, conn') /\ conn'.upstream_writable_ = conn.upstream_writable_
    BY <1>0, <1>2 DEF Connection, SameWaits
  <1>11. Good(conn') BY <1>0, <1>7, <1>10 DEF Good, SameWaits
  <1>12. UpData(conn') BY <1>6, <1>9 DEF UpData, x
  <1>13. Shape(conn') BY <1>0, <1>8, <1>9, <1>10 DEF Cons, Shape, SameDown, SameWaits
  <1>14. DownData(conn') BY <1>0, <1>8 DEF Cons, DownData, Front, SameDown
  <1>15. UpArm(conn') BY <1>0, <1>9, <1>10 DEF UpArm, Parked, Writable, SameWaits
  <1>16. DownArm(conn') BY <1>0, <1>8, <1>10 DEF DownArm, SameDown, SameWaits
  <1> QED BY <1>11, <1>12, <1>13, <1>14, <1>15, <1>16 DEF Kept, Cons

\* The remote sends its next chunk.
LEMMA RemoteSendsStep ==
  ASSUME RelayInv, remote_sends
  PROVE  Kept(conn')
  <1> DEFINE n == conn.rsent
             i == Append(conn.rin, n + 1)
             x == conn.cout \o conn.downstream_
             f == Front(conn)
  <1>0. /\ Good(conn) /\ Cons(conn) /\ ~conn.closed_ /\ UpArm(conn) /\ DownArm(conn) /\ conn \in Connection
        /\ conn.channel = "connected"
    BY DEF RelayInv, remote_sends, Open, Good
  <1>1. n \in 0 .. MaxRemote /\ n < MaxRemote /\ conn.rin \in Seq(Chunks)
    BY <1>0 DEF remote_sends, Connection
  <1>2. conn' = [conn EXCEPT !.rsent = n + 1, !.rin = i] BY <1>0 DEF remote_sends, Does, Connection
  <1>3. x \in Seq(Chunks) /\ f \in Seq(Chunks)
    BY <1>0, ZeroChunk, Joined DEF Connection, Front
  <1>4. x \o conn.rin = f \o Run(n) BY <1>0 DEF Cons, DownData
  <1>5. n \in Nat /\ n + 1 \in 0 .. MaxRemote BY <1>1, MaxRemoteAssumption
  <1> HIDE DEF n, x, f
  <1>6. x \o i = f \o Run(n + 1) /\ i \in Seq(Chunks) BY <1>1, <1>3, <1>4, <1>5, RunBound, SendMoved
  <1> HIDE DEF i
  <1>7. conn' \in Connection BY <1>0, <1>2, <1>5, <1>6 DEF Connection
  <1>8. SameUp(conn, conn') BY <1>0, <1>2 DEF Connection, SameUp
  <1>9. /\ conn'.cout = conn.cout /\ conn'.downstream_ = conn.downstream_ /\ conn'.replies = conn.replies
        /\ conn'.rin = i /\ conn'.rsent = n + 1
    BY <1>0, <1>2 DEF Connection
  <1>10. SameWaits(conn, conn') /\ conn'.upstream_writable_ = conn.upstream_writable_
    BY <1>0, <1>2 DEF Connection, SameWaits
  <1>11. Good(conn') BY <1>0, <1>7, <1>10 DEF Good, SameWaits
  <1>12. DownData(conn')
    <2>1. Front(conn') = f BY <1>9 DEF Front, f
    <2> QED BY <1>6, <1>9, <2>1 DEF DownData, x
  <1>13. Shape(conn') BY <1>0, <1>10 DEF Cons, Shape, SameWaits
  <1>14. UpData(conn') BY <1>0, <1>8 DEF Cons, UpData, SameUp
  <1>15. UpArm(conn') BY <1>0, <1>8, <1>10 DEF UpArm, Parked, Writable, SameUp, SameWaits
  <1>16. DownArm(conn') BY <1>0, <1>9, <1>10 DEF DownArm, SameWaits
  <1> QED BY <1>11, <1>12, <1>13, <1>14, <1>15, <1>16 DEF Kept, Cons

-----------------------------------------------------------------------------
(* The theorems. *)

\* The invariant holds of a connection just accepted.
LEMMA InitOK == Init => RelayInv
  <1> SUFFICES ASSUME Init PROVE RelayInv OBVIOUS
  <1>0. conn = InitialConnection BY DEF Init
  <1>1. InitialConnection \in Connection
    <2>1. "there" \in Peer BY DEF Peer
    <2>2. 0 \in 0 .. MaxClient /\ 0 \in 0 .. MaxRemote BY MaxClientAssumption, MaxRemoteAssumption
    <2> QED BY <2>1, <2>2, ZeroChunk DEF InitialConnection, Connection
  <1>2. /\ conn.rout = << >> /\ conn.upstream_ = << >> /\ conn.cin = << >> /\ conn.csent = 0
        /\ conn.cout = << >> /\ conn.downstream_ = << >> /\ conn.rin = << >> /\ conn.rsent = 0
        /\ ~conn.replies /\ conn.stage = "handshake" /\ conn.channel = "none"
        /\ ~conn.channel_write /\ conn.channel_read = "no" /\ conn.downstream_read = "no"
    BY <1>0 DEF InitialConnection
  <1>3. Good(conn) BY <1>0, <1>1, <1>2 DEF Good
  <1>4. Run(0) = << >> BY DEF Run
  <1>5. << >> \o << >> = << >> BY ZeroChunk, Empty
  <1>6. Cons(conn) BY <1>2, <1>4, <1>5 DEF Cons, UpData, DownData, Shape, Front
  <1>7. UpArm(conn) /\ DownArm(conn) BY <1>2 DEF UpArm, Parked, Writable, DownArm
  <1> QED BY <1>3, <1>6, <1>7 DEF RelayInv

\* Every step keeps it.
LEMMA StepOK == RelayInv /\ [Next]_vars => RelayInv'
  <1> SUFFICES ASSUME RelayInv, [Next]_vars PROVE RelayInv' OBVIOUS
  <1>0. Kept(conn') => RelayInv' BY DEF Kept, RelayInv, Open
  <1>1. CASE UNCHANGED vars
    BY <1>1 DEF vars, RelayInv, Open
  <1>2. CASE handshake BY <1>0, <1>2, HandshakeStep
  <1>3. CASE handshake_fails \/ downlink_error
    <2>1. conn' = OnDisconnect(conn) BY <1>3 DEF handshake_fails, downlink_error, Does
    <2> QED BY <1>0, <2>1, OnDisconnectOK DEF RelayInv, Kept
  <1>4. CASE channel_connected BY <1>0, <1>4, ConnectedStep
  <1>5. CASE channel_refused BY <1>0, <1>5, ChannelRefusedStep
  <1>6. CASE channel_readable BY <1>0, <1>6, ChannelReadableStep
  <1>7. CASE channel_writable BY <1>0, <1>7, ChannelWritableStep
  <1>8. CASE downlink_readable BY <1>0, <1>8, DownlinkReadableStep
  <1>9. CASE downlink_writable BY <1>0, <1>9, DownlinkWritableStep
  <1>10. CASE client_sends BY <1>0, <1>10, ClientSendsStep
  <1>11. CASE remote_sends BY <1>0, <1>11, RemoteSendsStep
  <1>12. CASE client_ends \/ remote_ends
    <2>1. Open /\ \E p \in Peer : conn' = [conn EXCEPT !.client = p] \/ conn' = [conn EXCEPT !.remote = p]
      BY <1>12 DEF client_ends, remote_ends, Does, Peer
    <2> QED BY <1>0, <2>1, PeerEndsOK
  <1> QED BY <1>1, <1>2, <1>3, <1>4, <1>5, <1>6, <1>7, <1>8, <1>9, <1>10, <1>11, <1>12 DEF Next

\* The inductive invariant holds of every behaviour of the relay of a server
\* connection (server_connection.cpp).
THEOREM RelayInvariant == Spec => []RelayInv
  BY InitOK, StepOK, PTL DEF Spec

\* For any number of chunks: the relay of a server connection keeps what either
\* peer sent, in order and once, behind the reply, and data that is buffered, or
\* a side that may send, always has a wait that goes on with it.
THEOREM RelayCorrect == Spec => []DataSafe
  <1>1. RelayInv => DataSafe
    <2> SUFFICES ASSUME RelayInv PROVE DataSafe OBVIOUS
    <2>1. TypeOK BY DEF RelayInv, Good, Connection, TypeOK
    <2>2. Conserved BY DEF RelayInv, Cons, UpData, DownData, Front, Conserved
    <2>3. NeverStalls BY DEF RelayInv, UpArm, DownArm, NeverStalls
    <2> QED BY <2>1, <2>2, <2>3 DEF DataSafe
  <1> QED BY <1>1, RelayInvariant, PTL
=============================================================================
