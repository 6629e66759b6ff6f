------------------------ MODULE CliConnectionProofs ------------------------
(***************************************************************************)
(* The relay of a client connection keeps what either peer sent, in order  *)
(* and once, within the limit of pending_data_, and wakes whoever has to   *)
(* take it on: DataSafe holds for any number of chunks and any limit.      *)
(*                                                                         *)
(* DataSafe is not inductive.  RelayInv adds where data can be at each     *)
(* stage of the channel (UpShape, DownShape), that a wait_write of the     *)
(* channel is parked on data, and that a connected channel without one is  *)
(* writable (Parked, Writable): without the last, OnUpstreamWriteFlush     *)
(* could leave data behind with nobody to wake.                            *)
(*                                                                         *)
(* A handler is a chain of calls, so every method has a lemma of what it   *)
(* needs and what it leaves behind.  A method towards the client leaves    *)
(* DownDone: the connection is closed, or the client's side is armed and   *)
(* the remote's side untouched, or its channel closed.  A method towards   *)
(* the remote leaves UpDone, the same the other way round.                 *)
(***************************************************************************)
EXTENDS CliConnection, RelayLemmas

\* The records a connection can be.
Connection ==
  [ closed_ : BOOLEAN, shutdown_ : BOOLEAN, stage : {"handshake", "stream"},
    reply : Replies,
    downstream_ : Seq(Chunks), upstream_ : Seq(Chunks), pending_data_ : Seq(Chunks),
    write_inprogress_ : BOOLEAN, downstream_read : {"no", "wait", "posted"},
    upstream_writable_ : BOOLEAN,
    channel : {"none", "connecting", "connected", "closed"}, eof : BOOLEAN,
    channel_read : {"no", "wait", "yield"}, channel_write : BOOLEAN,
    client : Peer, csent : 0 .. MaxClient, cin : Seq(Chunks), cout : Seq(Chunks),
    remote : Peer, rsent : 0 .. MaxRemote, rin : Seq(Chunks), rout : Seq(Chunks) ]

\* The part that also holds of a closed connection.
Good(c) == c \in Connection /\ Len(c.pending_data_) <= MaxPending

\* Upstream: the chunks in order, behind the header once something was queued.
Header(up) == IF up = << >> THEN << >> ELSE <<0>>
UpData(c) ==
  ((c.rout \o c.upstream_) \o c.pending_data_) \o c.cin = Header(c.rout \o c.upstream_) \o Run(c.csent)
UpShape(c) ==
  /\ c.channel \in {"none", "connecting"} => c.rout = << >> /\ c.upstream_ = << >>
  /\ c.channel = "connected" => c.pending_data_ = << >> /\ c.rout \o c.upstream_ # << >>
  /\ c.stage = "handshake" => c.channel = "none"
  /\ c.channel_write => c.channel = "connected"

\* Downstream: the chunks in order, behind the reply.
Front(c) == IF c.stage = "stream" /\ c.reply \notin {"failing", "plain"} THEN <<0>> ELSE << >>
DownData(c) == (c.cout \o c.downstream_) \o c.rin = Front(c) \o Run(c.rsent)
DownShape(c) ==
  /\ c.channel \in {"none", "connecting"} => c.rin = << >> /\ c.rsent = 0
  /\ c.stage = "handshake" => c.cout = << >> /\ c.downstream_ = << >> /\ c.reply = "none"
  /\ c.write_inprogress_ => c.downstream_ # << >>

\* Nothing is lost, doubled or reordered.
Cons(c) == UpData(c) /\ UpShape(c) /\ DownData(c) /\ DownShape(c)

\* Towards the remote nobody sleeps.
Parked(c) == c.channel_write => c.upstream_ # << >>
Writable(c) == c.channel = "connected" /\ ~c.channel_write => c.upstream_writable_
UpArm(c) ==
  /\ Parked(c) /\ Writable(c)
  /\ c.channel = "connected" => IF c.upstream_ # << >> THEN c.channel_write ELSE c.downstream_read # "no"
\* Towards the client nobody sleeps.
DownArm(c) ==
  /\ c.downstream_ # << >> => c.write_inprogress_
  /\ c.channel = "connected" /\ c.downstream_ = << >> => c.channel_read # "no"

\* The inductive invariant.
RelayInv == Good(conn) /\ (Open => Cons(conn) /\ UpArm(conn) /\ DownArm(conn))

HeaderKeeps(p, i, n) ==
  LET up == << >> \o ((<< >> \o <<0>>) \o p) IN
  /\ (<< >> \o <<0>>) \o p \in Seq(Chunks) /\ up # << >>
  /\ (up \o << >>) \o i = <<0>> \o Run(n)

\* connected(): the header goes in front of what was read before the channel
\* was there.
LEMMA HeaderPut ==
  ASSUME NEW p \in Seq(Chunks), NEW i \in Seq(Chunks), NEW n \in Nat, 1 .. n \subseteq Chunks,
         ((<< >> \o << >>) \o p) \o i = << >> \o Run(n)
  PROVE  HeaderKeeps(p, i, n)
  <1>0. 0 \in Chunks BY MaxClientAssumption, MaxRemoteAssumption DEF Chunks
  <1>1. <<0>> \in Seq(Chunks) /\ << >> \in Seq(Chunks) /\ <<0>> # << >> BY <1>0
  <1>2. << >> \o << >> = << >> /\ << >> \o p = p /\ << >> \o Run(n) = Run(n) /\ << >> \o <<0>> = <<0>>
    BY <1>1, Empty, RunType
  <1>3. <<0>> \o p \in Seq(Chunks) /\ <<0>> \o p # << >> BY <1>1, Joined
  <1>4. << >> \o (<<0>> \o p) = <<0>> \o p /\ (<<0>> \o p) \o << >> = <<0>> \o p BY <1>3, Empty
  <1>5. (<<0>> \o p) \o i = <<0>> \o (p \o i) BY <1>1, Assoc
  <1> QED BY <1>2, <1>3, <1>4, <1>5 DEF HeaderKeeps

-----------------------------------------------------------------------------

\* d is c with its fields of either direction, and what Good needs, unchanged.
SameUp(c, d) ==
  /\ d.rout = c.rout /\ d.upstream_ = c.upstream_ /\ d.pending_data_ = c.pending_data_
  /\ d.cin = c.cin /\ d.csent = c.csent
SameDown(c, d) ==
  /\ d.cout = c.cout /\ d.downstream_ = c.downstream_ /\ d.rin = c.rin /\ d.rsent = c.rsent
  /\ d.reply = c.reply

\* CloseChannel touches the channel and nothing else.
LEMMA CloseFields ==
  ASSUME NEW c \in Connection
  PROVE  LET d == CloseChannel(c) IN
         /\ d \in Connection /\ SameUp(c, d) /\ SameDown(c, d) /\ d.stage = c.stage
         /\ d.write_inprogress_ = c.write_inprogress_ /\ d.downstream_read = c.downstream_read
         /\ d.closed_ = c.closed_ /\ d.shutdown_ = c.shutdown_ /\ d.upstream_writable_ = c.upstream_writable_
         /\ c.channel # "none" => d.channel = "closed"
         /\ c.channel = "none" => d.channel = "none"
         /\ c.channel \in {"connecting", "connected"} => ~d.channel_write
         /\ c.channel \notin {"connecting", "connected"} => d.channel_write = c.channel_write
  <1> DEFINE e == [c EXCEPT !.channel = "closed", !.eof = TRUE, !.channel_read = "no", !.channel_write = FALSE]
  <1>1. e \in Connection BY DEF Connection
  <1>2. SameUp(c, e) /\ SameDown(c, e) /\ SameUp(c, c) /\ SameDown(c, c) BY DEF Connection, SameUp, SameDown
  <1>3. /\ e.stage = c.stage /\ e.write_inprogress_ = c.write_inprogress_
        /\ e.downstream_read = c.downstream_read /\ e.closed_ = c.closed_ /\ e.shutdown_ = c.shutdown_
        /\ e.upstream_writable_ = c.upstream_writable_
    BY DEF Connection
  <1>4. e.channel = "closed" /\ ~e.channel_write BY DEF Connection
  <1>5. CloseChannel(c) = IF c.channel \in {"connecting", "connected"} THEN e ELSE c BY DEF CloseChannel
  <1>6. c.channel \in {"none", "connecting", "connected", "closed"} BY DEF Connection
  <1> HIDE DEF e
  <1> QED BY <1>1, <1>2, <1>3, <1>4, <1>5, <1>6

\* close() keeps the types and the limit of pending_data_.
LEMMA OnDisconnectOK ==
  ASSUME NEW c, Good(c)
  PROVE  Good(OnDisconnect(c)) /\ OnDisconnect(c).closed_
  <1> DEFINE e == CloseChannel(c)
             d == [e EXCEPT !.closed_ = TRUE]
  <1>0. OnDisconnect(c) = d BY DEF OnDisconnect
  <1>1. e \in Connection /\ e.pending_data_ = c.pending_data_ BY CloseFields DEF Good, SameUp
  <1> HIDE DEF e
  <1>2. d \in Connection /\ d.pending_data_ = e.pending_data_ /\ d.closed_ BY <1>1 DEF Connection
  <1> QED BY <1>0, <1>1, <1>2 DEF Good

\* What keeps Cons: the data stays, the channel stays or closes.
LEMMA KeepCons ==
  ASSUME NEW c, NEW d, Cons(c), SameUp(c, d), SameDown(c, d), d.stage = c.stage,
         d.channel = c.channel \/ (d.channel = "closed" /\ c.channel # "none" /\ ~d.channel_write),
         d.channel_write => c.channel_write, d.write_inprogress_ => c.write_inprogress_
  PROVE  Cons(d)
  <1>1. UpData(d) BY DEF Cons, UpData, SameUp
  <1>2. DownData(d) BY DEF Cons, DownData, SameDown, Front
  <1>3. UpShape(d) BY DEF Cons, UpShape, SameUp
  <1>4. DownShape(d) BY DEF Cons, DownShape, SameDown
  <1> QED BY <1>1, <1>2, <1>3, <1>4 DEF Cons

\* The side of the remote is untouched, or its channel closed.
DownFrame(c, d) ==
  /\ d.upstream_ = c.upstream_ /\ d.downstream_read = c.downstream_read /\ d.cin = c.cin
  /\ \/ d.channel = c.channel /\ d.channel_write = c.channel_write /\ d.upstream_writable_ = c.upstream_writable_
     \/ d.channel = "closed" /\ ~d.channel_write

\* What a step towards the client leaves behind.
DownDone(c, d) == Good(d) /\ (d.closed_ \/ (Cons(d) /\ DownArm(d) /\ DownFrame(c, d)))

\* ReadUpstreamAsync with nothing buffered leaves the channel being read.
LEMMA ReadUpstreamAsyncOK ==
  ASSUME NEW c, Good(c), Cons(c), ~c.closed_, c.downstream_ = << >>, NEW how \in {"wait", "yield"},
         NEW d, d = ReadUpstreamAsync(c, how)
  PROVE  Good(d) /\ Cons(d) /\ ~d.closed_ /\ DownArm(d) /\ DownFrame(c, d) /\ d.downstream_ = << >>
  <1> DEFINE e == [c EXCEPT !.channel_read = how]
  <1>0. c \in Connection BY DEF Good
  <1>1. e \in Connection BY <1>0 DEF Connection
  <1>2. SameUp(c, e) /\ SameDown(c, e) BY <1>0 DEF Connection, SameUp, SameDown
  <1>3. /\ e.stage = c.stage /\ e.write_inprogress_ = c.write_inprogress_
        /\ e.downstream_read = c.downstream_read /\ e.closed_ = c.closed_
        /\ e.upstream_writable_ = c.upstream_writable_ /\ e.channel = c.channel
        /\ e.channel_write = c.channel_write /\ e.channel_read # "no"
    BY <1>0 DEF Connection
  <1>4. d = IF c.channel = "connected" /\ c.channel_read = "no" THEN e ELSE c BY DEF ReadUpstreamAsync
  <1> HIDE DEF e
  <1>5. Good(e) BY <1>1, <1>2 DEF Good, SameUp
  <1>6. Cons(e) BY <1>2, <1>3, KeepCons
  <1>7. Good(d) /\ Cons(d) /\ ~d.closed_ BY <1>3, <1>4, <1>5, <1>6
  <1>8. d.downstream_ = << >> BY <1>2, <1>4 DEF SameDown
  <1>9. DownArm(d) BY <1>3, <1>4, <1>8 DEF DownArm
  <1>10. DownFrame(c, d) BY <1>2, <1>3, <1>4 DEF DownFrame, SameUp
  <1> QED BY <1>7, <1>8, <1>9, <1>10

\* OnStreamWrite only shuts the downlink.
LEMMA OnStreamWriteOK ==
  ASSUME NEW c, Good(c), Cons(c), ~c.closed_, DownArm(c), NEW d, d = OnStreamWrite(c)
  PROVE  Good(d) /\ Cons(d) /\ ~d.closed_ /\ DownArm(d) /\ DownFrame(c, d)
  <1> DEFINE e == [c EXCEPT !.shutdown_ = TRUE]
  <1>0. c \in Connection BY DEF Good
  <1>1. e \in Connection BY <1>0 DEF Connection
  <1>2. SameUp(c, e) /\ SameDown(c, e) BY <1>0 DEF Connection, SameUp, SameDown
  <1>3. /\ e.stage = c.stage /\ e.write_inprogress_ = c.write_inprogress_
        /\ e.downstream_read = c.downstream_read /\ e.closed_ = c.closed_
        /\ e.upstream_writable_ = c.upstream_writable_ /\ e.channel = c.channel
        /\ e.channel_write = c.channel_write /\ e.channel_read = c.channel_read
    BY <1>0 DEF Connection
  <1>4. d = e \/ d = c BY DEF OnStreamWrite
  <1> HIDE DEF e
  <1>5. Good(e) BY <1>1, <1>2 DEF Good, SameUp
  <1>6. Cons(e) BY <1>2, <1>3, KeepCons
  <1>7. DownArm(e) BY <1>2, <1>3 DEF DownArm, SameDown
  <1>8. DownFrame(c, e) /\ DownFrame(c, c) BY <1>2, <1>3 DEF DownFrame, SameUp
  <1> QED BY <1>3, <1>4, <1>5, <1>6, <1>7, <1>8

\* The downlink took n chunks.
LEMMA SentOK ==
  ASSUME NEW c, Good(c), Cons(c), ~c.closed_, c.downstream_ # << >>, ~c.write_inprogress_,
         NEW n \in 0 .. Len(c.downstream_), NEW b \in BOOLEAN, b => n < Len(c.downstream_),
         NEW d, d = [Sent(c, n) EXCEPT !.write_inprogress_ = b]
  PROVE  /\ Good(d) /\ Cons(d) /\ ~d.closed_ /\ DownFrame(c, d)
         /\ d.write_inprogress_ = b /\ (n = Len(c.downstream_) => d.downstream_ = << >>)
  <1>0. c \in Connection BY DEF Good
  <1>1. /\ c.downstream_ \in Seq(Chunks) /\ c.cout \in Seq(Chunks) BY <1>0 DEF Connection
  <1> DEFINE o == c.cout \o First(c.downstream_, n)
             r == Rest(c.downstream_, n)
  <1>2. o \in Seq(Chunks) /\ r \in Seq(Chunks) /\ o \o r = c.cout \o c.downstream_ BY <1>1, Moved
  <1>3. Len(r) = Len(c.downstream_) - n /\ Len(c.downstream_) \in Nat BY <1>1, Split, Empty
  <1>4. (n = Len(c.downstream_) => r = << >>) /\ (b => r # << >>)
    <2>1. r = << >> <=> Len(r) = 0 BY <1>2, Empty
    <2> QED BY <1>3, <2>1
  <1>5. Sent(c, n) = [c EXCEPT !.cout = o, !.downstream_ = r] BY <1>0 DEF Sent, Connection
  <1>6. d = [[c EXCEPT !.cout = o, !.downstream_ = r] EXCEPT !.write_inprogress_ = b] BY <1>5
  <1> HIDE DEF o, r
  <1>7. d \in Connection BY <1>0, <1>2, <1>6 DEF Connection
  <1>8. SameUp(c, d) BY <1>0, <1>6 DEF Connection, SameUp
  <1>9. d.cout = o /\ d.downstream_ = r /\ d.rin = c.rin /\ d.rsent = c.rsent /\ d.reply = c.reply /\ d.stage = c.stage
    BY <1>0, <1>6 DEF Connection
  <1>10. /\ d.write_inprogress_ = b
         /\ d.downstream_read = c.downstream_read /\ d.closed_ = c.closed_
         /\ d.upstream_writable_ = c.upstream_writable_ /\ d.channel = c.channel
         /\ d.channel_write = c.channel_write
    BY <1>0, <1>6 DEF Connection
  <1>11. Good(d) BY <1>7, <1>8 DEF Good, SameUp
  <1>12. UpData(d) /\ UpShape(d) BY <1>8, <1>9, <1>10 DEF Cons, UpData, UpShape, SameUp
  <1>13. DownData(d) BY <1>2, <1>9 DEF Cons, DownData, Front
  <1>14. DownShape(d) BY <1>4, <1>9, <1>10 DEF Cons, DownShape
  <1>15. DownFrame(c, d) BY <1>8, <1>10 DEF DownFrame, SameUp
  <1> QED BY <1>4, <1>9, <1>10, <1>11, <1>12, <1>13, <1>14, <1>15 DEF Cons

\* WriteStream, from whatever state of the wait flags, leaves the downlink or
\* the channel waited on.
LEMMA WriteStreamOK ==
  ASSUME NEW c, Good(c), Cons(c), ~c.closed_, NEW d \in WriteStream(c)
  PROVE  DownDone(c, d)
  <1>1. CASE c.write_inprogress_
    <2>1. d = c BY <1>1 DEF WriteStream
    <2>2. DownArm(c) BY <1>1 DEF DownArm, Cons, DownShape
    <2>3. DownFrame(c, c) BY DEF DownFrame
    <2> QED BY <2>1, <2>2, <2>3 DEF DownDone
  <1>2. CASE ~c.write_inprogress_ /\ c.downstream_ = << >>
    <2>1. d = ReadUpstreamAsync(c, "wait") BY <1>2 DEF WriteStream
    <2> QED BY <1>2, <2>1, ReadUpstreamAsyncOK DEF DownDone
  <1>3. CASE ~c.write_inprogress_ /\ c.downstream_ # << >> /\ (c.client = "gone" \/ c.shutdown_)
    <2>1. d = OnDisconnect(c) BY <1>3 DEF WriteStream
    <2> QED BY <2>1, OnDisconnectOK DEF DownDone
  <1>4. CASE ~c.write_inprogress_ /\ c.downstream_ # << >> /\ ~(c.client = "gone" \/ c.shutdown_)
    <2>0. c \in Connection BY DEF Good
    <2>1. Len(c.downstream_) \in Nat BY <2>0, Empty DEF Connection
    <2>2. \/ \E n \in 0 .. Len(c.downstream_) - 1 : d = [Sent(c, n) EXCEPT !.write_inprogress_ = TRUE]
          \/ \E how \in {"wait", "yield"} :
               d = OnStreamWrite(ReadUpstreamAsync(Sent(c, Len(c.downstream_)), how))
      BY <1>4 DEF WriteStream
    <2>3. ASSUME NEW n \in 0 .. Len(c.downstream_) - 1, d = [Sent(c, n) EXCEPT !.write_inprogress_ = TRUE]
          PROVE  DownDone(c, d)
      <3>1. n \in 0 .. Len(c.downstream_) /\ n < Len(c.downstream_) BY <2>1
      <3>2. Good(d) /\ Cons(d) /\ DownFrame(c, d) /\ d.write_inprogress_ BY <1>4, <2>3, <3>1, SentOK
      <3>3. DownArm(d) BY <3>2 DEF DownArm, Cons, DownShape
      <3> QED BY <3>2, <3>3 DEF DownDone
    <2>4. ASSUME NEW how \in {"wait", "yield"},
                 d = OnStreamWrite(ReadUpstreamAsync(Sent(c, Len(c.downstream_)), how))
          PROVE  DownDone(c, d)
      <3> DEFINE a == Sent(c, Len(c.downstream_))
                 b == ReadUpstreamAsync(a, how)
      <3>1. a = [Sent(c, Len(c.downstream_)) EXCEPT !.write_inprogress_ = FALSE]
        BY <1>4, <2>0 DEF Sent, Connection
      <3>2. Len(c.downstream_) \in 0 .. Len(c.downstream_) BY <2>1
      <3>5. d = OnStreamWrite(b) BY <2>4
      <3> HIDE DEF a
      <3>3. Good(a) /\ Cons(a) /\ ~a.closed_ /\ DownFrame(c, a) /\ a.downstream_ = << >>
        <4> DEFINE n == Len(c.downstream_)
        <4>1. a = [Sent(c, n) EXCEPT !.write_inprogress_ = FALSE] /\ n \in 0 .. Len(c.downstream_) BY <3>1, <3>2
        <4>2. n = Len(c.downstream_) OBVIOUS
        <4> HIDE DEF n
        <4>3. FALSE \in BOOLEAN /\ (FALSE => n < Len(c.downstream_)) OBVIOUS
        <4> QED BY <1>4, <4>1, <4>2, <4>3, SentOK
      <3>4. Good(b) /\ Cons(b) /\ ~b.closed_ /\ DownFrame(a, b) /\ DownArm(b) BY <3>3, ReadUpstreamAsyncOK
      <3> HIDE DEF b
      <3>6. Good(d) /\ Cons(d) /\ DownFrame(b, d) /\ DownArm(d) BY <3>4, <3>5, OnStreamWriteOK
      <3>7. DownFrame(c, d) BY <3>3, <3>4, <3>6 DEF DownFrame
      <3> QED BY <3>6, <3>7 DEF DownDone
    <2> QED BY <2>2, <2>3, <2>4
  <1> QED BY <1>1, <1>2, <1>3, <1>4

\* What disconnected() leaves behind: the channel is closed.
LEMMA disconnectedOK ==
  ASSUME NEW c, Good(c), Cons(c), ~c.closed_, c.channel # "none", NEW d \in disconnected(c)
  PROVE  DownDone(c, d) /\ (~d.closed_ => d.channel = "closed")
  <1> DEFINE e == CloseChannel(c)
             f == [e EXCEPT !.upstream_writable_ = FALSE]
             g == [f EXCEPT !.shutdown_ = TRUE]
  <1>0. c \in Connection /\ (c.channel_write => c.channel = "connected") BY DEF Good, Cons, UpShape
  <1>0b. c.channel_write \in BOOLEAN /\ c.channel \in {"none", "connecting", "connected", "closed"}
    BY <1>0 DEF Connection
  <1>1. /\ e \in Connection /\ SameUp(c, e) /\ SameDown(c, e) /\ e.stage = c.stage
        /\ e.write_inprogress_ = c.write_inprogress_ /\ e.downstream_read = c.downstream_read
        /\ e.closed_ = c.closed_ /\ e.channel = "closed" /\ ~e.channel_write
    BY <1>0, <1>0b, CloseFields
  <1>9. d \in IF f.downstream_ = << >> /\ ~f.shutdown_ THEN {g} ELSE WriteStream(f) BY DEF disconnected
  <1> HIDE DEF e
  <1>2. /\ f \in Connection /\ SameUp(e, f) /\ SameDown(e, f) /\ f.stage = e.stage
        /\ f.write_inprogress_ = e.write_inprogress_ /\ f.downstream_read = e.downstream_read
        /\ f.closed_ = e.closed_ /\ f.channel = e.channel /\ f.channel_write = e.channel_write
    BY <1>1 DEF Connection, SameUp, SameDown
  <1> HIDE DEF f
  <1>3. /\ g \in Connection /\ SameUp(f, g) /\ SameDown(f, g) /\ g.stage = f.stage
        /\ g.write_inprogress_ = f.write_inprogress_ /\ g.downstream_read = f.downstream_read
        /\ g.closed_ = f.closed_ /\ g.channel = f.channel /\ g.channel_write = f.channel_write
    BY <1>2 DEF Connection, SameUp, SameDown
  <1> HIDE DEF g
  <1>4. SameUp(c, f) /\ SameDown(c, f) /\ SameUp(c, g) /\ SameDown(c, g)
    BY <1>1, <1>2, <1>3 DEF SameUp, SameDown
  <1>5. Good(f) /\ Good(g) BY <1>2, <1>3, <1>4 DEF Good, SameUp
  <1>6. Cons(f) BY <1>1, <1>2, <1>4, KeepCons
  <1>7. Cons(g) BY <1>1, <1>2, <1>3, <1>4, KeepCons
  <1>8. CASE f.downstream_ = << >> /\ ~f.shutdown_
    <2>1. d = g BY <1>8, <1>9
    <2>2. DownArm(g) BY <1>1, <1>2, <1>3, <1>8 DEF DownArm, SameDown
    <2>3. DownFrame(c, g) BY <1>1, <1>2, <1>3, <1>4 DEF DownFrame, SameUp
    <2> QED BY <1>1, <1>2, <1>3, <1>5, <1>7, <2>1, <2>2, <2>3 DEF DownDone
  <1>10. CASE ~(f.downstream_ = << >> /\ ~f.shutdown_)
    <2>1. d \in WriteStream(f) BY <1>9, <1>10
    <2>2. DownDone(f, d) BY <1>1, <1>2, <1>5, <1>6, <2>1, WriteStreamOK
    <2>3. ~d.closed_ => DownFrame(c, d) /\ d.channel = "closed"
      BY <1>1, <1>2, <1>4, <2>2 DEF DownDone, DownFrame, SameUp
    <2> QED BY <2>2, <2>3 DEF DownDone
  <1> QED BY <1>8, <1>10

\* ReadUpstream: what it reads goes behind what the client already has.
LEMMA ReadUpstreamOK ==
  ASSUME NEW c, Good(c), Cons(c), ~c.closed_, NEW d \in ReadUpstream(c)
  PROVE  DownDone(c, d)
  <1>0. c \in Connection BY DEF Good
  <1>1. CASE c.write_inprogress_
    <2>1. d = c BY <1>1 DEF ReadUpstream
    <2>2. DownArm(c) BY <1>1 DEF DownArm, Cons, DownShape
    <2>3. DownFrame(c, c) BY DEF DownFrame
    <2> QED BY <2>1, <2>2, <2>3 DEF DownDone
  <1>2. CASE ~c.write_inprogress_ /\ c.downstream_ # << >>
    <2>1. d \in WriteStream(c) BY <1>2 DEF ReadUpstream
    <2> QED BY <2>1, WriteStreamOK
  <1>4. CASE ~c.write_inprogress_ /\ c.downstream_ = << >> /\ c.channel # "connected"
    <2>1. d = c BY <1>4 DEF ReadUpstream
    <2>2. DownArm(c) BY <1>4 DEF DownArm
    <2>3. DownFrame(c, c) BY DEF DownFrame
    <2> QED BY <2>1, <2>2, <2>3 DEF DownDone
  <1>3. CASE ~c.write_inprogress_ /\ c.downstream_ = << >> /\ c.channel = "connected"
    <2>1. \/ d \in disconnected(c)
          \/ d = ReadUpstreamAsync(c, "wait")
          \/ \E n \in 1 .. Len(c.rin) :
               d \in WriteStream([c EXCEPT !.downstream_ = First(c.rin, n), !.rin = Rest(@, n)])
      BY <1>3 DEF ReadUpstream, When
    <2>2. ASSUME d \in disconnected(c) PROVE DownDone(c, d) BY <1>3, <2>2, disconnectedOK
    <2>3. ASSUME d = ReadUpstreamAsync(c, "wait") PROVE DownDone(c, d)
      BY <1>3, <2>3, ReadUpstreamAsyncOK DEF DownDone
    <2>4. ASSUME NEW n \in 1 .. Len(c.rin),
                 d \in WriteStream([c EXCEPT !.downstream_ = First(c.rin, n), !.rin = Rest(@, n)])
          PROVE  DownDone(c, d)
      <3> DEFINE o == First(c.rin, n)
                 r == Rest(c.rin, n)
                 e == [c EXCEPT !.downstream_ = o, !.rin = r]
      <3>1. c.rin \in Seq(Chunks) /\ c.cout \in Seq(Chunks) /\ Len(c.rin) \in Nat BY <1>0, Empty DEF Connection
      <3>2. n \in 0 .. Len(c.rin) BY <3>1
      <3>3. o \in Seq(Chunks) /\ r \in Seq(Chunks) /\ (c.cout \o o) \o r = c.cout \o c.rin
        BY <3>1, <3>2, Moved, Split
      <3>4. (c.cout \o o) \o r = (c.cout \o c.downstream_) \o c.rin BY <1>3, <3>1, <3>3, Empty
      <3>5. d \in WriteStream(e) BY <2>4, <1>0 DEF Connection
      <3> HIDE DEF o, r
      <3>6. e \in Connection BY <1>0, <3>3 DEF Connection
      <3>7. SameUp(c, e) BY <1>0 DEF Connection, SameUp
      <3>8. /\ e.cout = c.cout /\ e.downstream_ = o /\ e.rin = r /\ e.rsent = c.rsent
            /\ e.reply = c.reply /\ e.stage = c.stage
        BY <1>0 DEF Connection
      <3>9. /\ e.write_inprogress_ = c.write_inprogress_
            /\ e.downstream_read = c.downstream_read /\ e.closed_ = c.closed_
            /\ e.upstream_writable_ = c.upstream_writable_ /\ e.channel = c.channel
            /\ e.channel_write = c.channel_write
        BY <1>0 DEF Connection
      <3> HIDE DEF e
      <3>10. Good(e) BY <3>6, <3>7 DEF Good, SameUp
      <3>11. UpData(e) /\ UpShape(e) BY <3>7, <3>8, <3>9 DEF Cons, UpData, UpShape, SameUp
      <3>12. DownData(e) BY <3>4, <3>8 DEF Cons, DownData, Front
      <3>13. DownShape(e) BY <1>3, <3>8, <3>9 DEF Cons, DownShape, UpShape
      <3>14. DownDone(e, d) BY <3>5, <3>9, <3>10, <3>11, <3>12, <3>13, WriteStreamOK DEF Cons
      <3> QED BY <3>7, <3>9, <3>14 DEF DownDone, DownFrame, SameUp
    <2> QED BY <2>1, <2>2, <2>3, <2>4
  <1> QED BY <1>1, <1>2, <1>3, <1>4

\* The side of the client is untouched.
UpFrame(c, d) ==
  /\ d.downstream_ = c.downstream_ /\ d.write_inprogress_ = c.write_inprogress_
  /\ d.channel = c.channel /\ d.channel_read = c.channel_read /\ d.stage = c.stage

\* What a step towards the remote leaves behind.
UpDone(c, d) ==
  /\ Good(d)
  /\ d.closed_ \/ (Cons(d) /\ UpFrame(c, d) /\ Parked(d) /\ (Writable(c) => UpArm(d)))

\* OnUpstreamWriteFlush parks a wait_write on data, if the channel is writable.
LEMMA FlushOK ==
  ASSUME NEW c, Good(c), Cons(c), ~c.closed_, Parked(c), NEW d, d = OnUpstreamWriteFlush(c)
  PROVE  /\ Good(d) /\ Cons(d) /\ ~d.closed_ /\ UpFrame(c, d) /\ Parked(d)
         /\ Writable(c) /\ c.upstream_ # << >> => UpArm(d)
         /\ UpArm(c) => UpArm(d)
  <1> DEFINE e == [c EXCEPT !.upstream_writable_ = FALSE, !.channel_write = (c.channel = "connected")]
  <1>0. c \in Connection BY DEF Good
  <1>1. e \in Connection BY <1>0 DEF Connection
  <1>2. SameUp(c, e) /\ SameDown(c, e) BY <1>0 DEF Connection, SameUp, SameDown
  <1>3. /\ e.stage = c.stage /\ e.write_inprogress_ = c.write_inprogress_
        /\ e.downstream_read = c.downstream_read /\ e.closed_ = c.closed_
        /\ e.channel = c.channel /\ e.channel_read = c.channel_read
        /\ e.channel_write = (c.channel = "connected")
    BY <1>0 DEF Connection
  <1>4. d = IF c.upstream_ # << >> /\ c.upstream_writable_ THEN e ELSE c BY DEF OnUpstreamWriteFlush
  <1>5. c.channel_write \in BOOLEAN BY <1>0 DEF Connection
  <1> HIDE DEF e
  <1>6. Good(e) BY <1>1, <1>2 DEF Good, SameUp
  <1>7. UpData(e) /\ UpShape(e) BY <1>2, <1>3 DEF Cons, UpData, UpShape, SameUp
  <1>8. DownData(e) /\ DownShape(e) BY <1>2, <1>3 DEF Cons, DownData, DownShape, Front, SameDown
  <1>9. Cons(e) BY <1>7, <1>8 DEF Cons
  <1>10. UpFrame(c, e) /\ UpFrame(c, c) BY <1>2, <1>3 DEF UpFrame, SameDown
  <1>11. c.upstream_ # << >> => Parked(e) /\ UpArm(e)
    BY <1>2, <1>3 DEF Parked, UpArm, Writable, SameUp
  <1>12. CASE c.upstream_ # << >> /\ c.upstream_writable_
    BY <1>3, <1>4, <1>6, <1>9, <1>10, <1>11, <1>12
  <1>13. CASE ~(c.upstream_ # << >> /\ c.upstream_writable_)
    <2>1. d = c BY <1>4, <1>13
    <2>2. Writable(c) /\ c.upstream_ # << >> => UpArm(c) BY <1>13 DEF Writable, UpArm
    <2> QED BY <2>1, <2>2, <1>10
  <1> QED BY <1>12, <1>13

\* ReadStream leaves the client being read.
LEMMA ReadStreamOK ==
  ASSUME NEW c, Good(c), Cons(c), ~c.closed_, Parked(c), NEW how \in {"wait", "posted"},
         NEW d, d = ReadStream(c, how)
  PROVE  /\ Good(d) /\ Cons(d) /\ ~d.closed_ /\ UpFrame(c, d) /\ Parked(d) /\ d.downstream_read # "no"
         /\ Writable(c) /\ c.upstream_ = << >> => UpArm(d)
         /\ c.channel # "connected" => UpArm(d)
  <1> DEFINE e == [c EXCEPT !.downstream_read = how]
  <1>0. c \in Connection BY DEF Good
  <1>1. e \in Connection BY <1>0 DEF Connection
  <1>2. SameUp(c, e) /\ SameDown(c, e) BY <1>0 DEF Connection, SameUp, SameDown
  <1>3. /\ e.stage = c.stage /\ e.write_inprogress_ = c.write_inprogress_
        /\ e.downstream_read # "no" /\ e.closed_ = c.closed_
        /\ e.upstream_writable_ = c.upstream_writable_ /\ e.channel = c.channel
        /\ e.channel_write = c.channel_write /\ e.channel_read = c.channel_read
    BY <1>0 DEF Connection
  <1>4. d = IF c.downstream_read = "no" THEN e ELSE c BY DEF ReadStream
  <1> HIDE DEF e
  <1>5. Good(e) BY <1>1, <1>2 DEF Good, SameUp
  <1>6. Cons(e) BY <1>2, <1>3, KeepCons
  <1>7. UpFrame(c, e) /\ UpFrame(c, c) BY <1>2, <1>3 DEF UpFrame, SameDown
  <1>8. Parked(e) BY <1>2, <1>3 DEF Parked, SameUp
  <1>9. d.downstream_read # "no" BY <1>3, <1>4
  <1>10. Good(d) /\ Cons(d) /\ ~d.closed_ /\ UpFrame(c, d) /\ Parked(d) BY <1>3, <1>4, <1>5, <1>6, <1>7, <1>8
  <1>11. /\ d.upstream_ = c.upstream_ /\ d.channel = c.channel /\ d.channel_write = c.channel_write
         /\ d.upstream_writable_ = c.upstream_writable_
    BY <1>2, <1>3, <1>4 DEF SameUp
  <1>12. Writable(c) /\ c.upstream_ = << >> => UpArm(d) BY <1>9, <1>10, <1>11 DEF UpArm, Writable
  <1>13. c.channel # "connected" => UpArm(d) BY <1>10, <1>11 DEF UpArm, Writable
  <1> QED BY <1>9, <1>10, <1>12, <1>13

\* n chunks of the client were read, and the channel took k of what there was.
LEMMA PipedOK ==
  ASSUME NEW c, Good(c), Cons(c), ~c.closed_, c.channel = "connected", ~c.channel_write,
         NEW n \in 0 .. Len(c.cin), NEW k \in 0 .. Len(c.upstream_) + n, NEW d, d = Piped(c, n, k)
  PROVE  /\ Good(d) /\ Cons(d) /\ ~d.closed_ /\ UpFrame(c, d) /\ Parked(d)
         /\ d.channel = "connected" /\ d.downstream_read = c.downstream_read
         /\ Len(d.upstream_) = Len(c.upstream_) + n - k /\ d.upstream_ \in Seq(Chunks)
         /\ Writable(c) => Writable(d)
  <1> DEFINE all == c.upstream_ \o First(c.cin, n)
             o == c.rout \o First(all, k)
             u == Rest(all, k)
             r == Rest(c.cin, n)
  <1>0. c \in Connection BY DEF Good
  <1>1. /\ c.rout \in Seq(Chunks) /\ c.upstream_ \in Seq(Chunks) /\ c.cin \in Seq(Chunks)
        /\ c.pending_data_ = << >> /\ c.rout \o c.upstream_ # << >>
    BY <1>0 DEF Connection, Cons, UpShape
  <1>2. d = [[c EXCEPT !.cin = r] EXCEPT !.rout = o, !.upstream_ = u]
    BY <1>0 DEF Piped, Took, Connection
  <1>3. /\ o \in Seq(Chunks) /\ u \in Seq(Chunks) /\ r \in Seq(Chunks)
        /\ Len(u) = Len(c.upstream_) + n - k
        /\ (o \o u) \o r = (c.rout \o c.upstream_) \o c.cin
        /\ o \o u # << >>
    <2>1. PipeKeeps(c.rout, c.upstream_, c.cin, n, k) BY <1>1, PipedMoved
    <2> QED BY <1>1, <2>1 DEF PipeKeeps
  <1> HIDE DEF all, o, u, r
  <1>4. d \in Connection BY <1>0, <1>2, <1>3 DEF Connection
  <1>5. SameDown(c, d) BY <1>0, <1>2 DEF Connection, SameDown
  <1>6. /\ d.rout = o /\ d.upstream_ = u /\ d.cin = r /\ d.pending_data_ = c.pending_data_
        /\ d.csent = c.csent
    BY <1>0, <1>2 DEF Connection
  <1>7. /\ d.stage = c.stage /\ d.write_inprogress_ = c.write_inprogress_
        /\ d.downstream_read = c.downstream_read /\ d.closed_ = c.closed_
        /\ d.upstream_writable_ = c.upstream_writable_ /\ d.channel = c.channel
        /\ d.channel_write = c.channel_write /\ d.channel_read = c.channel_read
    BY <1>0, <1>2 DEF Connection
  <1>8. Good(d) BY <1>4, <1>6 DEF Good
  <1>9. UpData(d)
    <2>1. o \o u \in Seq(Chunks) /\ c.rout \o c.upstream_ \in Seq(Chunks) BY <1>1, <1>3, Joined
    <2>2. (o \o u) \o << >> = o \o u BY <2>1, Empty
    <2>3. (c.rout \o c.upstream_) \o << >> = c.rout \o c.upstream_ BY <2>1, Empty
    <2>4. ((c.rout \o c.upstream_) \o << >>) \o c.cin = <<0>> \o Run(c.csent)
      BY <1>1 DEF Cons, UpData, Header
    <2>5. ((o \o u) \o << >>) \o r = <<0>> \o Run(c.csent) BY <1>3, <2>2, <2>3, <2>4
    <2> QED BY <1>1, <1>3, <1>6, <2>5 DEF UpData, Header
  <1>10. UpShape(d) BY <1>1, <1>3, <1>6, <1>7 DEF Cons, UpShape
  <1>11. DownData(d) /\ DownShape(d) BY <1>5, <1>7 DEF Cons, DownData, DownShape, Front, SameDown
  <1>12. UpFrame(c, d) BY <1>5, <1>7 DEF UpFrame, SameDown
  <1>13. Parked(d) /\ (Writable(c) => Writable(d)) BY <1>7 DEF Parked, Writable
  <1> QED BY <1>3, <1>6, <1>7, <1>8, <1>9, <1>10, <1>11, <1>12, <1>13 DEF Cons

\* A read while the channel is not connected goes to pending_data_.
LEMMA OnStreamReadOK ==
  ASSUME NEW c, Good(c), Cons(c), ~c.closed_, c.channel # "connected",
         NEW n \in 0 .. Len(c.cin), NEW d, d = OnStreamRead(Took(c, n), First(c.cin, n))
  PROVE  Good(d) /\ (d.closed_ \/ (Cons(d) /\ UpFrame(c, d) /\ UpArm(d)))
  <1> DEFINE f == First(c.cin, n)
             r == Rest(c.cin, n)
             t == [c EXCEPT !.cin = r]
             p == c.pending_data_ \o f
             e == [t EXCEPT !.pending_data_ = p]
  <1>0. c \in Connection BY DEF Good
  <1>1. /\ c.rout \in Seq(Chunks) /\ c.upstream_ \in Seq(Chunks) /\ c.cin \in Seq(Chunks)
        /\ c.pending_data_ \in Seq(Chunks) /\ Len(c.pending_data_) <= MaxPending
    BY <1>0 DEF Connection, Good
  <1>2. c.rout \o c.upstream_ \in Seq(Chunks) BY <1>1, Joined
  <1>3. f \in Seq(Chunks) /\ r \in Seq(Chunks) BY <1>1, Split
  <1>4. p \in Seq(Chunks) /\ Len(p) = Len(c.pending_data_) + Len(f) BY <1>1, <1>3, Joined
  <1>5. ((c.rout \o c.upstream_) \o p) \o r = ((c.rout \o c.upstream_) \o c.pending_data_) \o c.cin
    <2>1. TakeKeeps(c.rout \o c.upstream_, c.pending_data_, c.cin, n) BY <1>1, <1>2, Taken
    <2> QED BY <2>1 DEF TakeKeeps
  <1>6. Took(c, n) = t BY <1>0 DEF Took, Connection
  <1>7. t.pending_data_ = c.pending_data_ BY <1>0 DEF Connection
  <1>8. d = IF Len(c.pending_data_) + Len(f) > MaxPending THEN OnDisconnect(t) ELSE e
    BY <1>6, <1>7 DEF OnStreamRead
  <1> HIDE DEF f, r, p
  <1>9. t \in Connection BY <1>0, <1>3 DEF Connection
  <1>10. Good(t) BY <1>1, <1>7, <1>9 DEF Good
  <1>11. CASE Len(c.pending_data_) + Len(f) > MaxPending
    <2>1. d = OnDisconnect(t) BY <1>8, <1>11
    <2> HIDE DEF t
    <2> QED BY <1>10, <2>1, OnDisconnectOK
  <1>12. CASE ~(Len(c.pending_data_) + Len(f) > MaxPending)
    <2>0. d = e BY <1>8, <1>12
    <2>1. e \in Connection BY <1>0, <1>3, <1>4 DEF Connection
    <2>2. SameDown(c, e) BY <1>0 DEF Connection, SameDown
    <2>3. /\ e.rout = c.rout /\ e.upstream_ = c.upstream_ /\ e.cin = r /\ e.pending_data_ = p
          /\ e.csent = c.csent
      BY <1>0 DEF Connection
    <2>4. /\ e.stage = c.stage /\ e.write_inprogress_ = c.write_inprogress_
          /\ e.closed_ = c.closed_ /\ e.channel = c.channel
          /\ e.channel_write = c.channel_write /\ e.channel_read = c.channel_read
      BY <1>0 DEF Connection
    <2> HIDE DEF e, t
    <2>5. Len(p) <= MaxPending
      <3>1. Len(c.pending_data_) \in Nat /\ Len(f) \in Nat BY <1>1, <1>3, Empty
      <3> QED BY <1>4, <1>12, <3>1, MaxPendingAssumption
    <2>6. Good(e) BY <2>1, <2>3, <2>5 DEF Good
    <2>7. UpData(e) BY <1>5, <2>3 DEF Cons, UpData
    <2>8. UpShape(e) BY <2>3, <2>4 DEF Cons, UpShape
    <2>9. DownData(e) /\ DownShape(e) BY <2>2, <2>4 DEF Cons, DownData, DownShape, Front, SameDown
    <2>10. UpFrame(c, e) BY <2>2, <2>4 DEF UpFrame, SameDown
    <2>11. UpArm(e) BY <2>4, <2>8 DEF UpArm, Parked, Writable, UpShape
    <2> QED BY <2>0, <2>6, <2>7, <2>8, <2>9, <2>10, <2>11 DEF Cons
  <1> QED BY <1>11, <1>12

\* WriteUpstreamInPipe without a connected channel.
LEMMA FillPendingOK ==
  ASSUME NEW c, Good(c), Cons(c), ~c.closed_, c.channel # "connected", NEW d \in FillPending(c)
  PROVE  UpDone(c, d)
  <1>0. ~c.channel_write BY DEF Cons, UpShape
  <1>1. Parked(c) BY <1>0 DEF Parked
  <1>2. CASE c.upstream_ # << >>
    <2>1. d = OnUpstreamWriteFlush(c) BY <1>2 DEF FillPending
    <2>2. Writable(c) BY DEF Writable
    <2> QED BY <1>1, <1>2, <2>1, <2>2, FlushOK DEF UpDone
  <1>3. CASE c.upstream_ = << >>
    <2>1. \/ d = OnDisconnect(c) \/ d = ReadStream(c, "wait")
          \/ \E n \in 1 .. Len(c.cin) : d = ReadStream(OnStreamRead(Took(c, n), First(c.cin, n)), "wait")
      BY <1>3 DEF FillPending, When
    <2>2. ASSUME d = OnDisconnect(c) PROVE UpDone(c, d) BY <2>2, OnDisconnectOK DEF UpDone
    <2>3. ASSUME d = ReadStream(c, "wait") PROVE UpDone(c, d) BY <1>1, <2>3, ReadStreamOK DEF UpDone
    <2>4. ASSUME NEW n \in 1 .. Len(c.cin), d = ReadStream(OnStreamRead(Took(c, n), First(c.cin, n)), "wait")
          PROVE  UpDone(c, d)
      <3> DEFINE e == OnStreamRead(Took(c, n), First(c.cin, n))
      <3>0. Len(c.cin) \in Nat BY Empty DEF Good, Connection
      <3>1. n \in 0 .. Len(c.cin) BY <3>0
      <3>2. Good(e) /\ (e.closed_ \/ (Cons(e) /\ UpFrame(c, e) /\ UpArm(e))) BY <3>1, OnStreamReadOK
      <3>3. d = ReadStream(e, "wait") BY <2>4
      <3> HIDE DEF e
      <3>4. CASE e.closed_
        <4>1. d = e BY <3>3, <3>4 DEF ReadStream
        <4> QED BY <3>2, <3>4, <4>1 DEF UpDone
      <3>5. CASE ~e.closed_
        <4>1. Cons(e) /\ UpFrame(c, e) /\ Parked(e) BY <3>2, <3>5 DEF UpArm
        <4>2. Good(d) /\ Cons(d) /\ UpFrame(e, d) /\ Parked(d) /\ (e.channel # "connected" => UpArm(d))
          BY <3>2, <3>3, <3>5, <4>1, ReadStreamOK
        <4>3. UpFrame(c, d) /\ e.channel # "connected" BY <4>1, <4>2 DEF UpFrame
        <4> QED BY <4>2, <4>3 DEF UpDone
      <3> QED BY <3>4, <3>5
    <2> QED BY <2>1, <2>2, <2>3, <2>4
  <1> QED BY <1>2, <1>3

\* The channel took some and no more: the rest is waited for.
LEMMA BlockedOK ==
  ASSUME NEW c, Good(c), Cons(c), ~c.closed_, c.channel = "connected", ~c.channel_write,
         NEW n \in 0 .. Len(c.cin), NEW d \in Blocked(c, n)
  PROVE  UpDone(c, d)
  <1>0. Len(c.upstream_) \in Nat /\ Len(c.cin) \in Nat BY Empty DEF Good, Connection
  <1>1. PICK k \in (IF n = 0 THEN 0 ELSE Len(c.upstream_) + n - n) .. Len(c.upstream_) + n - 1 :
          d = OnUpstreamWriteFlush(Piped(c, n, k))
    BY DEF Blocked
  <1>2. k \in 0 .. Len(c.upstream_) + n /\ Len(c.upstream_) + n - k # 0 BY <1>0
  <1> DEFINE e == Piped(c, n, k)
  <1>3. /\ Good(e) /\ Cons(e) /\ ~e.closed_ /\ UpFrame(c, e) /\ Parked(e)
        /\ Len(e.upstream_) = Len(c.upstream_) + n - k /\ e.upstream_ \in Seq(Chunks)
        /\ Writable(c) => Writable(e)
    BY <1>2, PipedOK
  <1>4. d = OnUpstreamWriteFlush(e) BY <1>1
  <1> HIDE DEF e
  <1>5. e.upstream_ # << >> BY <1>2, <1>3, Empty
  <1>6. Good(d) /\ Cons(d) /\ UpFrame(e, d) /\ Parked(d) /\ (Writable(c) => UpArm(d))
    BY <1>3, <1>4, <1>5, FlushOK
  <1>7. UpFrame(c, d) BY <1>3, <1>6 DEF UpFrame
  <1> QED BY <1>6, <1>7 DEF UpDone

\* The channel took all: the client is being read.
LEMMA DrainedOK ==
  ASSUME NEW c, Good(c), Cons(c), ~c.closed_, c.channel = "connected", ~c.channel_write,
         NEW n \in 0 .. Len(c.cin), NEW d \in Drained(c, n)
  PROVE  UpDone(c, d)
  <1> DEFINE k == Len(c.upstream_) + n
             e == Piped(c, n, k)
  <1>0. Len(c.upstream_) \in Nat /\ Len(c.cin) \in Nat BY Empty DEF Good, Connection
  <1>1. k \in 0 .. Len(c.upstream_) + n /\ Len(c.upstream_) + n - k = 0 BY <1>0
  <1>2. d = OnDisconnect(e) \/ \E how \in {"wait", "posted"} : d = ReadStream(e, how)
    BY DEF Drained, When
  <1> HIDE DEF k
  <1>3. /\ Good(e) /\ Cons(e) /\ ~e.closed_ /\ UpFrame(c, e) /\ Parked(e)
        /\ Len(e.upstream_) = Len(c.upstream_) + n - k /\ e.upstream_ \in Seq(Chunks)
        /\ Writable(c) => Writable(e)
    BY <1>1, PipedOK
  <1> HIDE DEF e
  <1>4. e.upstream_ = << >> BY <1>1, <1>3, Empty
  <1>5. ASSUME d = OnDisconnect(e) PROVE UpDone(c, d) BY <1>3, <1>5, OnDisconnectOK DEF UpDone
  <1>6. ASSUME NEW how \in {"wait", "posted"}, d = ReadStream(e, how) PROVE UpDone(c, d)
    <2>1. Good(d) /\ Cons(d) /\ UpFrame(e, d) /\ Parked(d) /\ (Writable(c) => UpArm(d))
      BY <1>3, <1>4, <1>6, ReadStreamOK
    <2>2. UpFrame(c, d) BY <1>3, <2>1 DEF UpFrame
    <2> QED BY <2>1, <2>2 DEF UpDone
  <1> QED BY <1>2, <1>5, <1>6

\* The channel failed: the connection is closed.
LEMMA BrokenOK ==
  ASSUME NEW c, Good(c), Cons(c), ~c.closed_, c.channel = "connected", ~c.channel_write,
         NEW n \in 0 .. Len(c.cin), NEW d \in Broken(c, n)
  PROVE  UpDone(c, d)
  <1> DEFINE e == Piped(c, n, 0)
  <1>1. PICK b \in disconnected(e) : d = OnDisconnect(b) BY DEF Broken
  <1>2. 0 \in 0 .. Len(c.upstream_) + n
    <2>1. Len(c.upstream_) \in Nat /\ Len(c.cin) \in Nat BY Empty DEF Good, Connection
    <2> QED BY <2>1
  <1>3. Good(e) /\ Cons(e) /\ ~e.closed_ /\ e.channel = "connected" BY <1>2, PipedOK
  <1> HIDE DEF e
  <1>4. Good(b) BY <1>1, <1>3, disconnectedOK DEF DownDone
  <1> QED BY <1>1, <1>4, OnDisconnectOK DEF UpDone

\* The whole pipe towards the remote.
LEMMA WriteUpstreamInPipeOK ==
  ASSUME NEW c, Good(c), Cons(c), ~c.closed_, Parked(c), NEW d \in WriteUpstreamInPipe(c)
  PROVE  UpDone(c, d)
  <1>0. Len(c.cin) \in Nat BY Empty DEF Good, Connection
  <1>1. CASE c.channel_write
    <2>1. d = c BY <1>1 DEF WriteUpstreamInPipe
    <2>2. UpArm(c) BY <1>1 DEF UpArm, Parked, Writable
    <2>3. UpFrame(c, c) BY DEF UpFrame
    <2> QED BY <2>1, <2>2, <2>3 DEF UpDone
  <1>2. CASE ~c.channel_write /\ c.channel # "connected"
    <2>1. d \in FillPending(c) BY <1>2 DEF WriteUpstreamInPipe
    <2> QED BY <1>2, <2>1, FillPendingOK
  <1>3. CASE ~c.channel_write /\ c.channel = "connected" /\ c.remote # "gone"
    <2>1. PICK n \in 0 .. Len(c.cin) : d \in Blocked(c, n) \/ d \in Drained(c, n)
      BY <1>3 DEF WriteUpstreamInPipe
    <2> QED BY <1>3, <2>1, BlockedOK, DrainedOK
  <1>4. CASE ~c.channel_write /\ c.channel = "connected" /\ c.remote = "gone"
    <2>1. \/ d \in Broken(c, 0)
          \/ \E n \in 1 .. Len(c.cin) : d \in Broken(c, n)
          \/ d = OnDisconnect(c)
          \/ c.upstream_ = << >> /\ d = ReadStream(c, "wait")
      <3>1. CASE c.upstream_ # << >> BY <1>4, <3>1 DEF WriteUpstreamInPipe
      <3>2. CASE c.upstream_ = << >> BY <1>4, <3>2 DEF WriteUpstreamInPipe, When
      <3> QED BY <3>1, <3>2
    <2>2. 0 \in 0 .. Len(c.cin) /\ \A n \in 1 .. Len(c.cin) : n \in 0 .. Len(c.cin) BY <1>0
    <2>3. ASSUME NEW n \in 0 .. Len(c.cin), d \in Broken(c, n) PROVE UpDone(c, d) BY <1>4, <2>3, BrokenOK
    <2>4. ASSUME d = OnDisconnect(c) PROVE UpDone(c, d) BY <2>4, OnDisconnectOK DEF UpDone
    <2>5. ASSUME c.upstream_ = << >>, d = ReadStream(c, "wait") PROVE UpDone(c, d)
      BY <2>5, ReadStreamOK DEF UpDone
    <2> QED BY <2>1, <2>2, <2>3, <2>4, <2>5
  <1> QED BY <1>1, <1>2, <1>3, <1>4

\* The pipe and the flush behind it, as the handlers call them.
LEMMA PipeAndFlushOK ==
  ASSUME NEW c, Good(c), Cons(c), ~c.closed_, Parked(c), NEW d \in PipeAndFlush(c)
  PROVE  UpDone(c, d)
  <1>1. PICK e \in WriteUpstreamInPipe(c) : d \in IF e.closed_ THEN {e} ELSE {OnUpstreamWriteFlush(e)}
    BY ZenonT(30) DEF PipeAndFlush, Then
  <1>2. UpDone(c, e) BY <1>1, WriteUpstreamInPipeOK
  <1>3. CASE e.closed_
    <2>1. d = e BY <1>1, <1>3
    <2> QED BY <1>2, <2>1
  <1>4. CASE ~e.closed_
    <2>1. d = OnUpstreamWriteFlush(e) BY <1>1, <1>4
    <2>2. Good(e) /\ Cons(e) /\ UpFrame(c, e) /\ Parked(e) /\ (Writable(c) => UpArm(e)) BY <1>2, <1>4 DEF UpDone
    <2>3. Good(d) /\ Cons(d) /\ UpFrame(e, d) /\ Parked(d) /\ (Writable(c) => UpArm(d))
      BY <1>4, <2>1, <2>2, FlushOK
    <2>4. UpFrame(c, d) BY <2>2, <2>3 DEF UpFrame
    <2> QED BY <2>3, <2>4 DEF UpDone
  <1> QED BY <1>3, <1>4

\* What every handler leaves behind.
Kept(d) == Good(d) /\ (d.closed_ \/ (Cons(d) /\ UpArm(d) /\ DownArm(d)))

\* A handler that works towards the client.
LEMMA DownKept ==
  ASSUME NEW c, UpArm(c), NEW d, DownDone(c, d)
  PROVE  Kept(d)
  <1>1. DownFrame(c, d) => UpArm(d) BY DEF UpArm, Parked, Writable, DownFrame
  <1> QED BY <1>1 DEF Kept, DownDone

\* A handler that works towards the remote.
LEMMA UpKept ==
  ASSUME NEW c, Writable(c), DownArm(c), NEW d, UpDone(c, d)
  PROVE  Kept(d)
  <1>1. UpFrame(c, d) => DownArm(d) BY DEF DownArm, UpFrame
  <1> QED BY <1>1 DEF Kept, UpDone

\* connected(): the header and the early data are queued, then both directions
\* start; a first pipe before the channel counts as writable arms nothing.
LEMMA connectedOK ==
  ASSUME NEW c, Good(c), Cons(c), ~c.closed_, UpArm(c), DownArm(c), c.channel = "connecting",
         NEW d \in connected(c)
  PROVE  Kept(d)
  <1> DEFINE u == (<< >> \o <<0>>) \o c.pending_data_
             a == [c EXCEPT !.channel = "connected", !.upstream_ = u, !.pending_data_ = << >>]
             piped == IF c.pending_data_ = << >> THEN {a} ELSE WriteUpstreamInPipe(a)
             W(e) == {[e EXCEPT !.upstream_writable_ = TRUE]}
  <1>0. c \in Connection BY DEF Good
  <1>1. /\ c.rout = << >> /\ c.upstream_ = << >> /\ c.pending_data_ \in Seq(Chunks) /\ c.cin \in Seq(Chunks)
        /\ c.csent \in 0 .. MaxClient /\ ~c.channel_write /\ c.stage # "handshake"
    BY <1>0 DEF Connection, Cons, UpShape
  <1>2. HeaderKeeps(c.pending_data_, c.cin, c.csent)
    <2>1. c.csent \in Nat /\ 1 .. c.csent \subseteq Chunks
      BY <1>1, MaxClientAssumption, MaxRemoteAssumption DEF Chunks
    <2>2. ((<< >> \o << >>) \o c.pending_data_) \o c.cin = << >> \o Run(c.csent)
      <3>0. << >> \in Seq(Chunks) OBVIOUS
      <3>1. << >> \o << >> = << >> BY <3>0, Empty
      <3> QED BY <1>1, <3>1 DEF Cons, UpData, Header
    <2> QED BY <1>1, <2>1, <2>2, HeaderPut
  <1>3. u \in Seq(Chunks) /\ << >> \o u # << >> /\ ((<< >> \o u) \o << >>) \o c.cin = <<0>> \o Run(c.csent)
    BY <1>2 DEF HeaderKeeps
  <1>4. d \in Then(Then(Then(piped, W), ReadUpstream), PipeAndFlush)
    <2>1. c.upstream_ \o <<0>> \o c.pending_data_ = u BY <1>1
    <2>2. [c EXCEPT !.channel = "connected", !.upstream_ = @ \o <<0>> \o c.pending_data_, !.pending_data_ = << >>] = a
      BY <1>0, <2>1 DEF Connection
    <2> HIDE DEF a, u
    <2> QED BY <2>2 DEF connected
  <1> HIDE DEF u
  <1>5. a \in Connection
    <2>1. << >> \in Seq(Chunks) OBVIOUS
    <2> QED BY <1>0, <1>3, <2>1 DEF Connection
  <1>6. SameDown(c, a) BY <1>0 DEF Connection, SameDown
  <1>7. a.rout = << >> /\ a.upstream_ = u /\ a.pending_data_ = << >> /\ a.cin = c.cin /\ a.csent = c.csent
    BY <1>0, <1>1 DEF Connection
  <1>8. /\ a.stage = c.stage /\ a.write_inprogress_ = c.write_inprogress_ /\ a.closed_ = c.closed_
        /\ a.channel = "connected" /\ a.channel_write = c.channel_write
    BY <1>0 DEF Connection
  <1>9. Good(a)
    <2>1. Len(a.pending_data_) = 0 BY <1>7
    <2> QED BY <1>5, <2>1, MaxPendingAssumption DEF Good
  <1> HIDE DEF a
  <1>10. UpData(a) BY <1>3, <1>7 DEF UpData, Header
  <1>11. UpShape(a) BY <1>1, <1>3, <1>7, <1>8 DEF UpShape
  <1>12. DownData(a) /\ DownShape(a) BY <1>6, <1>8 DEF Cons, DownData, DownShape, Front, SameDown
  <1>13. Cons(a) /\ ~a.closed_ /\ Parked(a) BY <1>1, <1>8, <1>10, <1>11, <1>12 DEF Cons, Parked
  <1>14. PICK e2 \in Then(Then(piped, W), ReadUpstream) : d \in IF e2.closed_ THEN {e2} ELSE PipeAndFlush(e2)
    BY <1>4, Zenon DEF Then
  <1>15. PICK e1 \in Then(piped, W) : e2 \in IF e1.closed_ THEN {e1} ELSE ReadUpstream(e1)
    BY <1>14, Zenon DEF Then
  <1>16. PICK e0 \in piped : e1 \in IF e0.closed_ THEN {e0} ELSE W(e0)
    BY <1>15, Zenon DEF Then
  <1>17. Good(e0) /\ (e0.closed_ \/ (Cons(e0) /\ Parked(e0) /\ e0.channel = "connected"))
    <2>1. CASE e0 = a BY <1>8, <1>9, <1>13, <2>1
    <2>2. CASE e0 \in WriteUpstreamInPipe(a)
      BY <1>8, <1>9, <1>13, <2>2, WriteUpstreamInPipeOK DEF UpDone, UpFrame
    <2> QED BY <1>16, <2>1, <2>2
  <1>18. CASE e0.closed_
    <2>1. e1 = e0 BY <1>16, <1>18
    <2>2. e2 = e0 BY <1>15, <1>18, <2>1
    <2>3. d = e0 BY <1>14, <1>18, <2>2
    <2> QED BY <1>17, <1>18, <2>3 DEF Kept
  <1>19. CASE ~e0.closed_
    <2>0. Cons(e0) /\ Parked(e0) /\ e0 \in Connection BY <1>17, <1>19 DEF Good
    <2>1. e1 = [e0 EXCEPT !.upstream_writable_ = TRUE] BY <1>16, <1>19
    <2>2. e1 \in Connection BY <2>0, <2>1 DEF Connection
    <2>3. SameUp(e0, e1) /\ SameDown(e0, e1) BY <2>0, <2>1 DEF Connection, SameUp, SameDown
    <2>4. /\ e1.stage = e0.stage /\ e1.write_inprogress_ = e0.write_inprogress_ /\ e1.closed_ = e0.closed_
          /\ e1.channel = e0.channel /\ e1.channel_write = e0.channel_write /\ e1.upstream_writable_
      BY <2>0, <2>1 DEF Connection
    <2>5. Good(e1) BY <1>17, <2>2, <2>3 DEF Good, SameUp
    <2>6. Cons(e1) BY <2>0, <2>3, <2>4, KeepCons
    <2>7. Parked(e1) /\ Writable(e1) BY <2>0, <2>3, <2>4 DEF Parked, Writable, SameUp
    <2>8. e2 \in ReadUpstream(e1) /\ ~e1.closed_ BY <1>15, <1>19, <2>4
    <2>9. DownDone(e1, e2) BY <2>5, <2>6, <2>8, ReadUpstreamOK
    <2>10. CASE e2.closed_
      <3>1. d = e2 BY <1>14, <2>10
      <3> QED BY <2>9, <2>10, <3>1 DEF Kept, DownDone
    <2>11. CASE ~e2.closed_
      <3>1. d \in PipeAndFlush(e2) BY <1>14, <2>11
      <3>2. Good(e2) /\ Cons(e2) /\ DownArm(e2) /\ DownFrame(e1, e2) BY <2>9, <2>11 DEF DownDone
      <3>3. Parked(e2) /\ Writable(e2) BY <2>7, <3>2 DEF Parked, Writable, DownFrame
      <3>4. UpDone(e2, d) BY <2>11, <3>1, <3>2, <3>3, PipeAndFlushOK
      <3> QED BY <3>2, <3>3, <3>4, UpKept
    <2> QED BY <2>10, <2>11
  <1> QED BY <1>18, <1>19

-----------------------------------------------------------------------------
(* The handlers. *)

\* The request is complete: the stage changes and the reply goes in front.
LEMMA BegunOK ==
  ASSUME NEW c, Good(c), Cons(c), ~c.closed_, c.stage = "handshake",
         NEW b \in Connection, SameUp(c, b), b.rin = c.rin, b.rsent = c.rsent, b.stage = "stream",
         b.channel # "connected", b.channel_write = c.channel_write,
         b.write_inprogress_ = c.write_inprogress_, b.cout \o b.downstream_ = Front(b)
  PROVE  Good(b) /\ Cons(b)
  <1>1. Good(b) BY DEF Good, SameUp
  <1>2. /\ c.channel = "none" /\ c.rin = << >> /\ c.rsent = 0 /\ c.rout = << >> /\ c.upstream_ = << >>
        /\ ~c.write_inprogress_ /\ ~c.channel_write
    BY DEF Cons, UpShape, DownShape
  <1>3. UpData(b) BY DEF Cons, UpData, SameUp
  <1>4. UpShape(b) BY <1>2 DEF UpShape, SameUp
  <1>5. DownData(b)
    <2>1. Run(0) = << >> BY DEF Run
    <2>2. (b.cout \o b.downstream_) \o b.rin = Front(b) \o << >> BY <1>2
    <2> QED BY <1>2, <2>1, <2>2 DEF DownData
  <1>6. DownShape(b) BY <1>2 DEF DownShape
  <1> QED BY <1>1, <1>3, <1>4, <1>5, <1>6 DEF Cons

\* After the reply: what came with the request is kept, or the client is read.
LEMMA GoOnOK ==
  ASSUME NEW d, Good(d), Cons(d), ~d.closed_, DownArm(d), d.channel # "connected",
         NEW n \in 0 .. Len(d.cin),
         NEW e \in (IF n > 0 THEN {OnStreamRead(Took(d, n), First(d.cin, n))} ELSE PipeAndFlush(d))
  PROVE  Kept(e)
  <1>1. CASE n > 0
    <2>1. e = OnStreamRead(Took(d, n), First(d.cin, n)) BY <1>1
    <2>2. Good(e) /\ (e.closed_ \/ (Cons(e) /\ UpFrame(d, e) /\ UpArm(e))) BY <2>1, OnStreamReadOK
    <2>3. UpFrame(d, e) => DownArm(e) BY DEF DownArm, UpFrame
    <2> QED BY <2>2, <2>3 DEF Kept
  <1>2. CASE ~(n > 0)
    <2>1. e \in PipeAndFlush(d) BY <1>2
    <2>2. Parked(d) /\ Writable(d) BY DEF Parked, Writable, Cons, UpShape
    <2> QED BY <2>1, <2>2, PipeAndFlushOK, UpKept
  <1> QED BY <1>1, <1>2

\* A connection on which the request is complete, before the reply.
Ready(c, start) ==
  [c EXCEPT !.stage = "stream", !.channel = start, !.shutdown_ = (start = "closed")]

\* What changes before the reply.
LEMMA ReadyFields ==
  ASSUME NEW c \in Connection, NEW start \in {"connecting", "closed"}, NEW a, a = Ready(c, start)
  PROVE  /\ a \in Connection /\ SameUp(c, a) /\ SameDown(c, a) /\ a.stage = "stream" /\ a.channel = start
         /\ a.channel_write = c.channel_write /\ a.write_inprogress_ = c.write_inprogress_
         /\ a.closed_ = c.closed_ /\ a.downstream_read = c.downstream_read
  <1>1. a \in Connection BY DEF Connection, Ready
  <1>2. SameUp(c, a) /\ SameDown(c, a) BY DEF Connection, Ready, SameUp, SameDown
  <1>3. /\ a.stage = "stream" /\ a.channel = start
        /\ a.channel_write = c.channel_write /\ a.write_inprogress_ = c.write_inprogress_
        /\ a.closed_ = c.closed_ /\ a.downstream_read = c.downstream_read
    BY DEF Connection, Ready
  <1> QED BY <1>1, <1>2, <1>3

\* What is there after the reply, of each kind.
Answer(a, d) ==
  \/ d \in WriteStream([a EXCEPT !.downstream_ = <<0>>])
  \/ d = [a EXCEPT !.reply = "plain"]
  \/ d = [a EXCEPT !.reply = "failing"]
  \/ d = [a EXCEPT !.reply = "pending", !.cout = <<0>>]

\* After the reply the connection is in order, and the channel not yet there.
LEMMA RepliedOK ==
  ASSUME NEW c, Good(c), Cons(c), ~c.closed_, c.stage = "handshake",
         NEW start \in {"connecting", "closed"}, NEW a, a = Ready(c, start), NEW d,
         Answer(a, d)
  PROVE  /\ Good(d)
         /\ ~d.closed_ => Cons(d) /\ DownArm(d) /\ d.channel # "connected" /\ d.cin = c.cin
  <1>0. c \in Connection BY DEF Good
  <1>1. /\ a \in Connection /\ SameUp(c, a) /\ SameDown(c, a) /\ a.stage = "stream" /\ a.channel # "connected"
        /\ a.channel_write = c.channel_write /\ a.write_inprogress_ = c.write_inprogress_
        /\ a.closed_ = c.closed_
    BY <1>0, ReadyFields
  <1>2. c.cout = << >> /\ c.downstream_ = << >> /\ c.reply = "none" /\ ~c.write_inprogress_
    BY DEF Cons, DownShape
  <1>3. a.cout = << >> /\ a.downstream_ = << >> /\ a.reply = "none" /\ a.rin = c.rin /\ a.rsent = c.rsent
    BY <1>1, <1>2 DEF SameDown
  <1>4. << >> \o <<0>> = <<0>> /\ <<0>> \o << >> = <<0>> /\ << >> \o << >> = << >>
    BY ZeroChunk, Empty
  <1>5. ASSUME NEW b \in Connection, SameUp(a, b), b.rin = a.rin, b.rsent = a.rsent, b.stage = "stream",
               b.channel = a.channel, b.channel_write = a.channel_write,
               b.write_inprogress_ = a.write_inprogress_, b.closed_ = a.closed_,
               b.cout \o b.downstream_ = Front(b)
        PROVE  Good(b) /\ Cons(b) /\ ~b.closed_ /\ b.channel # "connected" /\ b.cin = c.cin
    <2>1. SameUp(c, b) /\ b.cin = c.cin BY <1>1, <1>5 DEF SameUp
    <2> QED BY <1>1, <1>3, <1>5, <2>1, BegunOK
  <1>6. CASE d \in WriteStream([a EXCEPT !.downstream_ = <<0>>])
    <2> DEFINE b == [a EXCEPT !.downstream_ = <<0>>]
    <2>1. b \in Connection BY <1>1, ZeroChunk DEF Connection
    <2>2. SameUp(a, b) BY <1>1 DEF Connection, SameUp
    <2>3. /\ b.rin = a.rin /\ b.rsent = a.rsent /\ b.stage = "stream" /\ b.channel = a.channel
          /\ b.channel_write = a.channel_write /\ b.write_inprogress_ = a.write_inprogress_
          /\ b.closed_ = a.closed_ /\ b.cout = a.cout /\ b.downstream_ = <<0>> /\ b.reply = a.reply
      BY <1>1 DEF Connection
    <2>4. b.cout \o b.downstream_ = Front(b) BY <1>3, <1>4, <2>3 DEF Front
    <2> HIDE DEF b
    <2>5. Good(b) /\ Cons(b) /\ ~b.closed_ /\ b.channel # "connected" /\ b.cin = c.cin
      BY <1>5, <2>1, <2>2, <2>3, <2>4
    <2>6. d \in WriteStream(b) BY <1>6, Zenon DEF b
    <2>7. DownDone(b, d) BY <2>5, <2>6, WriteStreamOK
    <2> QED BY <2>5, <2>7 DEF DownDone, DownFrame
  <1>7. ASSUME NEW r \in {"plain", "failing"}, d = [a EXCEPT !.reply = r]
        PROVE  Good(d) /\ Cons(d) /\ DownArm(d) /\ d.channel # "connected" /\ d.cin = c.cin
    <2>0. r \in Replies BY DEF Replies
    <2>1. d \in Connection BY <1>1, <1>7, <2>0 DEF Connection
    <2>2. SameUp(a, d) BY <1>1, <1>7 DEF Connection, SameUp
    <2>3. /\ d.rin = a.rin /\ d.rsent = a.rsent /\ d.stage = "stream" /\ d.channel = a.channel
          /\ d.channel_write = a.channel_write /\ d.write_inprogress_ = a.write_inprogress_
          /\ d.closed_ = a.closed_ /\ d.cout = a.cout /\ d.downstream_ = a.downstream_ /\ d.reply = r
      BY <1>1, <1>7 DEF Connection
    <2>4. d.cout \o d.downstream_ = Front(d) BY <1>3, <1>4, <2>3 DEF Front
    <2>5. Good(d) /\ Cons(d) /\ d.channel # "connected" /\ d.cin = c.cin BY <1>5, <2>1, <2>2, <2>3, <2>4
    <2>6. DownArm(d) BY <1>3, <2>3, <2>5 DEF DownArm
    <2> QED BY <2>5, <2>6
  <1>8. CASE d = [a EXCEPT !.reply = "pending", !.cout = <<0>>]
    <2>1. d \in Connection BY <1>1, <1>8, ZeroChunk DEF Connection, Replies
    <2>2. SameUp(a, d) BY <1>1, <1>8 DEF Connection, SameUp
    <2>3. /\ d.rin = a.rin /\ d.rsent = a.rsent /\ d.stage = "stream" /\ d.channel = a.channel
          /\ d.channel_write = a.channel_write /\ d.write_inprogress_ = a.write_inprogress_
          /\ d.closed_ = a.closed_ /\ d.cout = <<0>> /\ d.downstream_ = a.downstream_ /\ d.reply = "pending"
      BY <1>1, <1>8 DEF Connection
    <2>4. d.cout \o d.downstream_ = Front(d) BY <1>3, <1>4, <2>3 DEF Front
    <2>5. Good(d) /\ Cons(d) /\ d.channel # "connected" /\ d.cin = c.cin BY <1>5, <2>1, <2>2, <2>3, <2>4
    <2>6. DownArm(d) BY <1>3, <2>3, <2>5 DEF DownArm
    <2> QED BY <2>5, <2>6
  <1> QED BY <1>6, <1>7, <1>8 DEF Answer

\* The end of the handshake preserves the invariant.
LEMMA HandshakeStep ==
  ASSUME RelayInv, handshake
  PROVE  Kept(conn')
  <1>0. Good(conn) /\ Cons(conn) /\ ~conn.closed_ /\ conn.stage = "handshake" BY DEF RelayInv, handshake, Open
  <1>1. PICK start \in {"connecting", "closed"}, kind \in {"socks", "connect", "plain"}, n \in 0 .. Len(conn.cin) :
       LET c == [conn EXCEPT !.stage = "stream", !.channel = start,
                             !.shutdown_ = (start = "closed")]
           replied ==
             CASE kind = "connect" ->
                    {d \in WriteStream([c EXCEPT !.downstream_ = <<0>>]) : ~d.write_inprogress_}
               [] kind = "plain" -> {[c EXCEPT !.reply = "plain"]}
               [] kind = "socks" /\ c.shutdown_ -> {[c EXCEPT !.reply = "failing"]}
               [] kind = "socks" /\ ~c.shutdown_ ->
                    {[c EXCEPT !.reply = "pending", !.cout = <<0>>]}
           goOn(d) == IF n > 0 THEN {OnStreamRead(Took(d, n), First(d.cin, n))}
                                ELSE PipeAndFlush(d)
       IN (kind = "plain" => n > 0) /\ Does(Then(replied, goOn))
    BY DEF handshake
  <1> DEFINE a == Ready(conn, start)
             replied ==
               CASE kind = "connect" ->
                      {d \in WriteStream([a EXCEPT !.downstream_ = <<0>>]) : ~d.write_inprogress_}
                 [] kind = "plain" -> {[a EXCEPT !.reply = "plain"]}
                 [] kind = "socks" /\ a.shutdown_ -> {[a EXCEPT !.reply = "failing"]}
                 [] kind = "socks" /\ ~a.shutdown_ ->
                      {[a EXCEPT !.reply = "pending", !.cout = <<0>>]}
             goOn(d) == IF n > 0 THEN {OnStreamRead(Took(d, n), First(d.cin, n))} ELSE PipeAndFlush(d)
  <1>2. conn' \in Then(replied, goOn) BY <1>1, Zenon DEF Ready, Does
  <1>3. PICK d \in replied : conn' \in IF d.closed_ THEN {d} ELSE goOn(d) BY <1>2, Zenon DEF Then
  <1>4. a = Ready(conn, start) OBVIOUS
  <1> HIDE DEF a
  <1>5. Answer(a, d)
    <2>1. CASE kind = "connect" BY <1>3, <2>1 DEF Answer
    <2>2. CASE kind = "plain" BY <1>3, <2>2 DEF Answer
    <2>3. CASE kind = "socks" /\ a.shutdown_ BY <1>3, <2>3 DEF Answer
    <2>4. CASE kind = "socks" /\ ~a.shutdown_ BY <1>3, <2>4 DEF Answer
    <2> QED BY <2>1, <2>2, <2>3, <2>4
  <1>6. /\ Good(d)
        /\ ~d.closed_ => Cons(d) /\ DownArm(d) /\ d.channel # "connected" /\ d.cin = conn.cin
    BY <1>0, <1>4, <1>5, RepliedOK
  <1>7. CASE d.closed_ BY <1>3, <1>6, <1>7 DEF Kept
  <1>8. CASE ~d.closed_
    <2>1. conn' \in (IF n > 0 THEN {OnStreamRead(Took(d, n), First(d.cin, n))} ELSE PipeAndFlush(d)) BY <1>3, <1>8
    <2>2. n \in 0 .. Len(d.cin) BY <1>6, <1>8
    <2> QED BY <1>6, <1>8, <2>1, <2>2, GoOnOK
  <1> QED BY <1>7, <1>8

\* So does the refusal of a socks command,
LEMMA RefusedStep ==
  ASSUME RelayInv, handshake_refused
  PROVE  Kept(conn')
  <1> DEFINE b == [conn EXCEPT !.stage = "stream", !.reply = "refusing", !.cout = <<0>>]
  <1>0. Good(conn) /\ Cons(conn) /\ ~conn.closed_ /\ conn.stage = "handshake" /\ conn \in Connection
    BY DEF RelayInv, handshake_refused, Open, Good
  <1>1. conn' = ReadStream(b, "posted") BY DEF handshake_refused, Does
  <1>2. b \in Connection
    <2>1. "refusing" \in Replies BY DEF Replies
    <2> QED BY <1>0, <2>1, ZeroChunk DEF Connection
  <1>3. SameUp(conn, b) BY <1>0 DEF Connection, SameUp
  <1>4. /\ b.rin = conn.rin /\ b.rsent = conn.rsent /\ b.stage = "stream" /\ b.channel = conn.channel
        /\ b.channel_write = conn.channel_write /\ b.write_inprogress_ = conn.write_inprogress_
        /\ b.closed_ = conn.closed_ /\ b.cout = <<0>> /\ b.downstream_ = conn.downstream_ /\ b.reply = "refusing"
    BY <1>0 DEF Connection
  <1> HIDE DEF b
  <1>5. conn.channel = "none" /\ conn.downstream_ = << >> /\ ~conn.channel_write
    BY <1>0 DEF Cons, UpShape, DownShape
  <1>6. b.cout \o b.downstream_ = Front(b) BY <1>4, <1>5, ZeroChunk, Empty DEF Front
  <1>7. b.channel # "connected" BY <1>4, <1>5
  <1>8. Good(b) /\ Cons(b) BY <1>0, <1>2, <1>3, <1>4, <1>6, <1>7, BegunOK
  <1>9. Parked(b) BY <1>4, <1>5 DEF Parked
  <1>10. Good(conn') /\ Cons(conn') /\ UpFrame(b, conn') /\ UpArm(conn')
    BY <1>0, <1>1, <1>4, <1>7, <1>8, <1>9, ReadStreamOK
  <1>11. DownArm(b) BY <1>4, <1>5 DEF DownArm
  <1>12. DownArm(conn') BY <1>10, <1>11 DEF DownArm, UpFrame
  <1> QED BY <1>10, <1>12 DEF Kept

\* the end of the write of a socks reply,
LEMMA ReplySentStep ==
  ASSUME RelayInv, reply_sent
  PROVE  Kept(conn')
  <1>0. Good(conn) /\ Cons(conn) /\ ~conn.closed_ /\ UpArm(conn) /\ DownArm(conn) /\ conn \in Connection
    BY DEF RelayInv, reply_sent, Open, Good
  <1>1. CASE conn.reply = "failing"
    <2>1. conn' = OnDisconnect(conn) BY <1>1 DEF reply_sent, Does
    <2> QED BY <1>0, <2>1, OnDisconnectOK DEF Kept
  <1>2. CASE conn.reply \in {"pending", "refusing"}
    <2> DEFINE s == conn.shutdown_ \/ conn.reply = "refusing"
               c == [conn EXCEPT !.reply = "done", !.shutdown_ = s]
    <2>1. conn' \in IF c.downstream_ # << >> /\ ~c.write_inprogress_ THEN WriteStream(c) ELSE {OnStreamWrite(c)}
      <3>1. [conn EXCEPT !.reply = "done", !.shutdown_ = @ \/ conn.reply = "refusing"] = c
        BY <1>0, Zenon DEF Connection
      <3> HIDE DEF c, s
      <3> QED BY <1>2, <3>1 DEF reply_sent, Does
    <2>2. s \in BOOLEAN OBVIOUS
    <2> HIDE DEF s
    <2>3. c \in Connection
      <3>1. "done" \in Replies BY DEF Replies
      <3> QED BY <1>0, <2>2, <3>1 DEF Connection
    <2>4. SameUp(conn, c) BY <1>0 DEF Connection, SameUp
    <2>5. /\ c.rin = conn.rin /\ c.rsent = conn.rsent /\ c.stage = conn.stage /\ c.channel = conn.channel
          /\ c.cout = conn.cout /\ c.downstream_ = conn.downstream_ /\ c.reply = "done"
      BY <1>0 DEF Connection
    <2>6. /\ c.channel_write = conn.channel_write /\ c.write_inprogress_ = conn.write_inprogress_
          /\ c.closed_ = conn.closed_ /\ c.downstream_read = conn.downstream_read
          /\ c.channel_read = conn.channel_read /\ c.upstream_writable_ = conn.upstream_writable_
      BY <1>0 DEF Connection
    <2> HIDE DEF c
    <2>7. conn.stage = "stream"
      <3>1. conn.stage \in {"handshake", "stream"} BY <1>0 DEF Connection
      <3> QED BY <1>0, <1>2, <3>1 DEF Cons, DownShape
    <2>8. Good(c) BY <1>0, <2>3, <2>4 DEF Good, SameUp
    <2>9. UpData(c) /\ UpShape(c) BY <1>0, <2>4, <2>5, <2>6 DEF Cons, UpData, UpShape, SameUp
    <2>10. Front(c) = Front(conn) BY <1>2, <2>5, <2>7 DEF Front
    <2>11. DownData(c) BY <1>0, <2>5, <2>10 DEF Cons, DownData
    <2>12. DownShape(c) BY <1>0, <2>5, <2>6, <2>7 DEF Cons, DownShape
    <2>13. Cons(c) BY <2>9, <2>11, <2>12 DEF Cons
    <2>14. UpArm(c) /\ DownArm(c)
      BY <1>0, <2>4, <2>5, <2>6 DEF UpArm, Parked, Writable, DownArm, SameUp
    <2>15. ASSUME conn' \in WriteStream(c) PROVE DownDone(c, conn')
      BY <1>0, <2>6, <2>8, <2>13, <2>15, WriteStreamOK
    <2>16. ASSUME conn' = OnStreamWrite(c) PROVE DownDone(c, conn')
      BY <1>0, <2>6, <2>8, <2>13, <2>14, <2>16, OnStreamWriteOK DEF DownDone
    <2>17. DownDone(c, conn') BY <2>1, <2>15, <2>16
    <2> QED BY <2>14, <2>17, DownKept
  <1> QED BY <1>1, <1>2 DEF reply_sent

\* a connect that failed,
LEMMA ChannelRefusedStep ==
  ASSUME RelayInv, channel_refused
  PROVE  Kept(conn')
  <1>0. /\ Good(conn) /\ Cons(conn) /\ ~conn.closed_ /\ UpArm(conn) /\ DownArm(conn) /\ conn \in Connection
        /\ conn.channel = "connecting" /\ ~conn.channel_write
    BY DEF RelayInv, channel_refused, Open, Good, Cons, UpShape
  <1>1. CASE conn' \in disconnected(conn)
    <2>1. DownDone(conn, conn') BY <1>0, <1>1, disconnectedOK
    <2> QED BY <1>0, <2>1, DownKept
  <1>2. CASE conn' \in disconnected([conn EXCEPT !.channel = "closed"])
    <2> DEFINE c == [conn EXCEPT !.channel = "closed"]
    <2>1. c \in Connection BY <1>0 DEF Connection
    <2>2. SameUp(conn, c) /\ SameDown(conn, c) BY <1>0 DEF Connection, SameUp, SameDown
    <2>3. /\ c.stage = conn.stage /\ c.channel = "closed"
          /\ c.channel_write = conn.channel_write /\ c.write_inprogress_ = conn.write_inprogress_
          /\ c.closed_ = conn.closed_
      BY <1>0 DEF Connection
    <2>4. conn' \in disconnected(c) BY <1>2
    <2> HIDE DEF c
    <2>5. Good(c) BY <1>0, <2>1, <2>2 DEF Good, SameUp
    <2>6. Cons(c) BY <1>0, <2>2, <2>3, KeepCons
    <2>7. UpArm(c) BY <1>0, <2>3 DEF UpArm, Parked, Writable
    <2>8. DownDone(c, conn') BY <1>0, <2>3, <2>4, <2>5, <2>6, disconnectedOK
    <2> QED BY <2>7, <2>8, DownKept
  <1> QED BY <1>1, <1>2 DEF channel_refused, Does

\* received(),
LEMMA ChannelReadableStep ==
  ASSUME RelayInv, channel_readable
  PROVE  Kept(conn')
  <1> DEFINE c == [conn EXCEPT !.channel_read = "no"]
  <1>0. Good(conn) /\ Cons(conn) /\ ~conn.closed_ /\ UpArm(conn) /\ conn \in Connection
    BY DEF RelayInv, channel_readable, Open, Good
  <1>1. conn' \in ReadUpstream(c) BY DEF channel_readable, Does
  <1>2. c \in Connection BY <1>0 DEF Connection
  <1>3. SameUp(conn, c) /\ SameDown(conn, c) BY <1>0 DEF Connection, SameUp, SameDown
  <1>4. /\ c.stage = conn.stage /\ c.channel = conn.channel
        /\ c.channel_write = conn.channel_write /\ c.write_inprogress_ = conn.write_inprogress_
        /\ c.closed_ = conn.closed_ /\ c.downstream_read = conn.downstream_read
        /\ c.upstream_writable_ = conn.upstream_writable_
    BY <1>0 DEF Connection
  <1> HIDE DEF c
  <1>5. Good(c) BY <1>0, <1>2, <1>3 DEF Good, SameUp
  <1>6. Cons(c) BY <1>0, <1>3, <1>4, KeepCons
  <1>7. UpArm(c) BY <1>0, <1>3, <1>4 DEF UpArm, Parked, Writable, SameUp
  <1>8. DownDone(c, conn') BY <1>0, <1>1, <1>4, <1>5, <1>6, ReadUpstreamOK
  <1> QED BY <1>7, <1>8, DownKept

\* the end of a wait on the downlink,
LEMMA DownlinkWritableStep ==
  ASSUME RelayInv, downlink_writable
  PROVE  Kept(conn')
  <1> DEFINE c == [conn EXCEPT !.write_inprogress_ = FALSE]
  <1>0. Good(conn) /\ Cons(conn) /\ ~conn.closed_ /\ UpArm(conn) /\ conn \in Connection
    BY DEF RelayInv, downlink_writable, Open, Good
  <1>1. conn' \in WriteStream(c) BY DEF downlink_writable, Does
  <1>2. c \in Connection BY <1>0 DEF Connection
  <1>3. SameUp(conn, c) /\ SameDown(conn, c) BY <1>0 DEF Connection, SameUp, SameDown
  <1>4. /\ c.stage = conn.stage /\ c.channel = conn.channel
        /\ c.channel_write = conn.channel_write /\ ~c.write_inprogress_
        /\ c.closed_ = conn.closed_ /\ c.downstream_read = conn.downstream_read
        /\ c.upstream_writable_ = conn.upstream_writable_
    BY <1>0 DEF Connection
  <1> HIDE DEF c
  <1>5. Good(c) BY <1>0, <1>2, <1>3 DEF Good, SameUp
  <1>6. Cons(c) BY <1>0, <1>3, <1>4, KeepCons
  <1>7. UpArm(c) BY <1>0, <1>3, <1>4 DEF UpArm, Parked, Writable, SameUp
  <1>8. DownDone(c, conn') BY <1>0, <1>1, <1>4, <1>5, <1>6, WriteStreamOK
  <1> QED BY <1>7, <1>8, DownKept

\* sent(),
LEMMA ChannelWritableStep ==
  ASSUME RelayInv, channel_writable
  PROVE  Kept(conn')
  <1> DEFINE c == [conn EXCEPT !.channel_write = FALSE, !.upstream_writable_ = TRUE]
  <1>0. Good(conn) /\ Cons(conn) /\ ~conn.closed_ /\ DownArm(conn) /\ conn \in Connection
    BY DEF RelayInv, channel_writable, Open, Good
  <1>1. conn' \in PipeAndFlush(c) BY DEF channel_writable, Does, sent
  <1>2. c \in Connection BY <1>0 DEF Connection
  <1>3. SameUp(conn, c) /\ SameDown(conn, c) BY <1>0 DEF Connection, SameUp, SameDown
  <1>4. /\ c.stage = conn.stage /\ c.channel = conn.channel
        /\ ~c.channel_write /\ c.write_inprogress_ = conn.write_inprogress_
        /\ c.closed_ = conn.closed_ /\ c.channel_read = conn.channel_read
        /\ c.upstream_writable_
    BY <1>0 DEF Connection
  <1> HIDE DEF c
  <1>5. Good(c) BY <1>0, <1>2, <1>3 DEF Good, SameUp
  <1>6. Cons(c) BY <1>0, <1>3, <1>4, KeepCons
  <1>7. Parked(c) /\ Writable(c) BY <1>4 DEF Parked, Writable
  <1>8. DownArm(c) BY <1>0, <1>3, <1>4 DEF DownArm, SameDown
  <1>9. UpDone(c, conn') BY <1>0, <1>1, <1>4, <1>5, <1>6, <1>7, PipeAndFlushOK
  <1> QED BY <1>7, <1>8, <1>9, UpKept

\* and a readable client.
LEMMA DownlinkReadableStep ==
  ASSUME RelayInv, downlink_readable
  PROVE  Kept(conn')
  <1> DEFINE c == [conn EXCEPT !.downstream_read = "no"]
  <1>0. Good(conn) /\ Cons(conn) /\ ~conn.closed_ /\ UpArm(conn) /\ DownArm(conn) /\ conn \in Connection
    BY DEF RelayInv, downlink_readable, Open, Good
  <1>1. conn' \in PipeAndFlush(c) BY DEF downlink_readable, Does
  <1>2. c \in Connection BY <1>0 DEF Connection
  <1>3. SameUp(conn, c) /\ SameDown(conn, c) BY <1>0 DEF Connection, SameUp, SameDown
  <1>4. /\ c.stage = conn.stage /\ c.channel = conn.channel
        /\ c.channel_write = conn.channel_write /\ c.write_inprogress_ = conn.write_inprogress_
        /\ c.closed_ = conn.closed_ /\ c.channel_read = conn.channel_read
        /\ c.upstream_writable_ = conn.upstream_writable_
    BY <1>0 DEF Connection
  <1> HIDE DEF c
  <1>5. Good(c) BY <1>0, <1>2, <1>3 DEF Good, SameUp
  <1>6. Cons(c) BY <1>0, <1>3, <1>4, KeepCons
  <1>7. Parked(c) /\ Writable(c) BY <1>0, <1>3, <1>4 DEF UpArm, Parked, Writable, SameUp
  <1>8. DownArm(c) BY <1>0, <1>3, <1>4 DEF DownArm, SameDown
  <1>9. UpDone(c, conn') BY <1>0, <1>1, <1>4, <1>5, <1>6, <1>7, PipeAndFlushOK
  <1> QED BY <1>7, <1>8, <1>9, UpKept

\* A peer that only ends changes nothing the invariant is about.
LEMMA PeerEndsOK ==
  ASSUME RelayInv, Open, NEW p \in Peer,
         conn' = [conn EXCEPT !.client = p] \/ conn' = [conn EXCEPT !.remote = p]
  PROVE  Kept(conn')
  <1>0. Good(conn) /\ Cons(conn) /\ ~conn.closed_ /\ UpArm(conn) /\ DownArm(conn) /\ conn \in Connection
    BY DEF RelayInv, Open, Good
  <1>1. conn' \in Connection
    <2>1. CASE conn' = [conn EXCEPT !.client = p] BY <1>0, <2>1 DEF Connection
    <2>2. CASE conn' = [conn EXCEPT !.remote = p] BY <1>0, <2>2 DEF Connection
    <2> QED BY <2>1, <2>2
  <1>2. SameUp(conn, conn') /\ SameDown(conn, conn') BY <1>0 DEF Connection, SameUp, SameDown
  <1>3. /\ conn'.stage = conn.stage /\ conn'.channel = conn.channel
        /\ conn'.channel_write = conn.channel_write /\ conn'.write_inprogress_ = conn.write_inprogress_
        /\ conn'.channel_read = conn.channel_read /\ conn'.downstream_read = conn.downstream_read
        /\ conn'.upstream_writable_ = conn.upstream_writable_
    BY <1>0 DEF Connection
  <1>4. Good(conn') BY <1>0, <1>1, <1>2 DEF Good, SameUp
  <1>5. Cons(conn') BY <1>0, <1>2, <1>3, KeepCons
  <1>6. UpArm(conn') /\ DownArm(conn')
    BY <1>0, <1>2, <1>3 DEF UpArm, Parked, Writable, DownArm, SameUp, SameDown
  <1> QED BY <1>4, <1>5, <1>6 DEF Kept

\* The client sends its next chunk.
LEMMA ClientSendsStep ==
  ASSUME RelayInv, client_sends
  PROVE  Kept(conn')
  <1> DEFINE n == conn.csent
             i == Append(conn.cin, n + 1)
             x == (conn.rout \o conn.upstream_) \o conn.pending_data_
             f == Header(conn.rout \o conn.upstream_)
  <1>0. Good(conn) /\ Cons(conn) /\ ~conn.closed_ /\ UpArm(conn) /\ DownArm(conn) /\ conn \in Connection
    BY DEF RelayInv, client_sends, Open, Good
  <1>1. n \in 0 .. MaxClient /\ n < MaxClient /\ conn.cin \in Seq(Chunks)
    BY <1>0 DEF client_sends, Connection
  <1>2. conn' = [conn EXCEPT !.csent = n + 1, !.cin = i] BY <1>0 DEF client_sends, Does, Connection
  <1>3. x \in Seq(Chunks) /\ f \in Seq(Chunks)
    BY <1>0, ZeroChunk, Joined DEF Connection, Header
  <1>4. x \o conn.cin = f \o Run(n) BY <1>0 DEF Cons, UpData
  <1>5. n \in Nat /\ n + 1 \in 0 .. MaxClient BY <1>1, MaxClientAssumption
  <1> HIDE DEF n, x, f
  <1>6. x \o i = f \o Run(n + 1) /\ i \in Seq(Chunks) BY <1>1, <1>3, <1>4, <1>5, RunBound, SendMoved
  <1> HIDE DEF i
  <1>7. conn' \in Connection BY <1>0, <1>2, <1>5, <1>6 DEF Connection
  <1>8. SameDown(conn, conn') BY <1>0, <1>2 DEF Connection, SameDown
  <1>9. /\ conn'.rout = conn.rout /\ conn'.upstream_ = conn.upstream_
        /\ conn'.pending_data_ = conn.pending_data_ /\ conn'.cin = i /\ conn'.csent = n + 1
    BY <1>0, <1>2 DEF Connection
  <1>10. /\ conn'.stage = conn.stage /\ conn'.channel = conn.channel
        /\ conn'.channel_write = conn.channel_write /\ conn'.write_inprogress_ = conn.write_inprogress_
        /\ conn'.channel_read = conn.channel_read /\ conn'.downstream_read = conn.downstream_read
        /\ conn'.upstream_writable_ = conn.upstream_writable_
    BY <1>0, <1>2 DEF Connection
  <1>11. Good(conn') BY <1>0, <1>7, <1>9 DEF Good
  <1>12. UpData(conn') BY <1>6, <1>9 DEF UpData, x, f
  <1>13. UpShape(conn') BY <1>0, <1>9, <1>10 DEF Cons, UpShape
  <1>14. DownData(conn') /\ DownShape(conn') BY <1>0, <1>8, <1>10 DEF Cons, DownData, DownShape, Front, SameDown
  <1>15. UpArm(conn') BY <1>0, <1>9, <1>10 DEF UpArm, Parked, Writable
  <1>16. DownArm(conn') BY <1>0, <1>8, <1>10 DEF DownArm, SameDown
  <1> QED BY <1>11, <1>12, <1>13, <1>14, <1>15, <1>16 DEF Kept, Cons

\* The remote sends its next chunk.
LEMMA RemoteSendsStep ==
  ASSUME RelayInv, remote_sends
  PROVE  Kept(conn')
  <1> DEFINE n == conn.rsent
             i == Append(conn.rin, n + 1)
             x == conn.cout \o conn.downstream_
             f == Front(conn)
  <1>0. /\ Good(conn) /\ Cons(conn) /\ ~conn.closed_ /\ UpArm(conn) /\ DownArm(conn) /\ conn \in Connection
        /\ conn.channel = "connected"
    BY DEF RelayInv, remote_sends, Open, Good
  <1>1. n \in 0 .. MaxRemote /\ n < MaxRemote /\ conn.rin \in Seq(Chunks)
    BY <1>0 DEF remote_sends, Connection
  <1>2. conn' = [conn EXCEPT !.rsent = n + 1, !.rin = i] BY <1>0 DEF remote_sends, Does, Connection
  <1>3. x \in Seq(Chunks) /\ f \in Seq(Chunks)
    BY <1>0, ZeroChunk, Joined DEF Connection, Front
  <1>4. x \o conn.rin = f \o Run(n) BY <1>0 DEF Cons, DownData
  <1>5. n \in Nat /\ n + 1 \in 0 .. MaxRemote BY <1>1, MaxRemoteAssumption
  <1> HIDE DEF n, x, f
  <1>6. x \o i = f \o Run(n + 1) /\ i \in Seq(Chunks) BY <1>1, <1>3, <1>4, <1>5, RunBound, SendMoved
  <1> HIDE DEF i
  <1>7. conn' \in Connection BY <1>0, <1>2, <1>5, <1>6 DEF Connection
  <1>8. SameUp(conn, conn') BY <1>0, <1>2 DEF Connection, SameUp
  <1>9. /\ conn'.cout = conn.cout /\ conn'.downstream_ = conn.downstream_ /\ conn'.reply = conn.reply
        /\ conn'.rin = i /\ conn'.rsent = n + 1
    BY <1>0, <1>2 DEF Connection
  <1>10. /\ conn'.stage = conn.stage /\ conn'.channel = conn.channel
        /\ conn'.channel_write = conn.channel_write /\ conn'.write_inprogress_ = conn.write_inprogress_
        /\ conn'.channel_read = conn.channel_read /\ conn'.downstream_read = conn.downstream_read
        /\ conn'.upstream_writable_ = conn.upstream_writable_
    BY <1>0, <1>2 DEF Connection
  <1>11. Good(conn') BY <1>0, <1>7, <1>8 DEF Good, SameUp
  <1>12. DownData(conn')
    <2>1. Front(conn') = f BY <1>9, <1>10 DEF Front, f
    <2> QED BY <1>6, <1>9, <2>1 DEF DownData, x
  <1>13. DownShape(conn') BY <1>0, <1>9, <1>10 DEF Cons, DownShape
  <1>14. UpData(conn') /\ UpShape(conn') BY <1>0, <1>8, <1>10 DEF Cons, UpData, UpShape, SameUp
  <1>15. UpArm(conn') BY <1>0, <1>8, <1>10 DEF UpArm, Parked, Writable, SameUp
  <1>16. DownArm(conn') BY <1>0, <1>9, <1>10 DEF DownArm
  <1> QED BY <1>11, <1>12, <1>13, <1>14, <1>15, <1>16 DEF Kept, Cons

\* A new connection satisfies the invariant.
LEMMA InitOK == Init => RelayInv
  <1> SUFFICES ASSUME Init PROVE RelayInv OBVIOUS
  <1>0. conn = InitialConnection BY DEF Init
  <1>1. InitialConnection \in Connection
    <2>1. "none" \in Replies /\ "there" \in Peer BY DEF Replies, Peer
    <2>2. 0 \in 0 .. MaxClient /\ 0 \in 0 .. MaxRemote BY MaxClientAssumption, MaxRemoteAssumption
    <2> QED BY <2>1, <2>2, ZeroChunk DEF InitialConnection, Connection
  <1>2. /\ conn.pending_data_ = << >> /\ conn.rout = << >> /\ conn.upstream_ = << >> /\ conn.cin = << >>
        /\ conn.csent = 0 /\ conn.cout = << >> /\ conn.downstream_ = << >> /\ conn.rin = << >> /\ conn.rsent = 0
        /\ conn.reply = "none" /\ conn.stage = "handshake" /\ conn.channel = "none"
        /\ ~conn.channel_write /\ ~conn.write_inprogress_
    BY <1>0 DEF InitialConnection
  <1>3. Len(<< >>) = 0 OBVIOUS
  <1>4. Good(conn) BY <1>0, <1>1, <1>2, <1>3, MaxPendingAssumption DEF Good
  <1>5. Run(0) = << >> BY DEF Run
  <1>6. << >> \o << >> = << >> BY ZeroChunk, Empty
  <1>7. Cons(conn) BY <1>2, <1>5, <1>6 DEF Cons, UpData, UpShape, DownData, DownShape, Header, Front
  <1>8. UpArm(conn) /\ DownArm(conn) BY <1>2 DEF UpArm, Parked, Writable, DownArm
  <1> QED BY <1>4, <1>7, <1>8 DEF RelayInv

\* Every step preserves the invariant: one case per action.
LEMMA StepOK == RelayInv /\ [Next]_vars => RelayInv'
  <1> SUFFICES ASSUME RelayInv, [Next]_vars PROVE RelayInv' OBVIOUS
  <1>0. Kept(conn') => RelayInv' BY DEF Kept, RelayInv, Open
  <1>1. CASE UNCHANGED vars
    BY <1>1 DEF vars, RelayInv, Open
  <1>2. CASE handshake BY <1>0, <1>2, HandshakeStep
  <1>3. CASE handshake_refused BY <1>0, <1>3, RefusedStep
  <1>4. CASE handshake_fails \/ downlink_error
    <2>1. conn' = OnDisconnect(conn) BY <1>4 DEF handshake_fails, downlink_error, Does
    <2> QED BY <1>0, <2>1, OnDisconnectOK DEF RelayInv, Kept
  <1>5. CASE reply_sent BY <1>0, <1>5, ReplySentStep
  <1>6. CASE channel_connected
    <2>1. conn' \in connected(conn) /\ conn.channel = "connecting" /\ ~conn.closed_
      BY <1>6 DEF channel_connected, Does, Open
    <2>2. Good(conn) /\ Cons(conn) /\ UpArm(conn) /\ DownArm(conn) BY <2>1 DEF RelayInv, Open
    <2> QED BY <1>0, <2>1, <2>2, connectedOK
  <1>7. CASE channel_refused BY <1>0, <1>7, ChannelRefusedStep
  <1>8. CASE channel_readable BY <1>0, <1>8, ChannelReadableStep
  <1>9. CASE channel_writable BY <1>0, <1>9, ChannelWritableStep
  <1>10. CASE downlink_readable BY <1>0, <1>10, DownlinkReadableStep
  <1>11. CASE downlink_writable BY <1>0, <1>11, DownlinkWritableStep
  <1>12. CASE client_sends BY <1>0, <1>12, ClientSendsStep
  <1>13. CASE remote_sends BY <1>0, <1>13, RemoteSendsStep
  <1>14. CASE client_ends \/ remote_ends
    <2>1. Open /\ \E p \in Peer : conn' = [conn EXCEPT !.client = p] \/ conn' = [conn EXCEPT !.remote = p]
      BY <1>14 DEF client_ends, remote_ends, Does, Peer
    <2> QED BY <1>0, <2>1, PeerEndsOK
  <1> QED BY <1>1, <1>2, <1>3, <1>4, <1>5, <1>6, <1>7, <1>8, <1>9, <1>10, <1>11, <1>12, <1>13, <1>14 DEF Next

\* The inductive invariant holds of every behaviour of the relay of a client
\* connection (cli_connection.cpp).
THEOREM RelayInvariant == Spec => []RelayInv
  BY InitOK, StepOK, PTL DEF Spec

\* For any number of chunks and any limit of pending_data_: the relay of a
\* client connection keeps what either peer sent, in order and once, behind the
\* header and the reply; pending_data_ keeps within its limit; and data that is
\* buffered, or a side that may send, always has a wait that goes on with it.
THEOREM RelayCorrect == Spec => []DataSafe
  <1>1. RelayInv => DataSafe
    <2> SUFFICES ASSUME RelayInv PROVE DataSafe OBVIOUS
    <2>1. TypeOK BY DEF RelayInv, Good, Connection, TypeOK
    <2>2. UpstreamConserved BY DEF RelayInv, Cons, UpData, Header, UpstreamConserved
    <2>3. DownstreamConserved BY DEF RelayInv, Cons, DownData, Front, DownstreamConserved
    <2>4. UpstreamNeverStalls BY DEF RelayInv, UpArm, UpstreamNeverStalls
    <2>5. DownstreamNeverStalls BY DEF RelayInv, DownArm, DownstreamNeverStalls
    <2> QED BY <2>1, <2>2, <2>3, <2>4, <2>5 DEF DataSafe
  <1> QED BY <1>1, RelayInvariant, PTL
=============================================================================
