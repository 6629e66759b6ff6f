----------------------------- MODULE TlsSockets -----------------------------
(***************************************************************************)
(* net::SSLSocket (src/net/ssl_socket.cpp) and net::SSLServerSocket        *)
(* (src/net/ssl_server_socket.cpp): the two ends of a TLS connection, each *)
(* a state machine around the calls of the TLS library, over a byte stream *)
(* that holds a few records.  The users of the sockets are ssl_stream and  *)
(* its channel on the client and SSLDownlink and its connection on the     *)
(* server: they close on an error or at the end of the stream, and the     *)
(* server answers every record of the client with one of its own.          *)
(*                                                                         *)
(* A world w holds both sockets (s), the records under way to each (in),   *)
(* the handlers queued at each (q) and the client's cached sessions.       *)
(* Handlers run to the end: each is an operator from worlds to worlds.  An *)
(* operation is armed on a socket, queued when the socket is ready, and    *)
(* run in its turn; by then another handler may have taken the record.     *)
(***************************************************************************)
EXTENDS Naturals, Sequences

CONSTANTS
  Capacity,      \* bound: records the stream holds each way
  Requests,      \* bound: records the client sends
  Greetings      \* records the server sends of its own accord (HTTP/2 SETTINGS)

ASSUME TlsAssumption ==
  Capacity \in Nat \ {0, 1} /\ Requests \in Nat /\ Greetings \in Nat

Ends == {"client", "server"}
Peer(e) == IF e = "client" THEN "server" ELSE "client"

VARIABLES
  w,             \* the world
  policy,        \* the server's: "accept", "reject_early" or "refuse" a ClientHello
  early_enabled  \* tls13_early_data

vars == <<w, policy, early_enabled>>

Records == {"hello", "hello_early", "flight", "flight_rejecting", "alert", "finished", "ticket",
            "data", "close_notify", "fin"}
Handlers == {"OnReadReady", "OnWriteReady", "OnWaitRead", "OnWaitWrite", "DoPeek"}
ReadOps == {"OnReadReady", "OnWaitRead"}
WriteOps == {"OnWriteReady", "OnWaitWrite"}

\* A socket.  The first group is the socket object, the second the library's
\* SSL, the third its user.
NewSocket(greetings) ==
  [next_handshake_state_ |-> "NONE", completed |-> FALSE, in_confirm_handshake_ |-> FALSE,
   user_callback |-> "none",             \* "connect", "confirm"
   wait_read_callback_ |-> FALSE, wait_write_callback_ |-> FALSE,
   wait_shutdown_callback_ |-> FALSE, disconnected_ |-> FALSE,
   handled_early_data_result_ |-> FALSE, peek_complete_ |-> FALSE,
   reading |-> << >>, writing |-> << >>, \* operations waiting for the socket, in order
   ssl |-> "before",                     \* "waiting", "early", "finishing", "up", "rejected", "failed"
   held |-> FALSE,                       \* a record was read ahead by SSL_peek
   sent_shutdown |-> FALSE, received_shutdown |-> FALSE,
   started |-> FALSE, connected |-> FALSE, to_send |-> greetings, sent |-> 0, got |-> 0,
   shut |-> FALSE]

Init ==
  /\ policy \in {"accept", "reject_early", "refuse"}
  /\ early_enabled \in BOOLEAN
  /\ \E cached \in 0 .. 2 :
       w = [s |-> [e \in Ends |-> NewSocket(IF e = "client" THEN Requests ELSE Greetings)],
            in |-> [e \in Ends |-> << >>], q |-> [e \in Ends |-> << >>],
            cached |-> cached,           \* sessions in the cache that allow early data
            offered |-> FALSE]           \* one was taken for this connection

-----------------------------------------------------------------------------
(* The byte stream. *)

Set(v, e, field, value) == [v EXCEPT !.s[e] = [@ EXCEPT ![field] = value]]
Room(v, e) == v.s[Peer(e)].disconnected_ \/ Len(v.in[Peer(e)]) < Capacity
Send(v, e, record) ==
  IF v.s[Peer(e)].disconnected_ THEN v ELSE [v EXCEPT !.in[Peer(e)] = Append(@, record)]
Taken(v, e, n) == [v EXCEPT !.in[e] = SubSeq(@, n + 1, Len(@))]
Arm(v, e, op) ==
  IF op \in ReadOps THEN [v EXCEPT !.s[e].reading = Append(@, op)]
                    ELSE [v EXCEPT !.s[e].writing = Append(@, op)]
Closed(v, e) == v.s[e].disconnected_

\* The reactor: the socket is readable (writable), and every operation that
\* waits for that is queued.
Readable(e) ==
  /\ w.in[e] # << >> /\ w.s[e].reading # << >>
  /\ w' = [w EXCEPT !.q[e] = @ \o w.s[e].reading, !.s[e].reading = << >>]
  /\ UNCHANGED <<policy, early_enabled>>
Writable(e) ==
  /\ Room(w, e) /\ w.s[e].writing # << >>
  /\ w' = [w EXCEPT !.q[e] = @ \o w.s[e].writing, !.s[e].writing = << >>]
  /\ UNCHANGED <<policy, early_enabled>>

-----------------------------------------------------------------------------
(* The TLS library, external: what the calls below give as used by the     *)
(* sockets.  Each returns a world and a result.                            *)

Result(v, r) == [v |-> v, r |-> r]
Fail(v, e, r) == Result(Set(v, e, "ssl", "failed"), r)

ClientHandshake(v) ==
  LET ssl == v.s["client"].ssl
      in == v.in["client"]
      Finish(u) == IF Room(u, "client")
                     THEN Result(Set(Send(u, "client", "finished"), "client", "ssl", "up"), "ok")
                     ELSE Result(Set(u, "client", "ssl", "finishing"), "want_write")
  IN CASE ssl = "up" -> Result(v, "ok")
       [] ssl = "failed" -> Result(v, "error")
       [] ssl = "rejected" -> Result(v, "early_data_rejected")
       [] ssl = "finishing" -> Finish(v)
       [] ssl = "before" ->
            IF v.offered
              THEN Result(Set(Send(v, "client", "hello_early"), "client", "ssl", "early"), "ok")
              ELSE Result(Set(Send(v, "client", "hello"), "client", "ssl", "waiting"), "want_read")
       [] ssl \in {"waiting", "early"} /\ in = << >> -> Result(v, "want_read")
       [] ssl \in {"waiting", "early"} /\ in # << >> ->
            CASE Head(in) = "flight" -> Finish(Taken(v, "client", 1))
              [] Head(in) = "flight_rejecting" ->
                   Result(Set(Taken(v, "client", 1), "client", "ssl", "rejected"),
                          "early_data_rejected")
              [] OTHER -> Fail(v, "client", "error")

ServerHandshake(v) ==
  LET ssl == v.s["server"].ssl
      in == v.in["server"]
      Flight(record, state) == Set(Send(Taken(v, "server", 1), "server", record), "server", "ssl", state)
  IN CASE ssl \in {"up", "early"} -> Result(v, "ok")
       [] ssl = "failed" -> Result(v, "error")
       [] ssl \in {"before", "waiting"} /\ in = << >> -> Result(v, "want_read")
       [] ssl = "before" /\ in # << >> ->
            IF Head(in) = "fin" THEN Fail(v, "server", "error")
            ELSE IF policy = "refuse" THEN Result(Flight("alert", "failed"), "error")
            ELSE IF Head(in) = "hello" THEN Result(Flight("flight", "waiting"), "want_read")
            ELSE IF Head(in) = "hello_early" /\ policy = "accept"
            THEN Result(Send(Flight("flight", "early"), "server", "ticket"), "ok")
            ELSE Result(Flight("flight_rejecting", "waiting"), "want_read")
       [] ssl = "waiting" /\ in # << >> ->
            CASE Head(in) = "finished" ->
                   Result(Set(Send(Taken(v, "server", 1), "server", "ticket"), "server", "ssl", "up"), "ok")
              [] Head(in) = "data" -> Result(Taken(v, "server", 1), "want_read")  \* early data, skipped
              [] OTHER -> Fail(v, "server", "error")

SSL_do_handshake(v, e) == IF e = "client" THEN ClientHandshake(v) ELSE ServerHandshake(v)

\* How many records SSL_read passes over: tickets, and the end of a handshake
\* whose early data the server was reading.
Passed(v, e, over) ==
  CHOOSE n \in 0 .. Len(v.in[e]) :
    /\ \A i \in 1 .. n : v.in[e][i] \in over
    /\ n < Len(v.in[e]) => v.in[e][n + 1] \notin over

\* The client's callback for a new session: it goes into the cache.
NewSessionCallback(v) == [v EXCEPT !.cached = IF early_enabled /\ @ < 2 THEN @ + 1 ELSE @]

Pass(v, e, over) ==
  LET n == Passed(v, e, over)
      finished == \E i \in 1 .. n : v.in[e][i] = "finished"
      ticket == \E i \in 1 .. n : v.in[e][i] = "ticket"
      u == IF ticket THEN NewSessionCallback(Taken(v, e, n)) ELSE Taken(v, e, n)
  IN IF finished THEN Set(u, e, "ssl", "up") ELSE u

\* SSL_read, or SSL_peek, of an SSL whose handshake is done.
ReadRecord(v, e, peek) ==
  LET u == Pass(v, e, {"ticket", "finished"})
  IN CASE v.s[e].held -> Result(Set(v, e, "held", peek), "data")
       [] ~v.s[e].held /\ v.s[e].received_shutdown -> Result(v, "zero_return")
       [] ~v.s[e].held /\ ~v.s[e].received_shutdown ->
            CASE u.in[e] = << >> -> Result(u, "want_read")
              [] u.in[e] # << >> /\ Head(u.in[e]) = "data" ->
                   Result(Set(Taken(u, e, 1), e, "held", peek), "data")
              [] u.in[e] # << >> /\ Head(u.in[e]) = "close_notify" ->
                   Result(Set(Taken(u, e, 1), e, "received_shutdown", TRUE), "zero_return")
              [] OTHER -> Result(u, "syscall")

SSL_read(v, e, peek) ==
  LET h == SSL_do_handshake(v, e)
  IN IF h.r = "ok" THEN ReadRecord(h.v, e, peek) ELSE h

SSL_write(v, e) ==
  LET early == v.s[e].ssl = "early"
      h == IF early THEN Result(v, "ok") ELSE SSL_do_handshake(v, e)
  IN CASE h.r # "ok" -> h
       [] h.r = "ok" /\ ~Room(h.v, e) -> Result(h.v, "want_write")
       [] h.r = "ok" /\ Room(h.v, e) -> Result(Send(h.v, e, "data"), "ok")

\* SSL_shutdown: first it sends close_notify, then it reads on for the peer's,
\* and discards the data that comes before it.
SSL_shutdown(v, e) ==
  LET u == Set(Pass(v, e, {"ticket", "finished", "data"}), e, "held", FALSE)
  IN CASE ~v.s[e].sent_shutdown /\ ~Room(v, e) -> Result(v, "want_write")
       [] ~v.s[e].sent_shutdown /\ Room(v, e) ->
            Result(Set(Send(v, e, "close_notify"), e, "sent_shutdown", TRUE),
                   IF v.s[e].received_shutdown THEN "done" ELSE "again")
       [] v.s[e].sent_shutdown /\ v.s[e].received_shutdown -> Result(v, "done")
       [] v.s[e].sent_shutdown /\ ~v.s[e].received_shutdown ->
            CASE u.in[e] = << >> -> Result(u, "want_read")
              [] u.in[e] # << >> /\ Head(u.in[e]) = "close_notify" ->
                   Result(Set(Taken(u, e, 1), e, "received_shutdown", TRUE), "done")
              [] OTHER -> Result(u, "syscall")
SSL_in_init(v, e) == v.s[e].ssl # "up"
Pending(r) == r \in {"want_read", "want_write"}

-----------------------------------------------------------------------------
(* What both socket classes share, function by function. *)

\* Disconnect: the callbacks are released and the socket is closed; what was
\* armed ends with operation_aborted, on which every handler returns.
Disconnect(v, e) ==
  IF Closed(v, e) THEN v ELSE
  [Send(v, e, "fin") EXCEPT
     !.s[e] = [@ EXCEPT !.disconnected_ = TRUE, !.user_callback = "none",
                        !.wait_read_callback_ = FALSE, !.wait_write_callback_ = FALSE,
                        !.wait_shutdown_callback_ = FALSE,
                        !.reading = << >>, !.writing = << >>],
     !.in[e] = << >>]

\* The end of DoHandshakeLoop while the handshake is pending.
ArmHandshake(v, e, r) == Arm(v, e, IF r = "want_read" THEN "OnReadReady" ELSE "OnWriteReady")

\* A wait that a reader or a writer has already begun serves the shutdown too.
WaitShutdown(v, e, r) ==
  IF r = "want_read"
    THEN IF v.s[e].wait_read_callback_ THEN v ELSE Arm(v, e, "OnWaitRead")
    ELSE IF v.s[e].wait_write_callback_ THEN v ELSE Arm(v, e, "OnWaitWrite")

\* Mutant: the shutdown that waits does not arm anything.
Shutdown_unarmed(v, e) ==
  LET first == SSL_shutdown(v, e)
      last == IF first.r = "again" THEN SSL_shutdown(first.v, e) ELSE first
  IN IF SSL_in_init(v, e) \/ ~Pending(last.r) THEN last.v
     ELSE Set(last.v, e, "wait_shutdown_callback_", TRUE)

\* Shutdown(callback): two tries, then a wait for the socket.  Its user does
\* nothing when it is told that the shutdown ended well.
Shutdown(v, e) ==
  LET first == SSL_shutdown(v, e)
      last == IF first.r = "again" THEN SSL_shutdown(first.v, e) ELSE first
  IN IF SSL_in_init(v, e) THEN v
     ELSE IF ~Pending(last.r) THEN last.v
     ELSE WaitShutdown(Set(last.v, e, "wait_shutdown_callback_", TRUE), e, last.r)

OnDoWaitShutdown(v, e) == Shutdown(Set(v, e, "wait_shutdown_callback_", FALSE), e)

\* WaitRead and WaitWrite, of a socket that is open.
WaitRead(v, e) == Arm(Set(v, e, "wait_read_callback_", TRUE), e, "OnWaitRead")
WaitWrite(v, e) == Arm(Set(v, e, "wait_write_callback_", TRUE), e, "OnWaitWrite")

\* MapOpenSSLErrorWithDetails; an SSL error is one of several net errors.
MapOpenSSLErrorWithDetails(r) ==
  CASE Pending(r) -> "ERR_IO_PENDING"
    [] r = "early_data_rejected" -> "ERR_EARLY_DATA_REJECTED"
    [] r = "syscall" -> "ERR_FAILED"
    [] OTHER -> "ERR_SSL_PROTOCOL_ERROR"

\* SSLSocket::DoPayloadRead.  The error it defers is always returned at once:
\* its loop ends with the first bytes read.
DoPayloadRead(v) ==
  LET x == SSL_read(v, "client", FALSE)
  IN Result(x.v, CASE x.r = "data" -> "bytes"
                   [] x.r = "zero_return" -> "0"
                   [] OTHER -> MapOpenSSLErrorWithDetails(x.r))

\* SSLServerSocket::DoPayloadRead: SSL_read gives 0 also when the stream ended
\* without close_notify.
ServerDoPayloadRead(v) ==
  LET x == SSL_read(v, "server", FALSE)
  IN Result(x.v, CASE x.r = "data" -> "bytes"
                   [] x.r \in {"zero_return", "syscall"} -> "0"
                   [] OTHER -> MapOpenSSLErrorWithDetails(x.r))

\* Read: a result becomes an asio error code.
ReadError(rv) ==
  CASE rv = "bytes" -> "ok"
    [] rv = "0" -> "eof"
    [] rv = "ERR_IO_PENDING" -> "try_again"
    [] OTHER -> "connection_refused"

\* DoPayloadWrite of both classes, and the error code that Write makes of it.
DoPayloadWrite(v, e) ==
  LET x == SSL_write(v, e)
  IN Result(x.v, IF x.r = "ok" THEN "ok" ELSE MapOpenSSLErrorWithDetails(x.r))
WriteError(rv) ==
  CASE rv = "ok" -> "ok"
    [] rv = "ERR_IO_PENDING" -> "try_again"
    [] OTHER -> "connection_refused"

\* The user writes, and waits or closes as the outcome tells it.
UserWrites(v, e) ==
  LET x == DoPayloadWrite(v, e)
      ec == WriteError(x.r)
  IN CASE ec = "ok" -> [x.v EXCEPT !.s[e].to_send = @ - 1, !.s[e].sent = @ + 1]
       [] ec = "try_again" -> WaitWrite(x.v, e)
       [] OTHER -> Disconnect(x.v, e)

\* The user reads; at the end of the stream and on an error it closes.
UserReads(v, e) ==
  LET x == IF e = "client" THEN DoPayloadRead(v) ELSE ServerDoPayloadRead(v)
      ec == ReadError(x.r)
  IN CASE ec = "ok" ->
            [x.v EXCEPT !.s[e].got = @ + 1,
                        !.s[e].to_send = IF e = "server" /\ ~v.s[e].shut THEN @ + 1 ELSE @]
       [] ec = "try_again" -> x.v
       [] OTHER -> Disconnect(x.v, e)

\* OnWaitRead and OnWaitWrite without an error.
OnWaitRead(v, e) ==
  LET u == IF v.s[e].wait_shutdown_callback_ THEN OnDoWaitShutdown(v, e) ELSE v
  IN CASE Closed(v, e) -> v
       [] ~Closed(v, e) /\ u.s[e].wait_read_callback_ ->
            UserReads(Set(u, e, "wait_read_callback_", FALSE), e)
       [] OTHER -> u
OnWaitWrite(v, e) ==
  LET u == IF v.s[e].wait_shutdown_callback_ THEN OnDoWaitShutdown(v, e) ELSE v
  IN CASE Closed(v, e) -> v
       [] ~Closed(v, e) /\ u.s[e].wait_write_callback_ ->
            UserWrites(Set(u, e, "wait_write_callback_", FALSE), e)
       [] OTHER -> u

-----------------------------------------------------------------------------
(* SSLSocket: the client. *)

NoEarlyData(v) == [v EXCEPT !.cached = 0]

\* DoPeek: runs the handshake of a 0-RTT attempt to its end, then reads ahead.
DoPeek(v) ==
  LET c == v.s["client"]
      first == early_enabled /\ ~c.handled_early_data_result_
      h == IF first THEN ClientHandshake(v) ELSE Result(v, "ok")
      cleared == IF h.r = "early_data_rejected" THEN NoEarlyData(h.v) ELSE h.v
      u == IF first THEN Set(cleared, "client", "handled_early_data_result_", TRUE) ELSE v
      p == SSL_read(u, "client", TRUE)
  IN IF c.disconnected_ \/ ~c.completed THEN v
     ELSE IF first /\ Pending(h.r) THEN h.v
     ELSE IF first /\ h.r # "ok" THEN Set(u, "client", "peek_complete_", TRUE)
     ELSE IF c.peek_complete_ THEN u
     ELSE IF Pending(p.r) THEN p.v ELSE Set(p.v, "client", "peek_complete_", TRUE)

\* DoHandshake and DoHandshakeComplete, run by DoHandshakeLoop.  The first
\* handshake that completes posts DoPeek.
DoHandshakeLoop(v) ==
  LET x == ClientHandshake(v)
      idle == Set(x.v, "client", "next_handshake_state_", "NONE")
  IN CASE Pending(x.r) ->
            Result(ArmHandshake(Set(x.v, "client", "next_handshake_state_", "HANDSHAKE"), "client", x.r), x.r)
       [] x.r = "ok" /\ ~v.s["client"].in_confirm_handshake_ ->
            Result([Set(idle, "client", "completed", TRUE) EXCEPT !.q["client"] = Append(@, "DoPeek")], "ok")
       [] OTHER -> Result(idle, x.r)

\* ConfirmHandshake, with the callback of ssl_stream, which closes on an error.
ConfirmHandshake(v) ==
  LET x == DoHandshakeLoop(Set(v, "client", "in_confirm_handshake_", TRUE))
      done == Set(x.v, "client", "in_confirm_handshake_", FALSE)
  IN CASE v.s["client"].ssl # "early" -> v
       [] v.s["client"].ssl = "early" /\ Pending(x.r) -> Set(x.v, "client", "user_callback", "confirm")
       [] OTHER -> IF x.r = "ok" THEN done ELSE Disconnect(done, "client")

\* The constructor: it takes a session from the cache and sets the SSL up.
SSLSocket(v) ==
  LET offered == early_enabled /\ v.cached > 0
  IN [v EXCEPT !.offered = offered, !.cached = IF offered THEN @ - 1 ELSE @]

\* ssl_stream's callback of Connect: it confirms, and if that did not close the
\* stream the channel hears that it is connected.
on_connected(v, r) ==
  LET u == ConfirmHandshake(v)
  IN CASE r # "ok" -> Disconnect(v, "client")
       [] r = "ok" /\ Closed(u, "client") -> u
       [] OTHER -> Set(u, "client", "connected", TRUE)

Connect(v) ==
  LET x == DoHandshakeLoop(v)
  IN IF Pending(x.r) THEN Set(x.v, "client", "user_callback", "connect") ELSE on_connected(x.v, x.r)

\* OnHandshakeIOComplete and DoConnectCallback.
OnHandshakeIOComplete(v) ==
  LET x == DoHandshakeLoop(v)
      callback == v.s["client"].user_callback
      u == Set(Set(x.v, "client", "in_confirm_handshake_", FALSE), "client", "user_callback", "none")
  IN CASE Pending(x.r) -> x.v
       [] ~Pending(x.r) /\ callback = "connect" -> on_connected(u, x.r)
       [] ~Pending(x.r) /\ callback = "confirm" -> IF x.r = "ok" THEN u ELSE Disconnect(u, "client")
       [] OTHER -> u

\* OnReadReady and OnWriteReady are RetryAllOperations.
RetryAllOperations(v) ==
  CASE Closed(v, "client") -> v
    [] ~Closed(v, "client") /\ v.s["client"].next_handshake_state_ = "HANDSHAKE" ->
         DoPeek(OnHandshakeIOComplete(v))
    [] OTHER -> DoPeek(v)

-----------------------------------------------------------------------------
(* SSLServerSocket. *)

\* Mutant: a pending handshake leaves STATE_HANDSHAKE.
ServerHandshakeLoop_none(v) ==
  LET x == ServerHandshake(v)
  IN IF Pending(x.r)
       THEN Result(ArmHandshake(Set(x.v, "server", "next_handshake_state_", "NONE"), "server", x.r), x.r)
       ELSE Result([Set(x.v, "server", "next_handshake_state_", "NONE") EXCEPT
                      !.s["server"].completed = (x.r = "ok")], x.r)

\* DoHandshake, run by DoHandshakeLoop.
ServerHandshakeLoop(v) ==
  LET x == ServerHandshake(v)
  IN IF Pending(x.r)
       THEN Result(ArmHandshake(Set(x.v, "server", "next_handshake_state_", "HANDSHAKE"), "server", x.r), x.r)
       ELSE Result([Set(x.v, "server", "next_handshake_state_", "NONE") EXCEPT
                      !.s["server"].completed = (x.r = "ok")], x.r)

\* SSLDownlink's callback; the connection closes when the handshake failed.
on_handshake(v, r) ==
  IF r = "ok" THEN Set(v, "server", "connected", TRUE) ELSE Disconnect(v, "server")

Handshake(v) ==
  LET x == ServerHandshakeLoop(v)
  IN IF Pending(x.r) THEN Set(x.v, "server", "user_callback", "connect") ELSE on_handshake(x.v, x.r)

ServerOnHandshakeIOComplete(v) ==
  LET x == ServerHandshakeLoop(v)
      u == Set(x.v, "server", "user_callback", "none")
  IN IF Pending(x.r) THEN x.v ELSE on_handshake(u, x.r)

\* OnReadReady and OnWriteReady of the server.
ServerReady(v) ==
  IF Closed(v, "server") \/ v.s["server"].next_handshake_state_ # "HANDSHAKE"
    THEN v ELSE ServerOnHandshakeIOComplete(v)

-----------------------------------------------------------------------------
(* Actions. *)

Frame == UNCHANGED <<policy, early_enabled>>
Running(e, handler) == w.q[e] # << >> /\ Head(w.q[e]) = handler
Left(e) == [w EXCEPT !.q[e] = Tail(@)]
Usable(e) == w.s[e].connected /\ ~Closed(w, e)

client_connects ==
  /\ ~w.s["client"].started /\ ~Closed(w, "client")
  /\ w' = Connect(SSLSocket(Set(w, "client", "started", TRUE)))
  /\ Frame

server_accepts ==
  /\ ~w.s["server"].started /\ ~Closed(w, "server")
  /\ w' = Handshake(Set(w, "server", "started", TRUE))
  /\ Frame

run_ready(e) ==
  /\ \E handler \in {"OnReadReady", "OnWriteReady"} : Running(e, handler)
  /\ w' = IF e = "client" THEN RetryAllOperations(Left(e)) ELSE ServerReady(Left(e))
  /\ Frame

run_wait_read(e) == Running(e, "OnWaitRead") /\ w' = OnWaitRead(Left(e), e) /\ Frame
run_wait_write(e) == Running(e, "OnWaitWrite") /\ w' = OnWaitWrite(Left(e), e) /\ Frame
run_peek == Running("client", "DoPeek") /\ w' = DoPeek(Left("client")) /\ Frame

\* The users.  After a shutdown the server's user sends no more.
user_reads(e) == Usable(e) /\ ~w.s[e].wait_read_callback_ /\ w' = WaitRead(w, e) /\ Frame
user_writes(e) ==
  /\ Usable(e) /\ ~w.s[e].wait_write_callback_ /\ w.s[e].to_send > 0 /\ ~w.s[e].shut
  /\ w' = UserWrites(w, e)
  /\ Frame
user_shuts_down ==
  /\ Usable("server") /\ ~w.s["server"].shut /\ w.s["server"].to_send = 0
  /\ w' = Shutdown(Set(w, "server", "shut", TRUE), "server")
  /\ Frame
\* A timeout, an error elsewhere, the end of the program.
user_closes(e) == ~Closed(w, e) /\ w' = Disconnect(w, e) /\ Frame

\* What an end does without being told to close or to shut down.
Steps(e) ==
  \/ e = "client" /\ (client_connects \/ run_peek)
  \/ e = "server" /\ server_accepts
  \/ Readable(e) \/ Writable(e)
  \/ run_ready(e) \/ run_wait_read(e) \/ run_wait_write(e)
  \/ user_reads(e) \/ user_writes(e)

Next ==
  \/ user_shuts_down
  \/ \E e \in Ends : Steps(e) \/ user_closes(e)

\* When Steps(e) has something to do.
Able(e) ==
  \/ ~w.s[e].started /\ ~Closed(w, e)
  \/ w.q[e] # << >>
  \/ w.in[e] # << >> /\ w.s[e].reading # << >>
  \/ Room(w, e) /\ w.s[e].writing # << >>
  \/ /\ Usable(e)
     /\ \/ ~w.s[e].wait_read_callback_
        \/ ~w.s[e].wait_write_callback_ /\ w.s[e].to_send > 0 /\ ~w.s[e].shut

\* The io_context of each end polls its socket and runs its handlers, and the
\* users keep reading and send what they have; nobody need close.  This is
\* weak fairness of Steps(e), with the condition that enables it spelled out.
Fairness == \A e \in Ends : []<>~Able(e) \/ []<><<Steps(e)>>_vars

Spec == Init /\ [][Next]_vars /\ Fairness

-----------------------------------------------------------------------------
(* Properties. *)

Among(s) == {s[i] : i \in DOMAIN s}
Armed(e) == Among(w.s[e].reading) \union Among(w.s[e].writing)

\* Type invariant of the two sockets, the byte stream and the queues.
TypeOK ==
  /\ \A e \in Ends :
       /\ Len(w.in[e]) <= Capacity + 3 /\ Among(w.in[e]) \subseteq Records
       /\ Among(w.q[e]) \subseteq Handlers /\ Armed(e) \subseteq ReadOps \union WriteOps
       /\ w.s[e].next_handshake_state_ \in {"NONE", "HANDSHAKE"}
       /\ w.s[e].user_callback \in {"none", "connect", "confirm"}
       /\ w.s[e].to_send \in 0 .. Requests + Greetings
  /\ w.cached \in 0 .. 2

\* A callback kept by an open socket has an operation that will run it, armed
\* or queued: the connect callback a handshake wait, and each wait callback a
\* wait of its kind.  The callback of a shutdown may instead rely on a user
\* who is about to wait again: Shutdown arms nothing while a wait_read
\* callback is set, and OnWaitRead releases that callback after the shutdown
\* was retried.
CallbacksWillRun ==
  \A e \in Ends :
    LET s == w.s[e]
        Waits(op) == op \in Armed(e) \union Among(w.q[e])
    IN /\ s.user_callback # "none" => Waits("OnReadReady") \/ Waits("OnWriteReady")
       /\ s.user_callback # "none" => s.next_handshake_state_ = "HANDSHAKE"
       /\ s.wait_read_callback_ => Waits("OnWaitRead")
       /\ s.wait_write_callback_ => Waits("OnWaitWrite")
       /\ s.wait_shutdown_callback_ =>
            Waits("OnWaitRead") \/ Waits("OnWaitWrite") \/ (s.connected /\ ~s.wait_read_callback_)
       /\ s.disconnected_ =>
            s.user_callback = "none" /\ ~s.wait_read_callback_ /\ ~s.wait_write_callback_
              /\ ~s.wait_shutdown_callback_

\* No callback of either socket is kept without an operation under way that
\* will run it.
SocketsSound == TypeOK /\ CallbacksWillRun

\* DoPeek took the end of the connection from the socket, and told nobody.
TakenAhead ==
  /\ w.s["client"].peek_complete_
  /\ w.s["client"].ssl = "rejected" \/ w.s["client"].received_shutdown

\* Shutdown found the handshake unfinished (the server was still reading early
\* data), reported success and sent no close_notify.
ShutUnsaid ==
  w.s["server"].shut /\ ~w.s["server"].sent_shutdown /\ ~w.s["server"].wait_shutdown_callback_

\* Every connection gets somewhere: in the end one of the ends has closed (a
\* shutdown of the server leads there, since the client reads close_notify),
\* or the client has read an answer to everything it sent, though DoPeek may
\* have read a record ahead and left the socket empty.  The exceptions are an
\* end of the connection that DoPeek itself takes from the socket, and a
\* shutdown that comes while the server reads early data.
Settles ==
  <>[](\/ \E e \in Ends : Closed(w, e)
       \/ /\ ~w.s["server"].shut
          /\ w.s["client"].sent = Requests /\ w.s["client"].got >= Requests
       \/ TakenAhead \/ ShutUnsaid)
=============================================================================
