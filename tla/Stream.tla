------------------------------- MODULE Stream -------------------------------
(***************************************************************************)
(* net::stream (src/net/stream.hpp) and net::ssl_stream                    *)
(* (src/net/ssl_stream.hpp): the upstream side of a connection.  It        *)
(* resolves a name, tries endpoint after endpoint under a connect timer,   *)
(* runs the TLS handshake, and then offers wait_read and wait_write, each  *)
(* of which may first sit out a rate-limit timer.                          *)
(*                                                                         *)
(* An asynchronous operation is armed, then its completion handler becomes *)
(* ready and waits its turn in the io_context.  Cancelling an operation    *)
(* only reaches it while it is armed: the handler then runs with           *)
(* operation_aborted, which every handler here ignores.  A ready handler   *)
(* can no longer be cancelled.  This is where the races are.               *)
(*                                                                         *)
(* The user of the stream (CliConnection, ServerConnection) closes it as   *)
(* soon as it hears of an error, and asks for one read and one write at a  *)
(* time.  A DCHECK that fails is recorded in failed; the code goes on as   *)
(* it does in a release build.                                             *)
(***************************************************************************)
EXTENDS Naturals, Sequences, FiniteSets

CONSTANT Lists  \* the endpoint lists a lookup may give: sequences over EndpointKinds

EndpointKinds == {"plain", "special"}  \* special: unspecified or multicast

ASSUME ListsAssumption == Lists \subseteq Seq(EndpointKinds)

VARIABLES
  tls,                     \* the stream is an ssl_stream; this and the next two stay
  connect_timeout,         \* the flag of that name is not zero
  limit_rate,              \* the flag of that name is not zero
  started,                 \* async_connect was called
  connected_, eof_, closed_,
  user_connect_callback_,  \* the three callbacks: whether they are set
  wait_read_callback_,
  wait_write_callback_,
  endpoints_,
  read_inprogress_, write_inprogress_,
  armed,                   \* the operations under way
  ready,                   \* the completion handlers queued, in order
  writable,                \* the user does not wait for a write (upstream_writable_)
  answer,                  \* what the user heard last
  quit,                    \* the user closed the stream of its own accord
  failed                   \* the DCHECKs that failed

settings == <<tls, connect_timeout, limit_rate>>
connectVars == <<started, connected_, eof_, closed_, user_connect_callback_, endpoints_>>
waitVars == <<wait_read_callback_, wait_write_callback_, read_inprogress_,
              write_inprogress_, writable>>
ghostVars == <<answer, quit, failed>>
vars == <<settings, connectVars, waitVars, armed, ready, ghostVars>>

ConnectOps == {"resolve", "connect", "connect_timer", "handshake", "confirm"}
ReadOps == {"dl_delay_timer", "read_yield_timer", "wait_read"}
WriteOps == {"ul_delay_timer", "wait_write"}
Ops == ConnectOps \union ReadOps \union WriteOps

Running(op) == ready # << >> /\ Head(ready) = op
Handles(op) == Running(op) /\ ready' = Tail(ready) /\ UNCHANGED settings
Queued(op) == Cardinality({i \in DOMAIN ready : ready[i] = op})
Outstanding(op) == (IF op \in armed THEN 1 ELSE 0) + Queued(op)
Fails(site, holds) == IF holds THEN {} ELSE {site}

Init ==
  /\ tls \in BOOLEAN /\ connect_timeout \in BOOLEAN /\ limit_rate \in BOOLEAN
  /\ started = FALSE
  /\ connected_ = FALSE /\ eof_ = FALSE /\ closed_ = FALSE
  /\ user_connect_callback_ = FALSE
  /\ wait_read_callback_ = FALSE /\ wait_write_callback_ = FALSE
  /\ endpoints_ = << >>
  /\ read_inprogress_ = FALSE /\ write_inprogress_ = FALSE
  /\ armed = {} /\ ready = << >>
  /\ writable = FALSE
  /\ answer = "none" /\ quit = FALSE
  /\ failed = {}

\* The reactor: an operation completes, a timer expires.
Complete(op) ==
  /\ op \in armed
  /\ armed' = armed \ {op}
  /\ ready' = Append(ready, op)
  /\ UNCHANGED <<settings, connectVars, waitVars, ghostVars>>

-----------------------------------------------------------------------------
(* Closing, and telling the user. *)

\* close() of a stream that is not closed.  The socket, the timers and the
\* resolver are cancelled: nothing stays armed.
close ==
  /\ closed_' = TRUE /\ connected_' = FALSE /\ eof_' = TRUE
  /\ user_connect_callback_' = FALSE
  /\ wait_read_callback_' = FALSE /\ wait_write_callback_' = FALSE
  /\ armed' = {}

\* The user's disconnected(), told news on a stream that is not closed.
closed_by_user(news) ==
  /\ close
  /\ writable' = FALSE
  /\ answer' = news
  /\ UNCHANGED <<started, endpoints_, read_inprogress_, write_inprogress_>>

\* Mutant: closed_ is set and the user is not told.
give_up_silently ==
  /\ closed_' = TRUE
  /\ UNCHANGED <<user_connect_callback_, connected_, eof_, waitVars, answer>>

\* closed_ = true, then the connect callback with an error.  The close() of
\* the user finds closed_ set and returns.
give_up ==
  /\ closed_' = TRUE
  /\ user_connect_callback_' = FALSE
  /\ answer' = "failed"
  /\ UNCHANGED <<connected_, eof_, waitVars>>

-----------------------------------------------------------------------------
(* Connecting. *)

\* Where a walk over list may stop: at a plain endpoint whose socket opens, or
\* at 0 when no endpoint is left (the open may fail on any).
Stops(list) == {0} \union {i \in DOMAIN list : list[i] = "plain"}

\* on_try_next_endpoint and on_resolve, from list on: they pass over special
\* endpoints and sockets that do not open, and connect to the first that does,
\* under a fresh connect timer; or they give up.  left is what is still armed.
try_next(list, left) ==
  \E i \in Stops(list) :
    IF i = 0
      THEN /\ endpoints_' = << >>
           /\ armed' = left
           /\ give_up
      ELSE /\ endpoints_' = SubSeq(list, i + 1, Len(list))
           /\ armed' = left \union {"connect"} \union
                         (IF connect_timeout THEN {"connect_timer"} ELSE {})
           /\ user_connect_callback_' = (user_connect_callback_ \/ ~started)
           /\ UNCHANGED <<closed_, connected_, eof_, waitVars, answer>>

\* async_connect with port 0, no usable address in host_ips, or a resolver
\* that does not initialize.
async_connect_fails ==
  /\ ~started /\ ~closed_
  /\ started' = TRUE
  /\ give_up
  /\ UNCHANGED <<settings, endpoints_, armed, ready, quit, failed>>

\* async_connect with addresses: host_ips, or an IP literal.
async_connect_addresses ==
  /\ ~started /\ ~closed_
  /\ started' = TRUE
  /\ UNCHANGED ready
  /\ \E list \in Lists : list # << >> /\ try_next(list, armed)
  /\ UNCHANGED <<settings, quit, failed>>

\* async_connect with a name.
async_connect_name ==
  /\ ~started /\ ~closed_
  /\ started' = TRUE
  /\ user_connect_callback_' = TRUE
  /\ armed' = armed \union {"resolve"}
  /\ UNCHANGED <<connected_, eof_, closed_, endpoints_, waitVars, ready, settings,
                 ghostVars>>

\* Mutant: the timer of the attempt that ended runs on.
timer_left_running == armed

\* connect_timer_.cancel()
timer_cancelled == armed \ {"connect_timer"}

\* stream::on_async_connected with an error: the next endpoint, or the end.
connect_failed ==
  IF endpoints_ # << >>
    THEN try_next(endpoints_, timer_cancelled) /\ UNCHANGED started
    ELSE /\ closed_by_user(IF user_connect_callback_ THEN "failed" ELSE answer)

\* stream::on_async_connected without an error; now the user may write.
connect_succeeded(more) ==
  /\ connected_' = TRUE
  /\ armed' = timer_cancelled \union more
  /\ user_connect_callback_' = FALSE
  /\ answer' = IF user_connect_callback_ THEN "connected" ELSE answer
  /\ writable' = TRUE
  /\ UNCHANGED <<started, eof_, closed_, endpoints_, wait_read_callback_,
                 wait_write_callback_, read_inprogress_, write_inprogress_>>

\* A handler that finds the stream closed returns.
closed_return(site) ==
  /\ failed' = failed \union Fails(site, ~user_connect_callback_)
  /\ UNCHANGED <<connectVars, waitVars, armed, answer>>

\* The handler of AsyncResolve.
on_resolved ==
  /\ Handles("resolve")
  /\ UNCHANGED quit
  /\ \/ closed_ /\ closed_return("resolve")
     \/ ~closed_ /\ connect_failed /\ UNCHANGED failed
     \/ /\ ~closed_
        /\ \E list \in Lists : list # << >> /\ try_next(list, armed)
        /\ UNCHANGED <<started, failed>>

\* The handler of socket_.async_connect.  An ssl_stream then shakes hands,
\* still under the connect timer.
on_socket_connected ==
  /\ Handles("connect")
  /\ UNCHANGED quit
  /\ \/ closed_ /\ closed_return("connect")
     \/ ~closed_ /\ connect_failed /\ UNCHANGED failed
     \/ ~closed_ /\ ~tls /\ connect_succeeded({}) /\ UNCHANGED failed
     \/ /\ ~closed_ /\ tls
        /\ armed' = armed \union {"handshake"}
        /\ UNCHANGED <<connectVars, waitVars, answer, failed>>

\* The callback of SSLSocket::Connect.  ConfirmHandshake may answer later, at
\* once, or at once with an error, which closes the stream.
on_handshake ==
  /\ Handles("handshake")
  /\ UNCHANGED quit
  /\ \/ closed_ /\ closed_return("handshake")
     \/ ~closed_ /\ connect_failed /\ UNCHANGED failed
     \/ ~closed_ /\ closed_by_user("lost") /\ UNCHANGED failed
     \/ ~closed_ /\ connect_succeeded({}) /\ UNCHANGED failed
     \/ ~closed_ /\ connect_succeeded({"confirm"}) /\ UNCHANGED failed

\* The callback of ConfirmHandshake.
on_confirm ==
  /\ Handles("confirm")
  /\ UNCHANGED quit
  /\ \/ closed_ /\ closed_return("confirm")
     \/ ~closed_ /\ closed_by_user("lost") /\ UNCHANGED failed
     \/ ~closed_ /\ UNCHANGED <<connectVars, waitVars, armed, answer, failed>>

\* The connect timer.  "Rarely happens, cancel fails but expire still there."
on_async_connect_expired ==
  /\ Handles("connect_timer")
  /\ UNCHANGED quit
  /\ \/ /\ connected_
        /\ failed' = failed \union Fails("expired", ~user_connect_callback_)
        /\ UNCHANGED <<connectVars, waitVars, armed, answer>>
     \/ /\ ~connected_ /\ user_connect_callback_
        /\ closed_by_user("failed")
        /\ UNCHANGED failed
     \/ /\ ~connected_ /\ ~user_connect_callback_
        /\ eof_' = TRUE
        /\ UNCHANGED <<started, connected_, closed_, user_connect_callback_, endpoints_,
                       waitVars, armed, answer, failed>>

-----------------------------------------------------------------------------
(* Waiting for the socket. *)

Usable == connected_ /\ ~closed_

\* wait_read with callback set or not, once read_inprogress_ is false.
wait_read(callback, yield) ==
  /\ failed' = failed \union Fails("wait_read_callback", callback)
  /\ \/ /\ ~Usable
        /\ read_inprogress_' = FALSE /\ wait_read_callback_' = FALSE
        /\ UNCHANGED armed
     \/ /\ Usable
        /\ read_inprogress_' = TRUE /\ wait_read_callback_' = callback
        /\ \E op \in {IF yield THEN "read_yield_timer" ELSE "wait_read"}
                        \union (IF limit_rate THEN {"dl_delay_timer"} ELSE {}) :
              armed' = armed \union {op}
  /\ UNCHANGED <<connectVars, wait_write_callback_, write_inprogress_, writable, answer, quit>>

\* The first DCHECKs of wait_write.
write_checks(callback) ==
  Fails("wait_write_callback", callback) \union Fails("wait_write_inprogress", ~write_inprogress_)

\* wait_write; the wait for the rate limit leaves write_inprogress_ alone, and
\* checks that there is no callback just after it put one there.
wait_write(callback) ==
  /\ \/ /\ ~Usable
        /\ wait_write_callback_' = FALSE
        /\ failed' = failed \union write_checks(callback)
        /\ UNCHANGED <<write_inprogress_, armed>>
     \/ /\ Usable /\ limit_rate
        /\ wait_write_callback_' = callback
        /\ armed' = armed \union {"ul_delay_timer"}
        /\ failed' = failed \union write_checks(callback) \union Fails("ul_delay", ~callback)
        /\ UNCHANGED write_inprogress_
     \/ /\ Usable
        /\ wait_write_callback_' = callback /\ write_inprogress_' = TRUE
        /\ armed' = armed \union {"wait_write"}
        /\ failed' = failed \union write_checks(callback)
  /\ UNCHANGED <<connectVars, wait_read_callback_, read_inprogress_, answer, quit>>

\* The user asks to read: ReadUpstreamAsync, with or without a yield.
ask_read ==
  /\ Usable /\ ~read_inprogress_
  /\ \E yield \in BOOLEAN : wait_read(TRUE, yield)
  /\ UNCHANGED <<ready, settings>>

\* The user asks to write: OnUpstreamWriteFlush, which clears its flag.
ask_write ==
  /\ Usable /\ writable
  /\ writable' = FALSE
  /\ wait_write(TRUE)
  /\ UNCHANGED <<ready, settings>>

\* The handler of dl_delay_timer: it does not look whether the stream is closed.
on_dl_delay ==
  /\ Handles("dl_delay_timer")
  /\ wait_read(wait_read_callback_, FALSE)

\* Mutant: read_inprogress_ is not reset.
on_read_yield_busy ==
  /\ Handles("read_yield_timer")
  /\ wait_read_callback_' = FALSE
  /\ UNCHANGED <<connectVars, wait_write_callback_, read_inprogress_, write_inprogress_,
                 writable, armed, ghostVars>>

\* The handler of read_yield_timer_.
on_read_yield ==
  /\ Handles("read_yield_timer")
  /\ \/ Usable /\ wait_read(wait_read_callback_, FALSE)
     \/ /\ ~Usable
        /\ read_inprogress_' = FALSE /\ wait_read_callback_' = FALSE
        /\ failed' = failed \union Fails("yield", ~user_connect_callback_)
        /\ UNCHANGED <<connectVars, wait_write_callback_, write_inprogress_, writable, armed,
                       answer, quit>>

\* The socket is readable: the user's callback, if it is still wanted.
on_readable ==
  /\ Handles("wait_read")
  /\ read_inprogress_' = FALSE /\ wait_read_callback_' = FALSE
  /\ failed' = failed \union (IF Usable THEN {} ELSE Fails("readable", ~user_connect_callback_))
  /\ UNCHANGED <<connectVars, wait_write_callback_, write_inprogress_, writable, armed, answer,
                 quit>>

\* The handler of ul_delay_timer.
on_ul_delay ==
  /\ Handles("ul_delay_timer")
  /\ wait_write(wait_write_callback_)
  /\ UNCHANGED writable

\* The socket is writable: the user's callback, sent(), sets its flag again.
on_writable ==
  /\ Handles("wait_write")
  /\ write_inprogress_' = FALSE /\ wait_write_callback_' = FALSE
  /\ writable' = (writable \/ (Usable /\ wait_write_callback_))
  /\ failed' = failed \union (IF Usable THEN {} ELSE Fails("writable", ~user_connect_callback_))
  /\ UNCHANGED <<connectVars, wait_read_callback_, read_inprogress_, armed, answer, quit>>

\* read_some or write_some meets a hard error: channel->disconnected.
io_error ==
  /\ Usable
  /\ closed_by_user("lost")
  /\ UNCHANGED <<ready, settings, quit, failed>>

\* The connection that owns the stream closes.
owner_closes ==
  /\ started /\ ~closed_
  /\ quit' = TRUE
  /\ closed_by_user(answer)
  /\ UNCHANGED <<ready, settings, failed>>

-----------------------------------------------------------------------------
Handler ==
  \/ on_resolved \/ on_socket_connected \/ on_handshake \/ on_confirm
  \/ on_async_connect_expired \/ on_dl_delay \/ on_read_yield \/ on_readable
  \/ on_ul_delay \/ on_writable

Next ==
  \/ async_connect_fails \/ async_connect_addresses \/ async_connect_name
  \/ Handler
  \/ ask_read \/ ask_write \/ io_error \/ owner_closes
  \/ \E op \in Ops : Complete(op)

Spec == Init /\ [][Next]_vars

\* The io_context keeps running ready handlers; the resolver, the kernel's
\* connect and the TLS handshake come to an end, as timers do.
Fairness ==
  /\ WF_vars(Handler)
  /\ \A op \in ConnectOps \union {"dl_delay_timer", "ul_delay_timer", "read_yield_timer"} :
       WF_vars(Complete(op))

FairSpec == Spec /\ Fairness

-----------------------------------------------------------------------------
(* Properties. *)

\* Type invariant of the stream; endpoints_ is what is left of a lookup behind
\* the endpoint being tried.
TypeOK ==
  /\ tls \in BOOLEAN /\ connect_timeout \in BOOLEAN /\ limit_rate \in BOOLEAN
  /\ started \in BOOLEAN /\ connected_ \in BOOLEAN /\ eof_ \in BOOLEAN
  /\ closed_ \in BOOLEAN /\ user_connect_callback_ \in BOOLEAN
  /\ wait_read_callback_ \in BOOLEAN /\ wait_write_callback_ \in BOOLEAN
  /\ endpoints_ = << >> \/ \E list \in Lists : \E i \in 2 .. Len(list) :
                            endpoints_ = SubSeq(list, i, Len(list))
  /\ read_inprogress_ \in BOOLEAN /\ write_inprogress_ \in BOOLEAN
  /\ armed \subseteq Ops /\ ready \in Seq(Ops)
  /\ writable \in BOOLEAN /\ quit \in BOOLEAN
  /\ answer \in {"none", "connected", "failed", "lost"}

\* A stream that is open has exactly one way on for a reader that waits, and
\* none when nobody waits: read_inprogress_ neither sticks nor lies, through
\* every chain of delay timer, yield timer and socket wait.
ReaderContinues ==
  ~closed_ =>
    Outstanding("dl_delay_timer") + Outstanding("read_yield_timer") + Outstanding("wait_read")
      = IF read_inprogress_ THEN 1 ELSE 0

\* A user that waits to write (its flag is down) has exactly one operation
\* that will call it back, the rate limit's timer or the socket's wait.
WriterContinues ==
  Usable =>
    /\ Outstanding("ul_delay_timer") + Outstanding("wait_write") = IF writable THEN 0 ELSE 1
    /\ ~writable => wait_write_callback_

\* A stream marked eof is not connected: CliConnection::OnStreamWrite shuts
\* the downlink of an eof channel, which an expiry that comes after the
\* connection was made must not bring about.
EofMeansGone == eof_ => ~connected_

\* A closed stream has nothing armed, by whatever path it was closed: no
\* timer or lookup holds a reference to it, or fires into it, later on.
ClosedIsQuiet == closed_ => armed = {}

\* The DCHECKs on user_connect_callback_ in the handlers that meet a closed
\* or already connected stream.
ConnectCallbackSpent ==
  failed \intersect {"resolve", "connect", "handshake", "confirm", "expired", "yield",
                     "readable", "writable"} = {}

\* wait_write is never entered with a write under way (its first DCHECK),
\* though the wait for the rate limit does not set write_inprogress_.
OneWriter == "wait_write_inprogress" \notin failed

\* Every async_connect is answered: the user hears of success or failure,
\* unless it closed the stream itself.
ConnectAnswered == started ~> (answer # "none" \/ quit)

\* Nobody who waits is forgotten: a reader and a writer have one way on each,
\* through rate limit, yield and socket, and a writer asks once.
WaitersContinue == ReaderContinues /\ WriterContinues /\ OneWriter

\* However a stream ends, in a timeout, an error or a close, nothing fires
\* into it later, its connect callback is spent, and eof means that it is gone.
EndsClean == TypeOK /\ ClosedIsQuiet /\ ConnectCallbackSpent /\ EofMeansGone
=============================================================================
