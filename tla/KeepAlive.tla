------------------------------ MODULE KeepAlive ------------------------------
(***************************************************************************)
(* Plain HTTP requests one after the other on one connection of the client *)
(* (src/cli/cli_connection.cpp): each is rewritten and sent on, and its    *)
(* body counted, so that the next request is found where it begins; a      *)
(* request for another host ends the channel and begins a new one.         *)
(*                                                                         *)
(* A request is its head, two tokens so that it can be split, and its      *)
(* body; a rewritten head is one token.  A token knows its request, the    *)
(* host it is for and its place in what the application sends.  Every      *)
(* request asks to be kept alive and none is chunked: the others end the   *)
(* handling of requests, and CliConnection relays what follows.            *)
(***************************************************************************)
EXTENDS Naturals, Sequences

CONSTANTS
  Hosts,        \* the hosts asked for
  MaxRequests,  \* bound: requests of the application
  MaxBody,      \* bound: tokens of a body
  SplitHeads,         \* whether a read may end inside a head
  SendsWhileReplaced  \* whether bytes come while the channel to a new host connects

ASSUME RequestsAssumption == MaxRequests \in Nat /\ MaxBody \in Nat

VARIABLE ka

Head1 == 1     \* the halves of a head, a head rewritten, and the body
Head2 == 2
Reforged == 0
Request(place, r, host, body) ==
  [i \in 1 .. 2 + body |->
     [place |-> place + i, request |-> r, host |-> host, body |-> body, part |-> i]]

Prefix(buf, n) == SubSeq(buf, 1, n)
Suffix(buf, n) == SubSeq(buf, n + 1, Len(buf))

KaInit ==
  ka = [ sent |-> << >>, in |-> << >>,       \* what the application sent, and what of it is unread
         closed |-> FALSE,
         reads |-> "request",                \* the first read; "no" until the channel is there; "stream"
         channel |-> "none", host |-> "none", \* request_
         http_is_keep_alive_ |-> FALSE,
         http_keep_alive_remaining_bytes_ |-> 0,
         http_keep_alive_pending_buf_ |-> << >>,
         http_keep_alive_previous_buf_ |-> << >>,
         pending_data_ |-> << >>,
         out |-> << >> ]                     \* what went out, each token with the host it went to

\* The application sends a request, also before the one before it is answered.
AppRequests ==
  /\ \A i \in DOMAIN ka.sent : ka.sent[i].request < MaxRequests
  /\ \E host \in Hosts, body \in 0 .. MaxBody :
       LET r == IF ka.sent = << >> THEN 1 ELSE ka.sent[Len(ka.sent)].request + 1
           request == Request(Len(ka.sent), r, host, body)
       IN ka' = [ka EXCEPT !.sent = @ \o request, !.in = @ \o request]

Parses(buf) == Len(buf) >= 2 /\ buf[1].part = Head1 /\ buf[2].part = Head2

\* Mutant: what follows the body is not put aside.
ParseHttpRequest_unsplit(d, buf) ==
  IF ~Parses(buf)
    THEN [ok |-> FALSE, buf |-> buf,
          conn |-> [d EXCEPT !.http_is_keep_alive_ = FALSE, !.http_keep_alive_remaining_bytes_ = 0]]
    ELSE LET forged == << [buf[1] EXCEPT !.part = Reforged] >> \o Suffix(buf, 2)
             size == 1 + buf[1].body
         IN [ok |-> TRUE, buf |-> forged,
             conn |-> [d EXCEPT !.http_is_keep_alive_ = TRUE,
                        !.http_keep_alive_remaining_bytes_ =
                          IF Len(forged) < size THEN size - Len(forged) ELSE 0]]

\* OnReadHttpRequest forgets what it knew, whether it can parse or not.  What the
\* buffer holds behind the body is put aside; what is missing of the body is
\* counted.
ParseHttpRequest(d, buf) ==
  IF ~Parses(buf)
    THEN [ok |-> FALSE, buf |-> buf,
          conn |-> [d EXCEPT !.http_is_keep_alive_ = FALSE, !.http_keep_alive_remaining_bytes_ = 0]]
    ELSE LET forged == << [buf[1] EXCEPT !.part = Reforged] >> \o Suffix(buf, 2)
             size == 1 + buf[1].body
             short == Len(forged) < size
         IN [ok |-> TRUE,
             buf |-> IF short THEN forged ELSE Prefix(forged, size),
             conn |-> [d EXCEPT !.http_is_keep_alive_ = TRUE,
                        !.http_keep_alive_remaining_bytes_ = IF short THEN size - Len(forged) ELSE 0,
                        !.http_keep_alive_pending_buf_ = IF short THEN @ ELSE Suffix(forged, size)]]

Out(d, buf) == [d EXCEPT !.out = @ \o [i \in 1 .. Len(buf) |-> [to |-> d.host, token |-> buf[i]]]]

\* The first request: ReadMethodSelect, PerformCmdOpsHttp and OnStreamRead.
ReadFirstRequest ==
  /\ ~ka.closed /\ ka.reads = "request"
  /\ \E n \in 1 .. Len(ka.in) :
       LET r == ParseHttpRequest([ka EXCEPT !.in = Suffix(@, n)], Prefix(ka.in, n)) IN
       /\ SplitHeads \/ ka.in[n].part # Head1
       /\ ka' = IF r.ok THEN [r.conn EXCEPT !.reads = "no", !.channel = "connecting",
                                            !.host = r.buf[1].host, !.pending_data_ = r.buf]
                        ELSE [r.conn EXCEPT !.closed = TRUE]

\* The channel is there; what was kept for it goes out.
channel_connected ==
  /\ ka.channel = "connecting"
  /\ ka' = [Out(ka, ka.pending_data_) EXCEPT !.channel = "connected", !.reads = "stream",
                                             !.pending_data_ = << >>]

\* OnReadHttpRequestAfterReuse: the same host, or another, for which the channel
\* is replaced; a request that is not complete is put away.
OnReadHttpRequestAfterReuse(d, buf) ==
  LET r == ParseHttpRequest(d, buf) IN
  IF ~r.ok THEN [r.conn EXCEPT !.http_keep_alive_previous_buf_ = buf]
  ELSE IF r.buf[1].host = d.host THEN Out(r.conn, r.buf)
  ELSE [r.conn EXCEPT !.channel = "connecting", !.host = r.buf[1].host, !.pending_data_ = r.buf]

\* GetNextUpstreamBuf from after_read on, with what the read returned.
AfterRead(d, buf) ==
  LET missing == d.http_keep_alive_remaining_bytes_ IN
  IF d.channel # "connected" THEN [d EXCEPT !.pending_data_ = @ \o buf]
  ELSE IF ~d.http_is_keep_alive_ THEN Out(d, buf)
  ELSE IF missing = 0 THEN OnReadHttpRequestAfterReuse(d, buf)
  ELSE IF missing < Len(buf)
    THEN [Out(d, Prefix(buf, missing)) EXCEPT !.http_keep_alive_pending_buf_ = Suffix(buf, missing),
                                             !.http_keep_alive_remaining_bytes_ = 0]
  ELSE [Out(d, buf) EXCEPT !.http_keep_alive_remaining_bytes_ = missing - Len(buf)]

\* What was put aside comes first; what was put away is read on.
GetNextUpstreamBuf ==
  /\ ~ka.closed /\ ka.reads = "stream"
  /\ SendsWhileReplaced \/ ka.channel = "connected"
  /\ IF ka.http_is_keep_alive_ /\ ka.http_keep_alive_pending_buf_ # << >>
       THEN ka' = AfterRead([ka EXCEPT !.http_keep_alive_pending_buf_ = << >>],
                            ka.http_keep_alive_pending_buf_)
       ELSE \E n \in 1 .. Len(ka.in) :
              LET d == [ka EXCEPT !.in = Suffix(@, n)] IN
              /\ SplitHeads \/ ka.in[n].part # Head1
              /\ ka' = IF ka.http_is_keep_alive_
                         THEN AfterRead([d EXCEPT !.http_keep_alive_previous_buf_ = << >>],
                                        ka.http_keep_alive_previous_buf_ \o Prefix(ka.in, n))
                         ELSE AfterRead(d, Prefix(ka.in, n))

KaNext == AppRequests \/ ReadFirstRequest \/ channel_connected \/ GetNextUpstreamBuf

KaSpec == KaInit /\ [][KaNext]_ka

-----------------------------------------------------------------------------
(* Properties. *)

\* A token as the application sent it, and the place behind it: a rewritten head
\* stands for two tokens.
Original(t) == [t EXCEPT !.part = IF @ = Reforged THEN Head1 ELSE @]
EndOf(t) == t.place + IF t.part = Reforged THEN 2 ELSE 1

\* Every request goes out to its host and with its head rewritten, and none is
\* lost, doubled or out of order: what went out and what is kept and unread
\* are together what the application sent, each token where the one before it
\* ends.  ("use a small number to remind of incomplete request": a request that
\* came in parts is put away and read on.)
RequestsKept ==
  LET under == [i \in 1 .. Len(ka.out) |-> ka.out[i].token] \o ka.pending_data_
               \o ka.http_keep_alive_pending_buf_ \o ka.http_keep_alive_previous_buf_ \o ka.in
      end(i) == IF i = 0 THEN 1 ELSE EndOf(under[i])
  IN /\ \A i \in DOMAIN ka.out : /\ ka.out[i].to = ka.out[i].token.host
                                 /\ ka.out[i].token.part \notin {Head1, Head2}
     /\ ~ka.closed =>
          /\ \A i \in 1 .. Len(under) :
               under[i].place = end(i - 1) /\ Original(under[i]) = ka.sent[under[i].place]
          /\ end(Len(under)) = Len(ka.sent) + 1
=============================================================================
