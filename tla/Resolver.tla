------------------------------ MODULE Resolver ------------------------------
(***************************************************************************)
(* The resolvers of host names (src/net/resolver.cpp) and their back ends: *)
(* DNS over HTTPS or TLS (DoHResolver and DoTResolver, which are the same  *)
(* code twice, with their requests), c-ares, and the C library's resolver  *)
(* as asio runs it.  One user looks names up, as the code's users do: a    *)
(* stream once, which it may close meanwhile; a client connection once for *)
(* every destination, resetting the resolver with each answer; the client  *)
(* instance one name after the other, running its io_context to the end    *)
(* each time.                                                              *)
(*                                                                         *)
(* A timer, a lookup of the C library and a posted handler that is due can *)
(* no longer be cancelled (asio), so its handler may run after anything    *)
(* else.  A DNS server may answer wrongly, late or never.                  *)
(***************************************************************************)
EXTENDS Naturals, Sequences, FiniteSets

CONSTANTS
  Users,      \* a subset of {"stream", "connection", "client"}
  BackEnds,   \* a subset of {"doh", "cares", "libc"}
  MaxLookups  \* bound: lookups of one user

ASSUME ResolverAssumption ==
  /\ Users \subseteq {"stream", "connection", "client"}
  /\ BackEnds \subseteq {"doh", "cares", "libc"}
  /\ MaxLookups \in Nat

VARIABLE rs

Families == {"A", "AAAA"}
Names == {"name", "localhost", "invalid"}
NoLookup == 0

\* The members of DoHResolver and of CAresResolver.
NewResolver ==
  [ done_ |-> TRUE, cb_ |-> NoLookup, expired_ |-> FALSE, timer |-> NoLookup,
    endpoints_ |-> FALSE, bootstrap |-> "none", reqs_ |-> << >>, addrinfo_ |-> << >>,
    contexts |-> << >> ]

InitialResolver(user, backend, v6) ==
  [ user |-> user, backend |-> backend, ipv6works |-> v6, closed |-> FALSE, crashed |-> FALSE,
    resolver_inited_ |-> FALSE, held |-> FALSE, o |-> NewResolver, name |-> "name",
    requests |-> << >>,                   \* every DoHRequest made
    lookups |-> 0, libc |-> NoLookup, posted |-> << >>, due |-> {},
    expired |-> {}, dup_failed |-> FALSE, misplaced |-> FALSE, answers |-> << >> ]

ResolverInit == rs \in {InitialResolver(u, b, v6) : u \in Users, b \in BackEnds, v6 \in BOOLEAN}

-----------------------------------------------------------------------------
(* The answer, and what the users do with it. *)

\* ResolverImpl::Reset lets go of the back end, which lives on while its
\* handlers do.
Reset(r) == [r EXCEPT !.held = FALSE]

\* The callbacks: a connection resets its resolver, whatever the answer.
Answered(r, n, ec, results) ==
  LET t == [r EXCEPT !.answers = Append(@, [n |-> n, ec |-> ec, results |-> results,
                                            closed |-> r.closed])]
  IN IF r.user = "connection" THEN Reset(t) ELSE t

-----------------------------------------------------------------------------
(* DNS over HTTPS or TLS. *)

CancelTimer(r) == [r EXCEPT !.o.timer = NoLookup]
CloseRequests(r, ids) ==
  [r EXCEPT !.requests = [i \in DOMAIN @ |->
     IF \E k \in DOMAIN ids : ids[k] = i THEN [@[i] EXCEPT !.cb_ = FALSE, !.stage = "closed"] ELSE @[i]]]

\* Mutant: the addresses are not taken out of the member.
OnDoRequestDone_keeps(r, ec) ==
  LET t == IF ec = "ok" THEN r ELSE CloseRequests([r EXCEPT !.o.reqs_ = << >>], r.o.reqs_)
      d == CancelTimer([t EXCEPT !.o.done_ = TRUE, !.o.cb_ = NoLookup])
      results == t.o.addrinfo_
  IN IF t.o.reqs_ # << >> \/ t.o.done_ THEN t
     ELSE IF t.o.cb_ = NoLookup THEN d
     ELSE Answered(d, t.o.cb_, IF ec = "ok" /\ results = << >> THEN "error" ELSE ec, results)

\* An error ends the lookup at once; otherwise the last request does.
OnDoRequestDone(r, ec) ==
  LET t == IF ec = "ok" THEN r ELSE CloseRequests([r EXCEPT !.o.reqs_ = << >>], r.o.reqs_)
      d == CancelTimer([t EXCEPT !.o.done_ = TRUE, !.o.addrinfo_ = << >>, !.o.cb_ = NoLookup])
      results == t.o.addrinfo_
  IN IF t.o.reqs_ # << >> \/ t.o.done_ THEN t
     ELSE IF t.o.cb_ = NoLookup THEN d
     ELSE Answered(d, t.o.cb_, IF ec = "ok" /\ results = << >> THEN "error" ELSE ec, results)

\* The DCHECKs that a request is where it was put in reqs_.
OnDoRequestDoneA(r, id, ec, addrinfo) ==
  IF r.o.reqs_ = << >> \/ Head(r.o.reqs_) # id THEN [r EXCEPT !.misplaced = TRUE]
  ELSE OnDoRequestDone([r EXCEPT !.o.addrinfo_ = addrinfo \o @, !.o.reqs_ = Tail(@)], ec)

OnDoRequestDoneAAAA(r, id, ec, addrinfo) ==
  LET n == Len(r.o.reqs_) IN
  IF n = 0 \/ r.o.reqs_[n] # id THEN [r EXCEPT !.misplaced = TRUE]
  ELSE OnDoRequestDone([r EXCEPT !.o.addrinfo_ = @ \o addrinfo, !.o.reqs_ = SubSeq(@, 1, n - 1)], ec)

\* DoHRequest::OnDoneRequest: the callback is moved out, so it runs once.
OnDoneRequest(r, id, ec, addrinfo) ==
  LET t == [r EXCEPT !.requests[id].cb_ = FALSE, !.requests[id].stage = "done"] IN
  IF ~r.requests[id].cb_ THEN t
  ELSE IF r.requests[id].family = "A" THEN OnDoRequestDoneA(t, id, ec, addrinfo)
  ELSE OnDoRequestDoneAAAA(t, id, ec, addrinfo)

\* DoHRequest::DoRequest, with what it may finish at once: a name that cannot
\* be encoded, a socket that cannot be opened.
Requested(r, family) ==
  LET id == Len(r.requests) + 1
      t == [r EXCEPT !.o.reqs_ = Append(@, id), !.requests = Append(@,
              [family |-> family, n |-> r.lookups, cb_ |-> TRUE,
               stage |-> IF r.name = "localhost" THEN "posted" ELSE "connecting"])]
      failed == OnDoneRequest(t, id, "error", << >>)
  IN CASE r.name = "localhost" -> {t}
       [] r.name = "invalid" -> {failed}
       [] r.name = "name" -> {t, failed}

DoRequest(r) ==
  UNION {IF t.ipv6works THEN Requested(t, "AAAA") ELSE {t} : t \in Requested(r, "A")}

\* response_parser::parse, of an answer by the kinds of its records: every
\* record must be one that was asked for or may come with it.
Responses == {[qr |-> qr, complete |-> TRUE, records |-> rr] :
                 qr \in {0, 1}, rr \in { << >>, <<"A">>, <<"CNAME", "AAAA">>, <<"OTHER">>}}
parse(response) ==
  IF response.qr # 1 THEN "bad"
  ELSE IF \E i \in DOMAIN response.records :
            response.records[i] \notin {"A", "AAAA", "CNAME", "DNAME"} THEN "indeterminate"
  ELSE "good"

\* addrinfo_dup keeps the addresses of one family.
addrinfo_dup(family, response, n) ==
  LET kept == {i \in DOMAIN response.records : response.records[i] = family}
  IN [i \in 1 .. Cardinality(kept) |-> <<family, n>>]

\* A request goes on: connected, then the TLS handshake, then the answer in
\* parts.  The head of the answer must come in one part.
NextStage == [connecting |-> "handshaking", handshaking |-> "header", header |-> "body"]
RequestGoesOn(id) ==
  /\ rs.requests[id].stage \in DOMAIN NextStage
  /\ rs' = [rs EXCEPT !.requests[id].stage = NextStage[@]]

RequestFails(id) ==
  /\ rs.requests[id].stage \in DOMAIN NextStage \cup {"body"}
  /\ rs' = OnDoneRequest(rs, id, "error", << >>)

OnParseDnsResponse(id) ==
  /\ rs.requests[id].stage = "body"
  /\ \E response \in Responses :
       LET q == rs.requests[id]
           good == parse(response) = "good"
       IN rs' = OnDoneRequest(rs, id, IF good THEN "ok" ELSE "error",
                              IF good THEN addrinfo_dup(q.family, response, q.n) ELSE << >>)

addrinfo_loopback(id) ==
  /\ rs.requests[id].stage = "posted"
  /\ rs' = OnDoneRequest(rs, id, "ok", << <<rs.requests[id].family, rs.requests[id].n>> >>)

\* Mutant: the timer is started only where the server is looked up.
DoHAsyncResolve_untimed(r) ==
  LET t == [r EXCEPT !.o.cb_ = r.lookups, !.o.done_ = FALSE] IN
  IF r.o.endpoints_ THEN DoRequest(t)
  ELSE DoRequest([t EXCEPT !.o.endpoints_ = TRUE]) \cup
       {[t EXCEPT !.o.bootstrap = "waiting", !.o.timer = r.lookups]}

\* DoHResolver::AsyncResolve: the address of the DNS server is kept, is in the
\* URL, or is to be looked up first.
DoHAsyncResolve(r) ==
  LET t == [r EXCEPT !.o.cb_ = r.lookups, !.o.done_ = FALSE, !.o.timer = r.lookups] IN
  IF r.o.endpoints_ THEN DoRequest(t)
  ELSE DoRequest([t EXCEPT !.o.endpoints_ = TRUE]) \cup {[t EXCEPT !.o.bootstrap = "waiting"]}

\* The C library takes the lookup up; from here on it cannot be cancelled.
BootstrapRuns ==
  /\ rs.o.bootstrap = "waiting"
  /\ rs' = [rs EXCEPT !.o.bootstrap = "running"]

OnBootstrap ==
  /\ rs.o.bootstrap = "running"
  /\ LET t == [rs EXCEPT !.o.bootstrap = "none"] IN
     \/ rs' = OnDoRequestDone(t, "error")
     \/ rs' \in DoRequest([t EXCEPT !.o.endpoints_ = TRUE])

\* DoHResolver::Cancel
DoHCancel(r) ==
  LET t == CloseRequests([r EXCEPT !.o.reqs_ = << >>], r.o.reqs_)
  IN [t EXCEPT !.o.cb_ = NoLookup, !.o.timer = NoLookup, !.o.addrinfo_ = << >>,
               !.o.bootstrap = IF @ = "waiting" THEN "none" ELSE @]

-----------------------------------------------------------------------------
(* c-ares. *)

\* The answers are posted.  What was cancelled is not answered, unless by the timer.
OnAsyncResolve(r, status) ==
  LET ec == IF status # "ok" /\ r.o.expired_ THEN "timed_out" ELSE status
      t == CancelTimer([r EXCEPT !.o.done_ = TRUE, !.o.cb_ = NoLookup])
      results == IF ec = "ok" THEN << <<"A", r.o.cb_>> >> ELSE << >>
  IN IF ec = "cancelled" THEN t
     ELSE [t EXCEPT !.posted = Append(@, [n |-> r.o.cb_, ec |-> ec, results |-> results])]

\* OnSockState, when c-ares is done with its sockets: the waits end by themselves.
CloseSockets(r) ==
  [r EXCEPT !.o.contexts = [i \in DOMAIN @ |-> [@[i] EXCEPT !.enabled = FALSE]]]

AresCancel(r) ==
  IF r.o.done_ THEN r ELSE OnAsyncResolve(CancelTimer(CloseSockets(r)), "cancelled")

\* OnSockState for a new socket: its descriptor is duplicated to wait for it.
OpenSocket(r) ==
  { [r EXCEPT !.o.contexts = Append(@, [enabled |-> TRUE, waits |-> 1])],
    AresCancel([r EXCEPT !.dup_failed = TRUE]) }

\* CAresResolver::AsyncResolve and WaitTimer: the answer may be there at once.
CAresAsyncResolve(r) ==
  LET t == [r EXCEPT !.o.done_ = FALSE, !.o.expired_ = FALSE, !.o.cb_ = r.lookups]
      Timed(x) == IF x.o.done_ THEN x ELSE [x EXCEPT !.o.timer = r.lookups]
  IN {OnAsyncResolve(t, "error")} \cup
     (IF r.name = "invalid" THEN {} ELSE {OnAsyncResolve(t, "ok")} \cup {Timed(x) : x \in OpenSocket(t)})

\* The handlers of WaitRead and WaitWrite: ares_process_fd may finish the lookup,
\* turn to another server, or neither.
OnSocketReady(i) ==
  /\ rs.o.contexts[i].waits > 0
  /\ LET t == [rs EXCEPT !.o.contexts[i].waits = @ - 1]
         Again(x) == IF x.o.contexts[i].enabled THEN [x EXCEPT !.o.contexts[i].waits = @ + 1] ELSE x
     IN IF ~t.o.contexts[i].enabled THEN rs' = t
        ELSE \/ \E status \in {"ok", "error"} : rs' = Again(OnAsyncResolve(CloseSockets(t), status))
             \/ i = 1 /\ rs' \in {Again(x) : x \in OpenSocket(CloseSockets(t))}

\* asio::post of the answer.
PostedAnswer ==
  /\ rs.posted # << >>
  /\ LET a == Head(rs.posted)
     IN rs' = Answered([rs EXCEPT !.posted = Tail(@)], a.n, a.ec, a.results)

-----------------------------------------------------------------------------
(* The timer of both, and the C library. *)

TimerExpires ==
  /\ rs.o.timer # NoLookup
  /\ rs' = [rs EXCEPT !.o.timer = NoLookup, !.due = @ \cup {rs.o.timer}, !.expired = @ \cup {rs.o.timer}]

OnTimer == \E n \in rs.due :
  LET t == [rs EXCEPT !.due = @ \ {n}] IN
  rs' = IF rs.o.done_ THEN t
        ELSE IF rs.backend = "doh" THEN OnDoRequestDone(t, "timed_out")
        ELSE AresCancel([t EXCEPT !.o.expired_ = TRUE])

LibcAnswers ==
  /\ rs.libc # NoLookup
  /\ \E ec \in {"ok", "error"} :
       rs' = Answered([rs EXCEPT !.libc = NoLookup], rs.libc, ec,
                      IF ec = "ok" THEN << <<"A", rs.libc>> >> ELSE << >>)

-----------------------------------------------------------------------------
(* ResolverImpl and its users. *)

\* ResolverImpl::AsyncResolve: without a DoH resolver there is no other way.
AsyncResolve(r) ==
  CASE r.backend = "doh" -> IF r.held THEN DoHAsyncResolve(r) ELSE {[r EXCEPT !.crashed = TRUE]}
    [] r.backend = "cares" /\ r.held -> CAresAsyncResolve(r)
    [] OTHER -> {[r EXCEPT !.libc = r.lookups]}

\* ResolverImpl::Cancel
Cancel(r) ==
  CASE r.held /\ r.backend = "doh" -> {DoHCancel(r)}
    [] r.held /\ r.backend = "cares" -> {AresCancel(r)}
    [] OTHER -> {r, [r EXCEPT !.libc = NoLookup]}

\* ResolverImpl::Init makes the back end anew.
InitResolver(r) ==
  [r EXCEPT !.resolver_inited_ = TRUE, !.held = r.backend # "libc", !.o = NewResolver]

Pending == rs.lookups > Len(rs.answers)

\* Nothing is left for the io_context to run.
RunReturns ==
  /\ rs.o.timer = NoLookup /\ rs.due = {} /\ rs.o.bootstrap = "none" /\ rs.libc = NoLookup
  /\ rs.posted = << >>
  /\ \A i \in DOMAIN rs.requests : rs.requests[i].stage \in {"done", "closed"}
  /\ \A i \in DOMAIN rs.o.contexts : rs.o.contexts[i].waits = 0

Succeeded == IF rs.answers = << >> THEN TRUE ELSE rs.answers[Len(rs.answers)].ec = "ok"

\* Which of the users calls Init, and when: the client when it starts, a
\* connection the first time, a stream always.
ResolveAddress ==
  /\ rs.user = "client" /\ ~Pending /\ RunReturns
  /\ \E name \in Names :
       LET t == [rs EXCEPT !.lookups = @ + 1, !.name = name]
       IN rs' \in AsyncResolve(IF Succeeded /\ rs.held THEN t ELSE InitResolver(t))

OnCmdConnect ==
  /\ rs.user = "connection" /\ ~Pending /\ Succeeded /\ ~rs.closed
  /\ \E name \in Names :
       LET t == [rs EXCEPT !.lookups = @ + 1, !.name = name]
       IN rs' \in AsyncResolve(IF rs.resolver_inited_ THEN t ELSE InitResolver(t))

async_connect ==
  /\ rs.user = "stream" /\ rs.lookups = 0 /\ ~rs.closed
  /\ \E name \in Names :
       rs' \in AsyncResolve(InitResolver([rs EXCEPT !.lookups = 1, !.name = name]))

close ==
  /\ ~rs.closed
  /\ \/ rs.user = "stream" /\ rs' \in Cancel([rs EXCEPT !.closed = TRUE])
     \/ rs.user = "connection" /\ rs' = Reset([rs EXCEPT !.closed = TRUE])

Lookup ==
  /\ ~rs.crashed /\ rs.lookups < MaxLookups
  /\ ResolveAddress \/ OnCmdConnect \/ async_connect

Server == \E id \in DOMAIN rs.requests :
  RequestGoesOn(id) \/ RequestFails(id) \/ OnParseDnsResponse(id)

Handlers ==
  \/ BootstrapRuns \/ OnBootstrap \/ PostedAnswer \/ TimerExpires \/ OnTimer \/ LibcAnswers
  \/ \E id \in DOMAIN rs.requests : addrinfo_loopback(id)

Sockets == \E i \in DOMAIN rs.o.contexts : OnSocketReady(i)

ResolverNext == Lookup \/ close \/ Server \/ Handlers \/ Sockets

ResolverSpec == ResolverInit /\ [][ResolverNext]_rs

\* Timers expire and the io_context runs what is due; a DNS server owes nothing.
ResolverFairness == WF_rs(Handlers)

-----------------------------------------------------------------------------
(* Properties. *)

\* A lookup is answered once, with the addresses of the name that was looked
\* up and those of IPv4 first ("ipv4 address comes first"), and as timed out
\* only if its own time was up.  Once the user of DoHResolver has cancelled,
\* nothing is answered.  A request that ends is where OnDoRequestDoneA and
\* OnDoRequestDoneAAAA take one out of reqs_, so that the right one goes.
AnswersRight == ~rs.misplaced /\ \A i \in DOMAIN rs.answers :
  LET a == rs.answers[i] IN
  /\ \A k \in DOMAIN rs.answers : rs.answers[k].n = a.n => k = i
  /\ \A k \in DOMAIN a.results : a.results[k][2] = a.n
  /\ \A j, k \in DOMAIN a.results : j < k /\ a.results[j][1] = "AAAA" => a.results[k][1] = "AAAA"
  /\ a.ec = "timed_out" => a.n \in rs.expired
  /\ a.closed => ~(rs.user = "stream" /\ rs.backend = "doh")

\* A lookup somebody waits for; not one of c-ares whose socket could not be
\* duplicated, which is never answered.
Unanswered == Pending /\ ~rs.closed /\ ~rs.crashed /\ ~rs.dup_failed
\* A lookup is answered although the DNS server may never answer, or its user
\* is gone.  As no user starts a lookup before the answer to the one before,
\* the answer is its own.
LookupsEnd == Unanswered ~> ~Unanswered

\* The resolver is there when it is used.
InitBeforeUse == ~rs.crashed
=============================================================================
