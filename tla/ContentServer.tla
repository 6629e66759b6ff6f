---------------------------- MODULE ContentServer ----------------------------
(***************************************************************************)
(* net::ContentServer (src/net/content_server.hpp) in its default build    *)
(* (no HAVE_TBB): the listeners, the accept loop with its limit on open    *)
(* connections, the map of connections, and the two ways to end,           *)
(* shutdown() and stop().  One thread runs the io_context: a posted task   *)
(* or the completion of an asynchronous operation runs to its end before   *)
(* the next; posted tasks run in the order they were posted.               *)
(*                                                                         *)
(* A connection is seen from outside: it is accepted, its posted start()   *)
(* opens it, and it closes by itself or because the server closes it.      *)
(***************************************************************************)
EXTENDS Naturals, Sequences, FiniteSets

CONSTANTS
  MaxListeners,    \* MAX_LISTEN_ADDRESSES
  MaxConnections,  \* bound: connections accepted in a behaviour
  MaxRequests,     \* bound: calls of shutdown() and stop() in a behaviour
  parallel_max     \* the flag of that name

ASSUME MaxListenersAssumption == MaxListeners \in Nat \ {0}
ASSUME MaxConnectionsAssumption == MaxConnections \in Nat
ASSUME MaxRequestsAssumption == MaxRequests \in Nat
ASSUME ParallelMaxAssumption == parallel_max \in Nat

VARIABLES
  acceptor,            \* acceptor[l]: "none", "open" or "reset" (closed and freed)
  accepting,           \* accepting[l]: async_accept calls under way on it
  next_listen_ctx_,    \* listeners 0 .. next_listen_ctx_ - 1 are listening
  pending_next_listen_ctxes_,  \* the listeners parked at the limit
  in_shutdown_,
  next_connection_id_,
  connection_map_,     \* the ids in the map
  opened_connections_,
  conn,                \* conn[c]: life of connection c
  work_guard_,         \* it is set
  tasks,               \* what was posted to the io_context and has not run
  requests,            \* calls of shutdown() and stop() so far
  stopped,             \* the task of stop() has run
  returned             \* io_context.run() has returned

listenVars == <<acceptor, accepting, next_listen_ctx_, pending_next_listen_ctxes_>>
connVars == <<next_connection_id_, connection_map_, opened_connections_, conn>>
endVars == <<in_shutdown_, work_guard_, requests, stopped, returned>>
vars == <<listenVars, connVars, endVars, tasks>>

Listeners == 0 .. MaxListeners - 1
Connections == 1 .. MaxConnections

AcceptTask(l) == [op |-> "accept", arg |-> l]
StartTask(c) == [op |-> "start", arg |-> c]
ShutdownTask == [op |-> "shutdown", arg |-> 0]
StopTask == [op |-> "stop", arg |-> 0]
ResetGuardTask == [op |-> "reset_guard", arg |-> 0]

Tasks == [op : {"accept"}, arg : Listeners] \union [op : {"start"}, arg : Connections]
           \union {ShutdownTask, StopTask, ResetGuardTask}

Live(c) == conn[c] = "open"

Init ==
  /\ acceptor = [l \in Listeners |-> "none"]
  /\ accepting = [l \in Listeners |-> 0]
  /\ next_listen_ctx_ = 0
  /\ pending_next_listen_ctxes_ = << >>
  /\ in_shutdown_ = FALSE
  /\ next_connection_id_ = 1
  /\ connection_map_ = {}
  /\ opened_connections_ = 0
  /\ conn = [c \in Connections |-> "none"]
  /\ work_guard_ = TRUE
  /\ tasks = << >>
  /\ requests = 0
  /\ stopped = FALSE
  /\ returned = FALSE

-----------------------------------------------------------------------------
(* Calls from the owner of the server. *)

\* What shutdown() and stop() begin with.
close_acceptors ==
  /\ acceptor' = [l \in Listeners |-> IF l < next_listen_ctx_ THEN "reset" ELSE acceptor[l]]
  /\ pending_next_listen_ctxes_' = << >>
  /\ in_shutdown_' = TRUE
  /\ UNCHANGED <<accepting, next_listen_ctx_>>

\* listen() succeeds and posts the first accept of the listener.  Its owners
\* listen before they ask the server to end.
listen ==
  /\ ~returned /\ requests = 0
  /\ next_listen_ctx_ < MaxListeners
  /\ acceptor' = [acceptor EXCEPT ![next_listen_ctx_] = "open"]
  /\ next_listen_ctx_' = next_listen_ctx_ + 1
  /\ tasks' = Append(tasks, AcceptTask(next_listen_ctx_))
  /\ UNCHANGED <<accepting, pending_next_listen_ctxes_, connVars, endVars>>

\* listen() fails after the acceptor was made: the slot is not taken.
listen_fails ==
  /\ ~returned /\ requests = 0
  /\ next_listen_ctx_ < MaxListeners
  /\ acceptor' = [acceptor EXCEPT ![next_listen_ctx_] = "open"]
  /\ UNCHANGED <<accepting, next_listen_ctx_, pending_next_listen_ctxes_, connVars,
                 endVars, tasks>>

\* Mutant: shutdown() does its work in the caller instead of posting it.
shutdown_inline ==
  /\ ~returned /\ requests < MaxRequests
  /\ requests' = requests + 1
  /\ close_acceptors
  /\ work_guard_' = (work_guard_ /\ opened_connections_ # 0)
  /\ UNCHANGED <<connVars, stopped, returned, tasks>>

\* shutdown() and stop() only post a task.
shutdown ==
  /\ ~returned /\ requests < MaxRequests
  /\ requests' = requests + 1
  /\ tasks' = Append(tasks, ShutdownTask)
  /\ UNCHANGED <<listenVars, connVars, in_shutdown_, work_guard_, stopped, returned>>

stop ==
  /\ ~returned /\ requests < MaxRequests
  /\ requests' = requests + 1
  /\ tasks' = Append(tasks, StopTask)
  /\ UNCHANGED <<listenVars, connVars, in_shutdown_, work_guard_, stopped, returned>>

-----------------------------------------------------------------------------
(* Completions of async_accept. *)

\* The tail of on_async_accept: park the listener at the limit, or accept the
\* next connection (one async_accept has ended, another begins).
accept_more(l) ==
  IF opened_connections_' >= parallel_max
    THEN /\ pending_next_listen_ctxes_' = Append(pending_next_listen_ctxes_, l)
         /\ accepting' = [accepting EXCEPT ![l] = @ - 1]
    ELSE UNCHANGED <<pending_next_listen_ctxes_, accepting>>

\* Mutant: the counter is not incremented.
on_accept_uncounted(c) ==
  /\ connection_map_' = connection_map_ \union {c}
  /\ conn' = [conn EXCEPT ![c] = "accepted"]
  /\ tasks' = Append(tasks, StartTask(c))
  /\ UNCHANGED opened_connections_

\* on_accept: the connection enters the map, its start() is posted.
on_accept(c) ==
  /\ connection_map_' = connection_map_ \union {c}
  /\ opened_connections_' = opened_connections_ + 1
  /\ conn' = [conn EXCEPT ![c] = "accepted"]
  /\ tasks' = Append(tasks, StartTask(c))

\* A connection was accepted on an open listener of a running server.
on_async_accept(l) ==
  /\ accepting[l] > 0
  /\ acceptor[l] = "open" /\ ~in_shutdown_
  /\ next_connection_id_ <= MaxConnections
  /\ next_connection_id_' = next_connection_id_ + 1
  /\ on_accept(next_connection_id_)
  /\ accept_more(l)
  /\ UNCHANGED <<acceptor, next_listen_ctx_, endVars>>

\* The handler that finds its acceptor reset or the server in shutdown: the
\* operation was aborted, or "acceptor->close might return success as well".
accept_cancelled(l) ==
  /\ accepting[l] > 0
  /\ acceptor[l] = "reset" \/ in_shutdown_
  /\ accepting' = [accepting EXCEPT ![l] = @ - 1]
  /\ UNCHANGED <<acceptor, next_listen_ctx_, pending_next_listen_ctxes_, connVars,
                 endVars, tasks>>

\* The handler with any other error: the listener accepts no more.
accept_error(l) ==
  /\ accepting[l] > 0
  /\ acceptor[l] = "open" /\ ~in_shutdown_
  /\ accepting' = [accepting EXCEPT ![l] = @ - 1]
  /\ work_guard_' = FALSE
  /\ UNCHANGED <<acceptor, next_listen_ctx_, pending_next_listen_ctxes_, connVars,
                 in_shutdown_, requests, stopped, returned, tasks>>

-----------------------------------------------------------------------------
(* The end of a connection. *)

\* Mutant: the parked listeners wake on the condition that parked them.
resume_at_limit ==
  IF opened_connections_' >= parallel_max
    THEN /\ pending_next_listen_ctxes_' = << >>
         /\ accepting' = [l \in Listeners |-> accepting[l] +
              Cardinality({i \in DOMAIN pending_next_listen_ctxes_ :
                             pending_next_listen_ctxes_[i] = l})]
    ELSE UNCHANGED <<pending_next_listen_ctxes_, accepting>>

\* Every parked listener accepts again.
resume_pending ==
  /\ pending_next_listen_ctxes_' = << >>
  /\ accepting' = [l \in Listeners |-> accepting[l] +
       Cardinality({i \in DOMAIN pending_next_listen_ctxes_ :
                      pending_next_listen_ctxes_[i] = l})]

\* Mutant: the guard is not released when the last connection leaves.
release_never == UNCHANGED tasks

\* The last connection of a server in shutdown posts the release of the guard.
release_when_drained ==
  tasks' = IF in_shutdown_ /\ opened_connections_' = 0
             THEN Append(tasks, ResetGuardTask) ELSE tasks

\* Connection c closes: its disconnect callback is on_disconnect.
on_disconnect(c) ==
  /\ Live(c)
  /\ conn' = [conn EXCEPT ![c] = "closed"]
  /\ connection_map_' = connection_map_ \ {c}
  /\ opened_connections_' =
       IF c \in connection_map_ THEN opened_connections_ - 1 ELSE opened_connections_
  /\ release_when_drained
  /\ resume_pending
  /\ UNCHANGED <<acceptor, next_listen_ctx_, next_connection_id_, endVars>>

-----------------------------------------------------------------------------
(* The posted tasks. *)

Running(op) == tasks # << >> /\ Head(tasks).op = op
Arg == Head(tasks).arg

run_accept ==
  /\ Running("accept")
  /\ acceptor[Arg] = "open"
  /\ tasks' = Tail(tasks)
  /\ accepting' = [accepting EXCEPT ![Arg] = @ + 1]
  /\ UNCHANGED <<acceptor, next_listen_ctx_, pending_next_listen_ctxes_, connVars, endVars>>

run_start ==
  /\ Running("start")
  /\ tasks' = Tail(tasks)
  /\ conn' = [conn EXCEPT ![Arg] = "open"]
  /\ UNCHANGED <<listenVars, next_connection_id_, connection_map_, opened_connections_, endVars>>

run_shutdown ==
  /\ Running("shutdown")
  /\ tasks' = Tail(tasks)
  /\ close_acceptors
  /\ work_guard_' = (work_guard_ /\ opened_connections_ # 0)
  /\ UNCHANGED <<connVars, requests, stopped, returned>>

\* Every connection of the map is closed.  close() of a connection that has
\* not started yet returns at once (closed_ is still its initial true); each
\* one that closes finds itself gone from the map and no connection open, and
\* posts a release of the guard.
run_stop ==
  /\ Running("stop")
  /\ close_acceptors
  /\ connection_map_' = {}
  /\ opened_connections_' = 0
  /\ conn' = [c \in Connections |->
                IF c \in connection_map_ /\ Live(c) THEN "closed" ELSE conn[c]]
  /\ tasks' = Tail(tasks) \o
       [i \in 1 .. Cardinality({c \in connection_map_ : Live(c)}) |-> ResetGuardTask]
  /\ work_guard_' = FALSE
  /\ stopped' = TRUE
  /\ UNCHANGED <<next_connection_id_, requests, returned>>

run_reset_guard ==
  /\ Running("reset_guard")
  /\ tasks' = Tail(tasks)
  /\ work_guard_' = FALSE
  /\ UNCHANGED <<listenVars, connVars, in_shutdown_, requests, stopped, returned>>

\* run() returns once nothing is left that could produce a handler.
OutOfWork ==
  /\ tasks = << >> /\ ~work_guard_
  /\ \A l \in Listeners : accepting[l] = 0
  /\ \A c \in Connections : ~Live(c)

run_returns ==
  /\ ~returned /\ OutOfWork
  /\ returned' = TRUE
  /\ UNCHANGED <<listenVars, connVars, in_shutdown_, work_guard_, requests, stopped, tasks>>

-----------------------------------------------------------------------------
RunTask == run_accept \/ run_start \/ run_shutdown \/ run_stop \/ run_reset_guard

Next ==
  \/ listen \/ listen_fails \/ shutdown \/ stop
  \/ \E l \in Listeners : on_async_accept(l) \/ accept_cancelled(l) \/ accept_error(l)
  \/ \E c \in Connections : on_disconnect(c)
  \/ RunTask
  \/ run_returns

Spec == Init /\ [][Next]_vars

\* The thread of the io_context keeps running handlers: posted tasks, aborted
\* operations and the return of run() happen.  That every peer leaves in the
\* end is an assumption on the peers; shutdown() is meant to wait for them.
Fairness ==
  /\ WF_vars(RunTask)
  /\ WF_vars(run_returns)
  /\ \A l \in Listeners : WF_vars(accept_cancelled(l))
  /\ \A c \in Connections : WF_vars(on_disconnect(c))

FairSpec == Spec /\ Fairness

-----------------------------------------------------------------------------
(* Properties. *)

\* Type invariant of the server.
TypeOK ==
  /\ acceptor \in [Listeners -> {"none", "open", "reset"}]
  /\ accepting \in [Listeners -> Nat]
  /\ next_listen_ctx_ \in 0 .. MaxListeners
  /\ pending_next_listen_ctxes_ \in Seq(Listeners)
  /\ in_shutdown_ \in BOOLEAN
  /\ next_connection_id_ \in 1 .. MaxConnections + 1
  /\ connection_map_ \in SUBSET Connections
  /\ opened_connections_ \in Nat
  /\ conn \in [Connections -> {"none", "accepted", "open", "closed"}]
  /\ work_guard_ \in BOOLEAN
  /\ tasks \in Seq(Tasks)
  /\ requests \in 0 .. MaxRequests
  /\ stopped \in BOOLEAN /\ returned \in BOOLEAN

\* The counter and the map never part: the DCHECK_EQ of on_accept and
\* on_disconnect, also after stop() has zeroed the one and moved the other
\* away while their connections were still to report.
Accounting == opened_connections_ = Cardinality(connection_map_)

\* Every connection that has not closed is in the map, so that stop() will
\* reach it, until stop() itself has emptied the map.
Tracked ==
  ~stopped => connection_map_ = {c \in Connections : conn[c] \in {"accepted", "open"}}

\* A listener is parked only while some connection is there to wake it when it
\* ends: the accept loop is never suspended for good.
ParkedWillWake == pending_next_listen_ctxes_ # << >> => opened_connections_ > 0

Occurrences(s, x) == Cardinality({i \in DOMAIN s : s[i] = x})

\* A listener has at most one accept, in one of its three forms: under way,
\* posted, or parked.  Two at once would share the listener's peer_endpoint.
OneAcceptPerListener ==
  \A l \in Listeners :
    accepting[l] + Occurrences(tasks, AcceptTask(l))
      + Occurrences(pending_next_listen_ctxes_, l) <= 1

\* accept() dereferences ctx.acceptor: a posted accept never comes to run
\* after shutdown() or stop() has reset it.
AcceptorThere ==
  Running("accept") => acceptor[Arg] = "open"

\* In shutdown with no connection left, nothing but the release of the guard
\* is still to come: run() cannot be kept from returning by a guard that
\* nobody will reset.
DrainedReleasesGuard ==
  in_shutdown_ /\ opened_connections_ = 0 /\ work_guard_ =>
    \E i \in DOMAIN tasks : tasks[i] = ResetGuardTask

\* When run() returns and the owner frees the server, its destructor's CHECKs
\* hold: no listener is parked, no connection is counted or mapped, and the
\* guard is gone.
FreedClean ==
  returned =>
    /\ ~work_guard_ /\ pending_next_listen_ctxes_ = << >>
    /\ opened_connections_ = 0 /\ connection_map_ = {}

\* How far the limit is exceeded: by the accepts that are under way when it is
\* reached and, as every close wakes every parked listener, by as many again
\* for each connection that has closed.  With one listener it holds (where
\* the flag is 0, with one connection: it is compared after the fact).
OvershootBounded ==
  opened_connections_ <= (IF parallel_max = 0 THEN 1 ELSE parallel_max)
    + (MaxListeners - 1) * (1 + Cardinality({c \in Connections : conn[c] = "closed"}))

\* Once shutdown() or stop() was called, run() returns.
EndsAfterRequest == (requests > 0) ~> returned

\* Accepting goes with what it needs: the state is of its type, every
\* connection is known to stop(), a listener has one accept and its acceptor,
\* the limit is exceeded by no more than the listeners account for, and run()
\* leaves a clean server behind.
AcceptSound ==
  TypeOK /\ Tracked /\ OneAcceptPerListener /\ AcceptorThere /\ OvershootBounded /\ FreedClean
=============================================================================
