------------------------------ MODULE Programs ------------------------------
(***************************************************************************)
(* The programs without a window: main of the server (src/server/server.cpp)*)
(* and of the client (src/cli/cli.cpp).  The server waits for signals on   *)
(* the io_context that serves; the client waits for them on another one,   *)
(* run by a thread of its own, while main runs the client instance.        *)
(*                                                                         *)
(* What ContentServer and Worker show of the objects is used here: a stop  *)
(* closes the listeners and the connections, a shutdown the listeners.  A  *)
(* signal that comes while no wait is armed is kept by asio until the next *)
(* wait; one that is not registered ends the process.  SIGTERM is handled  *)
(* as SIGINT is.                                                           *)
(***************************************************************************)
EXTENDS Naturals, Sequences

CONSTANTS
  Mains,          \* a subset of {"server", "client"}
  MaxEndpoints,   \* bound: endpoints a host name resolves to, servers of a client
  MaxConnections, \* bound: connections accepted
  MaxSignals      \* bound: signals sent to the process

ASSUME ProgramsAssumption ==
  /\ Mains \subseteq {"server", "client"}
  /\ MaxEndpoints \in Nat /\ MaxConnections \in Nat /\ MaxSignals \in Nat

VARIABLE pg

Signals == {"SIGINT", "SIGQUIT", "SIGUSR1"}

InitialProgram(program) ==
  [ program |-> program, pc |-> "configure", endpoints |-> 0, listening |-> 0,
    object |-> FALSE,        \* the ServerServer, or the client instance
    conns |-> 0, accepted |-> 0, tasks |-> << >>, run_guard |-> FALSE,
    registered |-> FALSE, waiting |-> FALSE, kept |-> {}, sent |-> 0,
    thread |-> "none",       \* signal_listener_thread
    signal_guard |-> FALSE, posted |-> FALSE,
    handled |-> "none", dangling |-> FALSE ]

ProgramInit == \E program \in Mains : pg = InitialProgram(program)

Ended(p) ==
  [p EXCEPT !.pc = "ended", !.object = FALSE, !.registered = FALSE, !.waiting = FALSE, !.kept = {},
            !.thread = "none", !.tasks = << >>, !.listening = 0, !.conns = 0, !.signal_guard = FALSE,
            !.run_guard = FALSE, !.posted = FALSE]

-----------------------------------------------------------------------------
(* Before the loop runs. *)

\* main up to its endpoints: a flag, the address or its name may be wrong.  A
\* server whose name does not resolve goes on without an endpoint.
Configure ==
  /\ pg.pc = "configure"
  /\ \/ pg' = Ended(pg)
     \/ \E n \in 0 .. MaxEndpoints :
          pg' = CASE pg.program = "server" ->
                     [pg EXCEPT !.pc = "listen", !.endpoints = n, !.object = TRUE, !.run_guard = TRUE]
                  [] pg.program = "client" ->
                     [pg EXCEPT !.pc = "signals", !.endpoints = n, !.object = TRUE, !.signal_guard = TRUE]

\* listen, or add_server: what fails ends the program.
Listen ==
  /\ pg.pc = "listen"
  /\ IF pg.listening < pg.endpoints
     THEN pg' \in {[pg EXCEPT !.listening = @ + 1], Ended(pg)}
     ELSE pg' = [pg EXCEPT !.pc = IF pg.program = "server" THEN "signals" ELSE "spawn"]

AsyncWait(p) == [p EXCEPT !.waiting = TRUE]

RegisterSignals ==
  /\ pg.pc = "signals"
  /\ pg' = AsyncWait([pg EXCEPT !.registered = TRUE,
                                !.pc = IF pg.program = "server" THEN "setuid" ELSE "listen"])

\* The server gives up its user; a name it does not find ends it.
ChangeUser ==
  /\ pg.pc = "setuid"
  /\ pg' \in {[pg EXCEPT !.pc = "run"], Ended(pg)}

\* The client starts its thread and enters Run.
Spawn ==
  /\ pg.pc = "spawn"
  /\ pg' = [pg EXCEPT !.pc = "run", !.thread = "running", !.run_guard = TRUE]

-----------------------------------------------------------------------------
(* Signals. *)

Signal ==
  /\ pg.sent < MaxSignals /\ pg.pc \notin {"configure", "ended"}
  /\ \E s \in Signals :
       pg' = IF pg.registered THEN [pg EXCEPT !.kept = @ \cup {s}, !.sent = @ + 1] ELSE Ended(pg)

\* Who runs the handler: the loop of the server, the thread of the client.
Dispatches(p) == IF p.program = "server" THEN p.pc = "run" ELSE p.thread = "running"

\* The request: posted to the loop that serves.  The instance is used.
Request(p, s) ==
  [p EXCEPT !.tasks = Append(@, IF p.program = "server" THEN (IF s = "SIGQUIT" THEN "shutdown" ELSE "stop")
                                ELSE (IF s = "SIGQUIT" THEN "Shutdown" ELSE "Cancel")),
            !.handled = IF s = "SIGQUIT" THEN "shutdown" ELSE "stop",
            !.dangling = @ \/ ~p.object]

\* What the handler does last: signals.clear() also drops what was kept.
Finish(p) ==
  LET q == [p EXCEPT !.registered = FALSE, !.kept = {}]
  IN IF p.program = "server" THEN [q EXCEPT !.run_guard = FALSE] ELSE [q EXCEPT !.signal_guard = FALSE]

\* The callback of async_wait.  The client's is another thread's: the loop
\* may serve the request before the callback has come to its end.
OnSignal == \E s \in pg.kept :
  /\ Dispatches(pg) /\ pg.waiting
  /\ LET p == [pg EXCEPT !.waiting = FALSE, !.kept = @ \ {s}]
     IN pg' = IF s = "SIGUSR1" THEN AsyncWait(p)
              ELSE IF pg.program = "server" THEN Finish(Request(p, s))
              ELSE [Request(p, s) EXCEPT !.thread = "handling"]

OnSignalReturns ==
  /\ pg.thread = "handling"
  /\ pg' = [Finish(pg) EXCEPT !.thread = "running", !.dangling = @ \/ ~pg.object]

-----------------------------------------------------------------------------
(* The loop. *)

Accept ==
  /\ pg.pc = "run" /\ pg.listening > 0 /\ pg.accepted < MaxConnections
  /\ pg' = [pg EXCEPT !.conns = @ + 1, !.accepted = @ + 1]

Disconnect ==
  /\ pg.pc = "run" /\ pg.conns > 0
  /\ pg' = [pg EXCEPT !.conns = @ - 1]

\* YassClientPrivate::Stop and Shutdown hand the request on to the servers.
Task ==
  /\ pg.pc = "run" /\ pg.tasks # << >>
  /\ LET p == [pg EXCEPT !.tasks = Tail(@)]
     IN pg' = CASE Head(pg.tasks) = "Cancel" -> [p EXCEPT !.run_guard = FALSE, !.tasks = Append(@, "stop")]
                [] Head(pg.tasks) = "Shutdown" -> [p EXCEPT !.run_guard = FALSE, !.tasks = Append(@, "shutdown")]
                [] Head(pg.tasks) = "stop" -> [p EXCEPT !.listening = 0, !.conns = 0]
                [] Head(pg.tasks) = "shutdown" -> [p EXCEPT !.listening = 0]

\* io_context::run returns when nothing is left to wait for.
LoopReturns ==
  /\ pg.pc = "run" /\ ~pg.run_guard /\ pg.tasks = << >> /\ pg.listening = 0 /\ pg.conns = 0
  /\ pg.program = "server" => ~pg.waiting
  /\ pg' = IF pg.program = "server" THEN Ended(pg) ELSE [pg EXCEPT !.pc = "join", !.posted = TRUE]

\* The thread of the client.
Posted ==
  /\ pg.thread = "running" /\ pg.posted
  /\ pg' = [pg EXCEPT !.posted = FALSE, !.signal_guard = FALSE]
ThreadEnds ==
  /\ pg.thread = "running" /\ ~pg.signal_guard /\ ~pg.waiting /\ ~pg.posted
  /\ pg' = [pg EXCEPT !.thread = "done"]

\* Mutant: the instance is destroyed before the thread is joined.
Join_late ==
  \/ /\ pg.pc = "join" /\ pg.object
     /\ pg' = [pg EXCEPT !.object = FALSE]
  \/ /\ pg.pc = "join" /\ ~pg.object /\ pg.thread = "done"
     /\ pg' = Ended(pg)

Join ==
  /\ pg.pc = "join" /\ pg.thread = "done"
  /\ pg' = Ended(pg)

Loop == OnSignal \/ OnSignalReturns \/ Task \/ LoopReturns \/ Posted \/ ThreadEnds \/ Join
ProgramNext ==
  \/ Configure \/ Listen \/ RegisterSignals \/ ChangeUser \/ Spawn
  \/ Signal \/ Accept \/ Disconnect \/ Loop

\* main and the thread run; nobody has to send a signal, connect or leave.
ProgramFairness ==
  /\ WF_pg(Configure \/ Listen \/ RegisterSignals \/ ChangeUser \/ Spawn)
  /\ WF_pg(Task \/ LoopReturns \/ Join)
  /\ WF_pg(OnSignal \/ OnSignalReturns \/ Posted \/ ThreadEnds)

ProgramSpec == ProgramInit /\ [][ProgramNext]_pg /\ ProgramFairness

-----------------------------------------------------------------------------
(* Properties. *)

\* The thread that handles signals uses the client instance only while main
\* has not destroyed it, although its request lets Run return before the
\* callback is done.
InstanceThere == ~pg.dangling

\* A stop was asked for, or a shutdown of a program without connections.
Ending == \/ pg.handled = "stop"
          \/ pg.handled = "shutdown" /\ pg.conns = 0 /\ pg.listening = 0

\* SIGINT and SIGTERM end a program whatever its clients do; SIGQUIT ends it
\* as soon as it has no connection, whatever signals come before or with it.
SignalsEnd == Ending ~> pg.pc = "ended"
=============================================================================
