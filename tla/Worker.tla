------------------------------- MODULE Worker -------------------------------
(***************************************************************************)
(* The worker that every graphical client drives (src/cli/cli_worker.cpp)  *)
(* on top of the client instance (src/yass/client.cpp).  Two threads share *)
(* it: the user interface calls Start, Stop and the destructor; the        *)
(* background thread runs WorkFunc, an endless loop around                 *)
(* YassClientPrivate::Run, which runs an io_context twice and forgets the  *)
(* servers afterwards.                                                     *)
(*                                                                         *)
(* The state of both objects is one record, w, so that the operators below *)
(* read as the methods they translate: each takes the record and returns   *)
(* it changed.                                                             *)
(*   startCb, stopCb   whether start_callback_, stop_callback_ are set     *)
(*   flying            a callback taken out of its member, not yet called  *)
(*   tasks             handlers posted to io_context_, in their order      *)
(*   pc                where WorkFunc and Run are                          *)
(*   call              where the start task, _Start, is                    *)
(*   failed            what private_->Init or private_->Add returned       *)
(*   lastError         whether last_error_ holds an error                  *)
(*   clears            calls of another thread that have posted their      *)
(*                     handler and not cleared last_error_ yet             *)
(*   server            the only element of servers_                        *)
(*   cached            the configuration _Start copied from the flags      *)
(*   guard             whether work_guard_ is set                          *)
(*   inDestroy         in_destroy_                                         *)
(*   unsaid            an Add failed and no error was there to report      *)
(*   freedBusy         servers_ was cleared of a server not yet stopped    *)
(***************************************************************************)
EXTENDS Naturals, Sequences

CONSTANTS
  Configs,      \* configurations a user may enter and the program accepts
  NoConfig      \* no configuration cached yet

VARIABLES w,      \* the worker and its client instance
          inbox   \* what the callbacks told the user interface's thread

Tasks == {"start", "cancel", "stop_server"}
Answers == {"started", "failed", "stopped"}

WorkerTypeOK ==
  /\ w \in [startCb : BOOLEAN, stopCb : BOOLEAN,
            flying : Answers \cup {"none"},
            tasks : Seq(Tasks),
            pc : {"check", "run", "join", "cleanup", "clear", "notify", "done"},
            call : {"none", "init", "add", "error", "answer"},
            failed : BOOLEAN, lastError : BOOLEAN, clears : Nat,
            server : {"none", "listening", "stopping", "stopped"},
            cached : Configs \cup {NoConfig},
            guard : BOOLEAN, inDestroy : BOOLEAN,
            unsaid : BOOLEAN, freedBusy : BOOLEAN]
  /\ inbox \in Seq(Answers)

\* Worker::Worker: the thread is created and WorkFunc is about to look at
\* in_destroy_.
WorkerInit ==
  /\ w = [startCb |-> FALSE, stopCb |-> FALSE, flying |-> "none",
          tasks |-> <<>>, pc |-> "check", call |-> "none", failed |-> FALSE,
          lastError |-> FALSE, clears |-> 0, server |-> "none", cached |-> NoConfig,
          guard |-> FALSE, inDestroy |-> FALSE, unsaid |-> FALSE,
          freedBusy |-> FALSE]
  /\ inbox = <<>>

-----------------------------------------------------------------------------
(* The client instance.                                                    *)

_SetLastError(x, e) == [x EXCEPT !.lastError = e]

\* YassClientPrivate::PostTask and Stop, called by another thread, post a
\* handler, which may run before they go on ...
Posted(x, task) == [x EXCEPT !.tasks = Append(@, task)]
PostTask(x) == [Posted(x, "start") EXCEPT !.clears = @ + 1]
Cancel(x) == [Posted(x, "cancel") EXCEPT !.clears = @ + 1]

\* ... and then clear the last error, whatever it is by now.
ClearLastError ==
  /\ w.clears > 0
  /\ w' = _SetLastError([w EXCEPT !.clears = @ - 1], FALSE)
  /\ UNCHANGED inbox

\* Stop, called by a handler: nothing runs between the two.
CancelInside(x) == _SetLastError(Posted(x, "cancel"), FALSE)

\* The handler Cancel posted: each server posts its own stop, and the guard of
\* run() is dropped.
_Stop(x) ==
  [x EXCEPT !.guard = FALSE,
            !.server = IF @ = "listening" THEN "stopping" ELSE @,
            !.tasks = IF x.server = "listening" THEN Append(@, "stop_server") ELSE @]

\* ContentServer::stop, on the server's io_context.
ServerStop(x) == [x EXCEPT !.server = "stopped"]

\* servers_.clear() destroys the servers, stopped or not.
_Clear(x) ==
  [x EXCEPT !.server = "none",
            !.freedBusy = @ \/ x.server \in {"listening", "stopping"}]

NumOfConnections(x) == _SetLastError(x, FALSE)

\* YassClientPrivate::Init: the signal mask (or WSAStartup) may fail before
\* the servers are dropped, the resolver after it.
InitOutcomes(x) ==
  { _SetLastError([x EXCEPT !.failed = TRUE], TRUE),
    _SetLastError([_Clear(x) EXCEPT !.failed = TRUE], TRUE),
    _SetLastError([_Clear(x) EXCEPT !.failed = FALSE], FALSE) }

\* ResolveAddress: a name that resolves to nothing is an error nobody records.
ResolveFailures(x) ==
  {_SetLastError([x EXCEPT !.failed = TRUE], TRUE), [x EXCEPT !.failed = TRUE]}

\* ListenAddress: an endpoint that cannot be listened on destroys the server,
\* though another of its endpoints may be listening already; servers_ never
\* had it.
ListenOutcomes(x) ==
  LET refused == _SetLastError([x EXCEPT !.failed = TRUE], TRUE)
      done    == [x EXCEPT !.failed = FALSE, !.server = "listening"]
  IN  ResolveFailures(x) \cup {refused, done}

\* YassClientPrivate::Add: success clears the last error, failure leaves what
\* ListenAddress recorded.
AddOutcomes(x) ==
  { IF y.failed THEN y ELSE _SetLastError(y, FALSE) : y \in ListenOutcomes(x) }

\* io_context::run returns once nothing is queued and nothing keeps it alive.
OutOfWork(x) ==
  x.tasks = <<>> /\ x.call = "none" /\ ~x.guard /\ x.server \in {"none", "stopped"}

-----------------------------------------------------------------------------
(* Worker, called by the user interface's thread.                          *)

Start(x) == PostTask([x EXCEPT !.startCb = TRUE])

Stop(x) == Cancel([x EXCEPT !.stopCb = TRUE])

\* ~Worker: the callbacks are dropped first, then the loop is told to end.
DropCallbacks(x) == [x EXCEPT !.startCb = FALSE, !.stopCb = FALSE]

\* Mutant: nobody wakes the loop.
EndLoop_unwoken(x) == [x EXCEPT !.inDestroy = TRUE]

EndLoop(x) == Cancel([x EXCEPT !.inDestroy = TRUE])

-----------------------------------------------------------------------------
(* Worker, on the background thread.                                       *)

Goes(from, to) ==
  w.pc = from /\ w.flying = "none" /\ w' = [w EXCEPT !.pc = to]

\* The head of the loop of WorkFunc, and Run up to its first run().
WorkFunc ==
  /\ w.pc = "check" /\ w.flying = "none"
  /\ w' = [w EXCEPT !.pc = IF w.inDestroy THEN "done" ELSE "run",
                    !.guard = ~w.inDestroy]
  /\ UNCHANGED inbox

\* Run: run, join, restart and run again, clear.
Run ==
  /\ \/ OutOfWork(w) /\ Goes("run", "join")
     \/ Goes("join", "cleanup")
     \/ OutOfWork(w) /\ Goes("cleanup", "clear")
     \/ /\ w.pc = "clear"
        /\ w' = _SetLastError([_Clear(w) EXCEPT !.pc = "notify"], FALSE)
  /\ UNCHANGED inbox

\* The rest of the loop: the stop callback is taken and called.
TakeStopCallback ==
  /\ w.pc = "notify" /\ w.flying = "none"
  /\ w' = [w EXCEPT !.stopCb = FALSE,
                    !.flying = IF w.stopCb THEN "stopped" ELSE "none",
                    !.pc = "check"]
  /\ UNCHANGED inbox

\* A callback taken runs: it hands its answer to the other thread.
CallBack ==
  /\ w.flying # "none"
  /\ inbox' = Append(inbox, w.flying)
  /\ w' = [w EXCEPT !.flying = "none"]

Running == w.pc \in {"run", "cleanup"} /\ w.call = "none" /\ w.tasks # <<>>

\* One handler of io_context_ other than the start task.
RunTask ==
  /\ Running /\ w.flying = "none" /\ Head(w.tasks) # "start"
  /\ LET x == [w EXCEPT !.tasks = Tail(@)]
     IN  w' = IF Head(w.tasks) = "cancel" THEN _Stop(x) ELSE ServerStop(x)
  /\ UNCHANGED inbox

\* _Start, step by step, because the other thread may clear the last error in
\* between: the flags are cached ...
_Start(flags) ==
  /\ Running /\ w.flying = "none" /\ Head(w.tasks) = "start"
  /\ w' = [w EXCEPT !.tasks = Tail(@), !.call = "init", !.cached = flags]
  /\ UNCHANGED inbox

\* ... the instance is initialised, the server is added ...
_StartInit ==
  /\ w.call = "init"
  /\ \E y \in InitOutcomes(w) :
       w' = [y EXCEPT !.call = IF y.failed THEN "error" ELSE "add"]
  /\ UNCHANGED inbox

_StartAdd ==
  /\ w.call = "add"
  /\ \E y \in AddOutcomes(w) :
       w' = [y EXCEPT !.call = IF y.failed THEN "error" ELSE "answer"]
  /\ UNCHANGED inbox

\* ... a failure asks for the error ...
GetLastErrorXSI ==
  /\ w.call = "error"
  /\ w' = [w EXCEPT !.call = "answer", !.failed = w.lastError,
                    !.unsaid = @ \/ ~w.lastError]
  /\ UNCHANGED inbox

\* Mutant: the error is looked at only to cancel the instance.
on_resolve_done_ok ==
  /\ w.call = "answer"
  /\ w' = [w EXCEPT !.call = "none", !.startCb = FALSE,
                    !.flying = IF w.startCb THEN "started" ELSE "none"]
  /\ UNCHANGED inbox

\* Mutant: a failed start leaves by the early return, without the callback.
on_resolve_done_returns ==
  /\ w.call = "answer"
  /\ LET y == [w EXCEPT !.call = "none", !.startCb = w.failed,
                        !.flying = IF ~w.startCb \/ w.failed THEN "none" ELSE "started"]
     IN  w' = IF w.failed THEN CancelInside(y) ELSE y
  /\ UNCHANGED inbox

\* ... and the start callback is taken, the instance cancelled after an error,
\* and the callback called.
on_resolve_done ==
  /\ w.call = "answer"
  /\ LET y == [w EXCEPT !.call = "none", !.startCb = FALSE,
                        !.flying = IF ~w.startCb THEN "none" ELSE IF w.failed THEN "failed" ELSE "started"]
     IN  w' = IF w.failed THEN CancelInside(y) ELSE y
  /\ UNCHANGED inbox

WorkerNext(flags) ==
  \/ WorkFunc \/ Run \/ TakeStopCallback
  \/ RunTask \/ _Start(flags) \/ _StartInit \/ _StartAdd
  \/ GetLastErrorXSI \/ on_resolve_done
=============================================================================
