----------------------------- MODULE Lifecycle ------------------------------
(***************************************************************************)
(* The worker composed with the user interface that drives it, for every   *)
(* program of the repository: which one runs is chosen in the initial      *)
(* state.                                                                  *)
(***************************************************************************)
EXTENDS DesktopFrontEnds, AppleFrontEnds, MobileFrontEnds

CONSTANT Platforms   \* the programs a run looks at

vars == <<w, inbox, ui, ext>>

Init == WorkerInit /\ FrontEndInit(Platforms) /\ ExtInit

\* Callbacks run on the background thread too.
WorkerThread ==
  /\ \/ WorkerNext(IF Extended THEN ext.flags ELSE ui.flags) /\ UNCHANGED ui
     \/ CallBack /\ ui' = nativeStart_callback(ui)
  /\ UNCHANGED ext

Desktop == DesktopNext /\ UNCHANGED ext
Mobile == MobileNext /\ UNCHANGED ext
Ending == (DestroyWorker \/ JoinWorker) /\ UNCHANGED ext
Editing == Edit /\ UNCHANGED ext

\* A thread that called into the worker does nothing else before the call
\* returns; a packet tunnel provider is called by several.
Returned == w.clears > 0 => Extended
Caller == Returned /\ (Desktop \/ AppleNext \/ Mobile \/ Ending \/ Editing)
Returning == ClearLastError /\ UNCHANGED <<ui, ext>>

Next == WorkerThread \/ Caller \/ Returning

\* The background thread runs; the main loop serves what is queued for it;
\* the system completes what it was asked for; a user closes a message box.
Events ==
  \/ gtk_OnDispatch \/ gtk4_OnDispatch \/ qt_OnStarted \/ qt_OnStopped \/ qt_OnFailed
  \/ win_HandleThreadMessage \/ CloseMessageBox \/ onNativeStarted \/ onStartVpn
  \/ onNativeStopped \/ startWorkerCallingJS \/ stopWorkerCallingJS

AppleEvents ==
  \/ mac_Events \/ mac_CloseAlert \/ startTunnelWithOptions
  \/ startTunnelWithOptionsOnCallback \/ setTunnelNetworkSettings \/ startTunnelFailed
  \/ stopTunnelDone \/ mac_ne_OnStartSaveAndLoadInstance \/ mac_ne_didChangeVpnStatus
  \/ ios_OnStartSaveAndLoadInstance \/ ios_didChangeVpnStatus

Fairness ==
  /\ WF_vars(WorkerThread)
  /\ WF_vars(Returning)
  /\ WF_vars(Returned /\ Events /\ UNCHANGED ext)
  /\ WF_vars(Returned /\ AppleEvents)
  /\ WF_vars(Returned /\ Ending)

Spec == Init /\ [][Next]_vars /\ Fairness

-----------------------------------------------------------------------------
TypeOK ==
  WorkerTypeOK /\ FrontEndTypeOK(Platforms) /\ ExtTypeOK

\* The program shows STARTED: a server listens, started with the flags the form
\* was read into.  Three things are left out: an Add that failed and recorded
\* no error (cli_worker.cpp:180), a start that freed the server before it had
\* stopped (client.cpp:489), and a thread message that Windows lost.
StartedServes ==
  (/\ IF Extended THEN ui.tunnel = "up" ELSE ui.state = "STARTED"
   /\ ui.life = "up" /\ ~w.unsaid /\ ~w.freedBusy /\ ~ui.lost) =>
     /\ w.server = "listening"
     /\ IF Extended THEN ext.context /\ w.cached = ext.flags ELSE w.cached = ui.flags

\* The program shows STOPPED and the worker has nothing left to do: no server
\* listens.
StoppedIsQuiet ==
  (ui.state = "STOPPED" /\ ui.life = "up" /\ ~ui.lost /\ w.tasks = <<>> /\ w.call = "none"
   /\ ~w.stopCb /\ inbox = <<>> /\ w.flying = "none"
   /\ (Extended => ui.tunnel = "none" /\ ext.stopped)) =>
     w.server = "none" /\ ~ext.context

\* A start is answered: the program leaves STARTING, unless it ends or Windows
\* dropped the message.
StartAnswered == ui.state = "STARTING" ~> (ui.state # "STARTING" \/ ui.life # "up" \/ ui.lost)

\* So is a stop: YassClientPrivate::Run comes back although sockets, servers and
\* a start that arrived in between keep its io_context busy.
StopAnswered == ui.state = "STOPPING" ~> (ui.state # "STOPPING" \/ ui.life # "up" \/ ui.lost)

\* ~Worker returns: whatever the worker is doing when the program leaves its
\* main loop, WorkFunc sees in_destroy_ and the thread is joined.
ExitEnds == ui.life = "leaving" ~> ui.life = "gone"

\* What a program shows is so, in every order of the user's actions, the
\* worker's steps and the messages between them.
StateTrue == TypeOK /\ StartedServes /\ StoppedIsQuiet

\* Every start and every stop is answered.
CallsAnswered == StartAnswered /\ StopAnswered
=============================================================================
