-------------------------- MODULE DesktopFrontEnds --------------------------
(***************************************************************************)
(* The GTK 3, GTK 4, Qt and Windows programs.  They share a design: the    *)
(* worker's callbacks queue an event for the main loop, whose handler      *)
(* moves state_ on and tells the window.  They differ in what a message    *)
(* box does to the main loop and in how the program ends.                  *)
(***************************************************************************)
EXTENDS FrontEnd

-----------------------------------------------------------------------------
(* GTK 3.                                                                  *)

gtk_window_LoadChanges(u) == LoadFields(u)
gtk_window_Started(u) == Buttons(u, FALSE, TRUE)
gtk_window_StartFailed(u) == [Unlock(u) EXCEPT !.modal = TRUE]
gtk_window_Stopped(u) == Unlock(u)

gtk_window_GetFields(u) == u.form
gtk_SaveConfig(u) == ReadConfigFromArgument(u, gtk_window_GetFields(u))
gtk_OnStartFailed(u) == gtk_window_StartFailed([u EXCEPT !.state = "START_FAILED"])
gtk_OnStart(u) == Starts(gtk_SaveConfig, u, gtk_OnStartFailed)
gtk_OnStop(u) == Stops(u)
gtk_window_OnStartButtonClicked(u) == gtk_OnStart(Lock(u))
gtk_window_OnStopButtonClicked(u) == gtk_OnStop(Buttons(u, FALSE, FALSE))

gtk_OnActivate == Activates("gtk", gtk_window_LoadChanges, gtk_window_OnStartButtonClicked)

gtk_Clicks ==
  /\ Acts("gtk") /\ ~ui.modal
  /\ \/ ui.start /\ gtk_window_OnStartButtonClicked(Acted(ui))
     \/ ui.stop /\ gtk_window_OnStopButtonClicked(Acted(ui))
  /\ UNCHANGED inbox

gtk_OnStarted(u) == gtk_window_Started(SaveConfig([u EXCEPT !.state = "STARTED"]))
gtk_OnStopped(u) == gtk_window_Stopped([u EXCEPT !.state = "STOPPED"])

\* The dispatcher's source is not dispatched again while its callback runs the
\* loop of a message box: events wait in the socket pair.
gtk_OnDispatch ==
  /\ ~ui.modal
  /\ \/ Handles("gtk", "started") /\ ui' = gtk_OnStarted(ui)
     \/ Handles("gtk", "failed") /\ ui' = gtk_OnStartFailed(ui)
     \/ Handles("gtk", "stopped") /\ ui' = gtk_OnStopped(ui)
  /\ UNCHANGED w

gtk_OnIdle == Polls("gtk")
gtk_Exit == Leaves("gtk")

Gtk == gtk_OnActivate \/ gtk_Clicks \/ gtk_OnDispatch \/ gtk_OnIdle \/ gtk_Exit

-----------------------------------------------------------------------------
(* GTK 4: as GTK 3, with an alert that does not run a loop of its own.     *)

gtk4_window_LoadChanges(u) == LoadFields(u)
gtk4_window_Started(u) == Buttons(u, FALSE, TRUE)
gtk4_window_StartFailed(u) == Unlock(u)
gtk4_window_Stopped(u) == Unlock(u)

gtk4_window_GetFields(u) == u.form
gtk4_SaveConfig(u) == ReadConfigFromArgument(u, gtk4_window_GetFields(u))
gtk4_OnStartFailed(u) == gtk4_window_StartFailed([u EXCEPT !.state = "START_FAILED"])
gtk4_OnStart(u) == Starts(gtk4_SaveConfig, u, gtk4_OnStartFailed)
gtk4_OnStop(u) == Stops(u)
gtk4_window_OnStartButtonClicked(u) == gtk4_OnStart(Lock(u))
gtk4_window_OnStopButtonClicked(u) == gtk4_OnStop(Buttons(u, FALSE, FALSE))

gtk4_OnActivate == Activates("gtk4", gtk4_window_LoadChanges, gtk4_window_OnStartButtonClicked)

gtk4_Clicks ==
  /\ Acts("gtk4")
  /\ \/ ui.start /\ gtk4_window_OnStartButtonClicked(Acted(ui))
     \/ ui.stop /\ gtk4_window_OnStopButtonClicked(Acted(ui))
  /\ UNCHANGED inbox

gtk4_OnStarted(u) == gtk4_window_Started(SaveConfig([u EXCEPT !.state = "STARTED"]))
gtk4_OnStopped(u) == gtk4_window_Stopped([u EXCEPT !.state = "STOPPED"])

gtk4_OnDispatch ==
  /\ \/ Handles("gtk4", "started") /\ ui' = gtk4_OnStarted(ui)
     \/ Handles("gtk4", "failed") /\ ui' = gtk4_OnStartFailed(ui)
     \/ Handles("gtk4", "stopped") /\ ui' = gtk4_OnStopped(ui)
  /\ UNCHANGED w

gtk4_OnIdle == Polls("gtk4")
gtk4_Exit == Leaves("gtk4")

Gtk4 == gtk4_OnActivate \/ gtk4_Clicks \/ gtk4_OnDispatch \/ gtk4_OnIdle \/ gtk4_Exit

-----------------------------------------------------------------------------
(* Qt: the callbacks emit signals that the event loop delivers, in the     *)
(* nested loop of a message box too.                                       *)

qt_window_LoadChanges(u) == LoadFields(u)
qt_window_Started(u) == Buttons(u, FALSE, TRUE)
qt_window_StartFailed(u) == [Unlock(u) EXCEPT !.modal = TRUE]
qt_window_Stopped(u) == Unlock(u)

qt_window_GetFields(u) == u.form
qt_SaveConfig(u) == ReadConfigFromArgument(u, qt_window_GetFields(u))
qt_OnStartFailed(u) == qt_window_StartFailed([u EXCEPT !.state = "START_FAILED"])
qt_OnStart(u) == Starts(qt_SaveConfig, u, qt_OnStartFailed)
qt_OnStop(u) == Stops(u)
qt_window_OnStartButtonClicked(u) == qt_OnStart(Lock(u))
qt_window_OnStopButtonClicked(u) == qt_OnStop(Buttons(u, FALSE, FALSE))

qt_Init == Activates("qt", qt_window_LoadChanges, qt_window_OnStartButtonClicked)

qt_Clicks ==
  /\ Acts("qt") /\ ~ui.modal
  /\ \/ ui.start /\ qt_window_OnStartButtonClicked(Acted(ui))
     \/ ui.stop /\ qt_window_OnStopButtonClicked(Acted(ui))
  /\ UNCHANGED inbox

qt_OnStarted ==
  /\ Handles("qt", "started")
  /\ ui' = qt_window_Started(SaveConfig([ui EXCEPT !.state = "STARTED"]))
  /\ UNCHANGED w
qt_OnStopped ==
  /\ Handles("qt", "stopped")
  /\ ui' = qt_window_Stopped([ui EXCEPT !.state = "STOPPED"])
  /\ UNCHANGED w
qt_OnFailed == Handles("qt", "failed") /\ ui' = qt_OnStartFailed(ui) /\ UNCHANGED w

qt_OnIdle == Polls("qt")
qt_OnQuit == Leaves("qt")

Qt == qt_Init \/ qt_Clicks \/ qt_OnStarted \/ qt_OnStopped \/ qt_OnFailed
      \/ qt_OnIdle \/ qt_OnQuit

-----------------------------------------------------------------------------
(* A message box is answered (GTK 3, Qt, Windows).                         *)

CloseMessageBox ==
  /\ ui.life = "up" /\ ui.modal
  /\ ui' = [ui EXCEPT !.modal = FALSE] /\ UNCHANGED <<w, inbox>>

-----------------------------------------------------------------------------
(* Windows: the callbacks post messages to the thread, not to a window.    *)

win_frame_LoadConfig(u) == LoadFields(u)
win_frame_OnStarted(u) == Buttons(u, FALSE, TRUE)
win_frame_OnStartFailed(u) == [Unlock(u) EXCEPT !.modal = TRUE]
win_frame_OnStopped(u) == Unlock(u)

win_frame_GetFields(u) == u.form
win_SaveConfig(u) == ReadConfigFromArgument(u, win_frame_GetFields(u))
win_OnStartFailed(u) == win_frame_OnStartFailed([u EXCEPT !.state = "START_FAILED"])
win_OnStart(u) == Starts(win_SaveConfig, u, win_OnStartFailed)
win_OnStop(u) == Stops(u)
win_frame_OnStartButtonClicked(u) == win_OnStart(Lock(u))
win_frame_OnStopButtonClicked(u) == win_OnStop(Buttons(u, FALSE, FALSE))

win_InitInstance == Activates("win", win_frame_LoadConfig, win_frame_OnStartButtonClicked)

win_Clicks ==
  /\ Acts("win") /\ ~ui.modal
  /\ \/ ui.start /\ win_frame_OnStartButtonClicked(Acted(ui))
     \/ ui.stop /\ win_frame_OnStopButtonClicked(Acted(ui))
  /\ UNCHANGED inbox

\* The option dialog is modal and may be opened in any state.
win_OnAppOption ==
  /\ Acts("win") /\ ~ui.modal
  /\ ui' = Acted([ui EXCEPT !.modal = TRUE]) /\ UNCHANGED <<w, inbox>>

win_OnStarted(u) == win_frame_OnStarted(SaveConfig([u EXCEPT !.state = "STARTED"]))
win_OnStopped(u) == win_frame_OnStopped([u EXCEPT !.state = "STOPPED"])

win_HandleThreadMessage ==
  /\ ~ui.modal
  /\ \/ Handles("win", "started") /\ ui' = win_OnStarted(ui)
     \/ Handles("win", "failed") /\ ui' = win_OnStartFailed(ui)
     \/ Handles("win", "stopped") /\ ui' = win_OnStopped(ui)
  /\ UNCHANGED w

\* WM_MYAPP_NETWORK_UP, posted once by the thread that waits for a network.
win_NetworkUp ==
  /\ Acts("win") /\ ~ui.modal /\ ui.state = "STOPPED"
  /\ win_frame_OnStartButtonClicked(Acted(ui)) /\ UNCHANGED inbox

\* The loop of a modal box takes a message without a window from the queue and
\* dispatches it to nobody (external: the behaviour of the modal loop).
win_ModalLoopDrops ==
  /\ ui.modal /\ \E a \in Answers : Handles("win", a)
  /\ ui' = [ui EXCEPT !.lost = TRUE] /\ UNCHANGED w

win_OnUpdateStatusBar == Polls("win")

\* WM_QUERYENDSESSION stops a started client; ExitInstance stops it once more,
\* with a callback that says nothing.
win_OnQueryEndSession ==
  /\ Acts("win") /\ ui.state = "STARTED"
  /\ win_frame_OnStopButtonClicked(Acted(ui)) /\ UNCHANGED inbox

win_ExitInstance ==
  /\ On("win") /\ ui' = [ui EXCEPT !.life = "leaving"]
  /\ w' = Stop(w) /\ UNCHANGED inbox

Win == win_InitInstance \/ win_Clicks \/ win_OnAppOption \/ win_HandleThreadMessage
       \/ win_NetworkUp
       \/ win_ModalLoopDrops \/ win_OnUpdateStatusBar \/ win_OnQueryEndSession
       \/ win_ExitInstance

DesktopNext == Gtk \/ Gtk4 \/ Qt \/ Win \/ CloseMessageBox
=============================================================================
