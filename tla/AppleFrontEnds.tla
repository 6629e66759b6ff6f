--------------------------- MODULE AppleFrontEnds ---------------------------
(***************************************************************************)
(* The macOS program with its own worker ("mac"), and the programs whose   *)
(* worker lives in a packet tunnel provider, another process that the      *)
(* system starts and stops: macOS with the network extension ("mac_ne")    *)
(* and iOS ("ios").  The latter two only follow the status of the VPN,     *)
(* which the module keeps in ui.tunnel (none stands for Disconnected).     *)
(***************************************************************************)
EXTENDS FrontEnd

VARIABLE ext   \* the packet tunnel provider and the app's view of the VPN

ExtTypeOK ==
  ext \in [stopped : BOOLEAN,      \* stopped_ of the provider
           context : BOOLEAN,      \* context_ and the thread of tun2proxy
           settings : BOOLEAN,     \* setTunnelNetworkSettings is under way
           loading : 0..MaxActs,   \* starts that still load their preferences
           manager : BOOLEAN,      \* vpn_manager_ is set
           config : Configs \cup {NoConfig},  \* providerConfiguration
           flags : Configs \cup {NoConfig}]   \* the flags in the provider's process

ExtInit ==
  ext = [stopped |-> FALSE, context |-> FALSE, settings |-> FALSE, loading |-> 0,
         manager |-> FALSE, config |-> NoConfig, flags |-> NoConfig]

-----------------------------------------------------------------------------
(* macOS with its own worker.                                              *)

mac_view_LoadChanges(u) == LoadFields(u)
mac_view_Starting(u) == Lock(u)
mac_view_Started(u) == Buttons(u, FALSE, TRUE)
mac_view_StartFailed(u) == Unlock(u)
mac_view_Stopping(u) == Lock(u)
mac_view_Stopped(u) == Unlock(u)

mac_SaveConfig(u) == ReadConfigFromArgument(u, u.form)
mac_OnStarting(u) == mac_view_Starting([u EXCEPT !.state = "STARTING"])
\* [alert runModal]
mac_OnStartFailed(u) ==
  [mac_view_StartFailed([u EXCEPT !.state = "START_FAILED"]) EXCEPT !.modal = TRUE]

\* Without a network the start fails before the form is read.
mac_OnStart(u) ==
  LET s == mac_OnStarting(u)
  IN  \/ ui' = mac_OnStartFailed(s) /\ UNCHANGED w
      \/ Starts(mac_SaveConfig, s, mac_OnStartFailed)

mac_OnStopping(u) == mac_view_Stopping([u EXCEPT !.state = "STOPPING"])
mac_OnStop(u) == ui' = mac_OnStopping(u) /\ w' = Stop(w)

\* A timer refreshes the telemetry from OnStarted to OnStopped.
mac_OnStarted(u) ==
  [mac_view_Started(SaveConfig([u EXCEPT !.state = "STARTED"])) EXCEPT !.timers = @ + 1]
InvalidateTimer(u) == [u EXCEPT !.timers = IF @ = 0 THEN 0 ELSE @ - 1]
mac_OnStopped(u) == InvalidateTimer(mac_view_Stopped([u EXCEPT !.state = "STOPPED"]))

mac_Appears == Activates("mac", mac_view_LoadChanges, mac_OnStart) /\ UNCHANGED ext

mac_Clicks ==
  /\ Acts("mac") /\ ~ui.modal
  /\ \/ ui.start /\ mac_OnStart(Acted(ui))
     \/ ui.stop /\ mac_OnStop(Acted(ui))
  /\ UNCHANGED <<inbox, ext>>

\* Blocks on the main queue, which a modal alert holds up.
mac_Events ==
  /\ ~ui.modal
  /\ \/ Handles("mac", "started") /\ ui' = mac_OnStarted(ui)
     \/ Handles("mac", "failed") /\ ui' = mac_OnStartFailed(ui)
     \/ Handles("mac", "stopped") /\ ui' = mac_OnStopped(ui)
  /\ UNCHANGED <<w, ext>>

mac_CloseAlert ==
  /\ On("mac") /\ ui.modal
  /\ ui' = [ui EXCEPT !.modal = FALSE] /\ UNCHANGED <<w, inbox, ext>>

\* The process ends after applicationWillTerminate; nobody destroys the worker.
mac_applicationWillTerminate ==
  /\ On("mac")
  /\ w' = Cancel(w) /\ ui' = [mac_OnStopping(ui) EXCEPT !.life = "gone"]
  /\ UNCHANGED <<inbox, ext>>

Mac == mac_Appears \/ mac_Clicks \/ mac_Events \/ mac_CloseAlert \/ mac_applicationWillTerminate

-----------------------------------------------------------------------------
(* The packet tunnel provider.  Its callbacks run on the worker's thread.  *)

Extended == ui.plat \in {"mac_ne", "ios"}
ExtHandles(a) == Extended /\ inbox # <<>> /\ Head(inbox) = a /\ inbox' = Tail(inbox)
\* The system tells the app of every change; the app then reads the status.
Status(u, s) == [u EXCEPT !.tunnel = s, !.changed = @ \/ s # u.tunnel]

startTunnelWithOptions ==
  /\ Extended /\ ui.tunnel = "requested"
  /\ ui' = Status(ui, "starting")
  /\ ext' = [ext EXCEPT !.stopped = FALSE, !.context = FALSE, !.settings = FALSE,
                       !.flags = ext.config]
  /\ w' = Start(w) /\ UNCHANGED inbox

\* stopTunnelWithReason: the first call stops the worker and completes later,
\* another one completes at once (done is what its completion does).
stopTunnelWithReason(x, u, done) ==
  IF x.stopped
  THEN ext' = x /\ ui' = done /\ UNCHANGED w
  ELSE ext' = [x EXCEPT !.stopped = TRUE] /\ ui' = u /\ w' = Stop(w)

\* A start that fails completes with an error, of which the system takes no
\* notice once it is stopping the tunnel itself.
StartError(u) == IF u.tunnel = "starting" THEN Status(u, "none") ELSE u

\* The worker listens: tun2proxy comes up and the settings are asked for.
startTunnelWithOptionsOnCallback ==
  /\ ExtHandles("started")
  /\ \/ stopTunnelWithReason(ext, ui, StartError(ui))
     \/ /\ ext' = [ext EXCEPT !.context = TRUE, !.settings = TRUE]
        /\ UNCHANGED <<w, ui>>

setTunnelNetworkSettings ==
  /\ Extended /\ ext.settings
  /\ LET x == [ext EXCEPT !.settings = FALSE]
     IN  \/ stopTunnelWithReason(x, ui, StartError(ui))
         \/ /\ ext' = x /\ UNCHANGED w
            /\ ui' = IF ui.tunnel = "starting" THEN Status(ui, "up") ELSE ui
  /\ UNCHANGED inbox

startTunnelFailed ==
  ExtHandles("failed") /\ ui' = StartError(ui) /\ UNCHANGED <<w, ext>>

\* The callback of the stop: tun2proxy is shut down, joined and destroyed, and
\* the completion handler of whoever stopped the tunnel is called.
stopTunnelDone ==
  /\ ExtHandles("stopped")
  /\ ext' = [ext EXCEPT !.context = FALSE]
  /\ ui' = IF ui.tunnel = "requested" THEN ui ELSE Status(ui, "none")
  /\ UNCHANGED w

\* The system stops the tunnel, on behalf of the app or by itself.
SystemStops(u) ==
  IF u.tunnel \in {"starting", "up"}
  THEN stopTunnelWithReason(ext, Status(u, "stopping"), Status(u, "none"))
  ELSE ui' = (IF u.tunnel = "requested" THEN Status(u, "none") ELSE u) /\ UNCHANGED <<w, ext>>

\* readPackets polls the worker, which clears its last error.
readPackets ==
  /\ Extended /\ ext.context /\ ~ext.stopped
  /\ w' = NumOfConnections(w) /\ UNCHANGED <<ui, inbox, ext>>

Provider ==
  \/ startTunnelWithOptions \/ startTunnelWithOptionsOnCallback \/ setTunnelNetworkSettings
  \/ startTunnelFailed \/ stopTunnelDone \/ readPackets

-----------------------------------------------------------------------------
(* macOS with the network extension.                                       *)

mac_ne_OnStarting(u) == mac_view_Starting([u EXCEPT !.state = "STARTING"])
\* Every Connected starts a timer; the one before it is forgotten.
mac_ne_OnStarted(u) ==
  [mac_view_Started([u EXCEPT !.state = "STARTED"]) EXCEPT !.timers = @ + 1]
mac_ne_OnStartFailed(u) ==
  [mac_view_StartFailed([u EXCEPT !.state = "START_FAILED"]) EXCEPT !.modal = TRUE]
mac_ne_OnStopping(u) == mac_view_Stopping([u EXCEPT !.state = "STOPPING"])
mac_ne_OnStopped(u) == InvalidateTimer(mac_view_Stopped([u EXCEPT !.state = "STOPPED"]))

mac_ne_FollowStatus(u, manager) ==
  LET status == IF manager THEN u.tunnel ELSE "none"
  IN CASE status = "none" -> mac_ne_OnStopped(u)
       [] status \in {"requested", "starting"} -> mac_ne_OnStarting(u)
       [] status = "up" -> mac_ne_OnStarted(u)
       [] status = "stopping" -> mac_ne_OnStopping(u)

mac_ne_OnStart(u) ==
  LET s == mac_ne_OnStarting(u)
  IN  \/ ui' = mac_ne_OnStartFailed(s) /\ UNCHANGED ext
      \/ /\ ~Accepted(u.form)
         /\ ui' = mac_ne_OnStartFailed(s) /\ UNCHANGED ext
      \/ /\ Accepted(u.form)
         /\ ui' = SaveConfig(mac_SaveConfig(s))
         /\ ext' = [ext EXCEPT !.loading = @ + 1]

mac_ne_OnStop(u) ==
  LET s == mac_ne_OnStopping(u)
  IN  IF ext.manager THEN SystemStops(s)
      ELSE ui' = mac_ne_OnStopped(s) /\ UNCHANGED <<w, ext>>

mac_ne_Appears ==
  /\ ui.plat = "mac_ne" /\ ui.life = "new"
  /\ LET u == mac_view_LoadChanges([ui EXCEPT !.life = "up"])
     IN  (ui' = u /\ UNCHANGED ext) \/ mac_ne_OnStart(u)
  /\ UNCHANGED <<w, inbox>>

mac_ne_Clicks ==
  /\ Acts("mac_ne") /\ ~ui.modal
  /\ \/ ui.start /\ mac_ne_OnStart(Acted(ui)) /\ UNCHANGED w
     \/ ui.stop /\ mac_ne_OnStop(Acted(ui))
  /\ UNCHANGED inbox

\* The preferences are loaded, saved and loaded again, and the tunnel started.
mac_ne_OnStartSaveAndLoadInstance ==
  /\ On("mac_ne") /\ ext.loading > 0
  /\ LET x == [ext EXCEPT !.loading = @ - 1, !.config = ui.flags]
         u == Status(ui, IF ui.tunnel = "none" THEN "requested" ELSE ui.tunnel)
     IN  \/ ext' = x /\ ui' = mac_ne_OnStartFailed(ui)
         \/ /\ ext' = [x EXCEPT !.manager = TRUE]
            /\ ui' = mac_ne_FollowStatus(u, TRUE)
  /\ UNCHANGED <<w, inbox>>

mac_ne_didChangeVpnStatus ==
  /\ On("mac_ne") /\ ui.changed
  /\ ui' = mac_ne_FollowStatus([ui EXCEPT !.changed = FALSE], ext.manager)
  /\ UNCHANGED <<w, inbox, ext>>

\* The window appears again: the managers are loaded and the status is followed.
mac_ne_reloadState ==
  /\ Acts("mac_ne")
  /\ \E manager \in BOOLEAN :
       /\ ui' = Acted(mac_ne_FollowStatus(ui, manager))
       /\ ext' = [ext EXCEPT !.manager = manager]
  /\ UNCHANGED <<w, inbox>>

mac_ne_CloseAlert ==
  /\ On("mac_ne") /\ ui.modal
  /\ ui' = [ui EXCEPT !.modal = FALSE] /\ UNCHANGED <<w, inbox, ext>>

MacNE ==
  \/ mac_ne_Appears \/ mac_ne_Clicks \/ mac_ne_OnStartSaveAndLoadInstance
  \/ mac_ne_didChangeVpnStatus \/ mac_ne_reloadState \/ mac_ne_CloseAlert

-----------------------------------------------------------------------------
(* iOS: the same protocol, but OnStop leaves the state to the notification *)
(* and alerts do not hold up the main loop.                                *)

ios_view_LoadChanges(u) == LoadFields(u)
ios_view_Starting(u) == Lock(u)
ios_view_Started(u) == [Buttons(u, FALSE, TRUE) EXCEPT !.locked = TRUE]
ios_view_StartFailed(u) == Unlock(u)
ios_view_Stopping(u) == Lock(u)
ios_view_Stopped(u) == Unlock(u)

ios_SaveConfig(u) == ReadConfigFromArgument(u, u.form)
ios_OnStarting(u) == ios_view_Starting([u EXCEPT !.state = "STARTING"])
ios_OnStarted(u) ==
  [ios_view_Started([u EXCEPT !.state = "STARTED"]) EXCEPT !.timers = @ + 1]
ios_OnStartFailed(u) == ios_view_StartFailed([u EXCEPT !.state = "START_FAILED"])
ios_OnStopping(u) == ios_view_Stopping([u EXCEPT !.state = "STOPPING"])
ios_OnStopped(u) == InvalidateTimer(ios_view_Stopped([u EXCEPT !.state = "STOPPED"]))

ios_FollowStatus(u, manager) ==
  LET status == IF manager THEN u.tunnel ELSE "none"
  IN CASE status = "none" -> ios_OnStopped(u)
       [] status \in {"requested", "starting"} -> ios_OnStarting(u)
       [] status = "up" -> ios_OnStarted(u)
       [] status = "stopping" -> ios_OnStopping(u)

ios_OnStart(u) ==
  LET s == ios_OnStarting(u)
  IN  \/ ui' = ios_OnStartFailed(s) /\ UNCHANGED ext
      \/ /\ Accepted(u.form)
         /\ ui' = SaveConfig(ios_SaveConfig(s))
         /\ ext' = [ext EXCEPT !.loading = @ + 1]

ios_OnStop(u) ==
  IF ext.manager THEN SystemStops(u)
  ELSE ui' = ios_OnStopped(u) /\ UNCHANGED <<w, ext>>

ios_Launches ==
  /\ ui.plat = "ios" /\ ui.life = "new"
  /\ ui' = ios_view_LoadChanges([ui EXCEPT !.life = "up"]) /\ UNCHANGED <<w, inbox, ext>>

ios_Clicks ==
  /\ Acts("ios")
  /\ \/ ui.start /\ ios_OnStart(Acted(ui)) /\ UNCHANGED w
     \/ ui.stop /\ ios_OnStop(Acted(ui))
  /\ UNCHANGED inbox

ios_OnStartSaveAndLoadInstance ==
  /\ On("ios") /\ ext.loading > 0
  /\ LET x == [ext EXCEPT !.loading = @ - 1, !.config = ui.flags]
         u == Status(ui, IF ui.tunnel = "none" THEN "requested" ELSE ui.tunnel)
     IN  \/ ext' = x /\ ui' = ios_OnStartFailed(ui)
         \/ /\ ext' = [x EXCEPT !.manager = TRUE]
            /\ ui' = ios_FollowStatus(u, TRUE)
  /\ UNCHANGED <<w, inbox>>

ios_didChangeVpnStatus ==
  /\ On("ios") /\ ui.changed
  /\ ui' = ios_FollowStatus([ui EXCEPT !.changed = FALSE], ext.manager)
  /\ UNCHANGED <<w, inbox, ext>>

ios_reloadState ==
  /\ Acts("ios")
  /\ \E manager \in BOOLEAN :
       /\ ui' = Acted(ios_FollowStatus(ui, manager))
       /\ ext' = [ext EXCEPT !.manager = manager]
  /\ UNCHANGED <<w, inbox>>

IOS ==
  \/ ios_Launches \/ ios_Clicks \/ ios_OnStartSaveAndLoadInstance
  \/ ios_didChangeVpnStatus \/ ios_reloadState

AppleNext == Mac \/ MacNE \/ IOS \/ Provider
=============================================================================
