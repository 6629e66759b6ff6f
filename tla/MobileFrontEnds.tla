-------------------------- MODULE MobileFrontEnds ---------------------------
(***************************************************************************)
(* The Android and HarmonyOS programs: the state machine is in Java or     *)
(* ArkTS, the worker behind native functions.  Their start callbacks save  *)
(* the configuration on the worker's thread and then call into the other   *)
(* language, which goes on on its own thread.                              *)
(***************************************************************************)
EXTENDS FrontEnd

\* What a callback of the worker does on the worker's thread before it hands
\* its answer over.
nativeStart_callback(u) ==
  IF u.plat \in {"android", "harmony"} /\ w.flying = "started" THEN SaveConfig(u) ELSE u

-----------------------------------------------------------------------------
(* Android.                                                                *)

nativeStart == w' = Start(w)
nativeStop == w' = Stop(w)

loadSettingsFromNative(u) == LoadFields(u)
saveSettingsIntoNative(u) == ReadConfigFromArgument(u, u.form)

onNativeStartFailedOnUIThread(u, stop_native) ==
  /\ ui' = [u EXCEPT !.state = "STOPPED", !.start = TRUE, !.tunnel = "none"]
  /\ IF stop_native THEN nativeStop ELSE UNCHANGED w

onNativeCreate ==
  /\ ui.plat = "android" /\ ui.life = "new"
  /\ ui' = loadSettingsFromNative([ui EXCEPT !.life = "up"]) /\ UNCHANGED <<w, inbox>>

onStartClicked ==
  /\ Acts("android") /\ ui.start /\ ui.state = "STOPPED"
  /\ LET u == Acted(ui)
     IN  IF Accepted(u.form)
         THEN /\ ui' = [saveSettingsIntoNative(u) EXCEPT !.start = FALSE, !.state = "STARTING"]
              /\ nativeStart
         ELSE onNativeStartFailedOnUIThread(u, FALSE)
  /\ UNCHANGED inbox

\* CallOnNativeStarted: the answer is taken up in state STARTING only; the
\* system may first ask the user for the permission to open a VPN.
onNativeStarted ==
  \/ /\ Handles("android", "started")
     /\ ui' = IF ui.state = "STARTING" THEN [ui EXCEPT !.tunnel = "starting"] ELSE ui
     /\ UNCHANGED w
  \/ /\ Handles("android", "failed")
     /\ IF ui.state = "STARTING" THEN onNativeStartFailedOnUIThread(ui, FALSE)
        ELSE UNCHANGED <<ui, w>>

\* The answer of the user, then the descriptor of the tunnel and tun2proxy,
\* each of which may be refused; the native side is stopped again then.
onStartVpn ==
  /\ On("android") /\ ui.tunnel = "starting"
  /\ \/ onNativeStartFailedOnUIThread(ui, TRUE)
     \/ /\ ui' = [ui EXCEPT !.tunnel = "up", !.state = "STARTED", !.stop = TRUE]
        /\ UNCHANGED w
  /\ UNCHANGED inbox

onStopVpn(u) ==
  /\ ui' = [u EXCEPT !.state = "STOPPING", !.stop = FALSE, !.tunnel = "none"]
  /\ nativeStop

onStopClicked ==
  /\ Acts("android") /\ ui.stop /\ ui.state = "STARTED"
  /\ onStopVpn(Acted(ui)) /\ UNCHANGED inbox

onNativeStopped ==
  /\ Handles("android", "stopped")
  /\ ui' = IF ui.state = "STOPPING" THEN [ui EXCEPT !.state = "STOPPED", !.start = TRUE] ELSE ui
  /\ UNCHANGED w

\* onDestroy stops a client that runs and destroys the worker.  A client that
\* only starts has no tun2proxy thread: the process ends with an exception.
onDestroy ==
  /\ On("android")
  /\ \/ ui.state = "STARTED" /\ onStopVpn([ui EXCEPT !.life = "leaving"])
     \/ /\ ui.state = "STARTING"
        /\ ui' = [ui EXCEPT !.life = "gone"] /\ UNCHANGED w
     \/ /\ ui.state \in {"STOPPED", "STOPPING"}
        /\ ui' = [ui EXCEPT !.life = "leaving"] /\ UNCHANGED w
  /\ UNCHANGED inbox

getRealtimeTransferRate == Polls("android")

Android ==
  \/ onNativeCreate \/ onStartClicked \/ onNativeStarted \/ onStartVpn \/ onStopClicked
  \/ onNativeStopped \/ onDestroy \/ getRealtimeTransferRate

-----------------------------------------------------------------------------
(* HarmonyOS.                                                              *)

harmony_loadConfig(u) == LoadFields(u)
harmony_saveConfig(u) == ReadConfigFromArgument(u, u.form)
startWorker == w' = Start(w)
stopWorker == w' = Stop(w)

onStartFailedWithMsg(u) == Buttons([u EXCEPT !.state = "STOPPED"], TRUE, FALSE)

initRoutine ==
  /\ ui.plat = "harmony" /\ ui.life = "new"
  /\ ui' = harmony_loadConfig([ui EXCEPT !.life = "up"]) /\ UNCHANGED <<w, inbox>>

harmony_onStartClicked ==
  /\ Acts("harmony") /\ ui.state = "STOPPED"
  /\ LET u == Buttons(Acted([ui EXCEPT !.state = "STARTING"]), FALSE, FALSE)
     IN  IF Accepted(u.form) THEN ui' = harmony_saveConfig(u) /\ startWorker
         ELSE ui' = onStartFailedWithMsg(u) /\ UNCHANGED w
  /\ UNCHANGED inbox

startWorkerCallingJS ==
  /\ \/ /\ Handles("harmony", "started")
        /\ ui' = Buttons([ui EXCEPT !.state = "STARTED"], FALSE, TRUE)
     \/ Handles("harmony", "failed") /\ ui' = onStartFailedWithMsg(ui)
  /\ UNCHANGED w

harmony_onStopClicked ==
  /\ Acts("harmony") /\ ui.state = "STARTED"
  /\ ui' = Buttons(Acted([ui EXCEPT !.state = "STOPPING"]), FALSE, FALSE)
  /\ stopWorker /\ UNCHANGED inbox

stopWorkerCallingJS ==
  /\ Handles("harmony", "stopped")
  /\ ui' = Buttons([ui EXCEPT !.state = "STOPPED"], TRUE, FALSE)
  /\ UNCHANGED w

destroyRoutine == Leaves("harmony")

Harmony ==
  \/ initRoutine \/ harmony_onStartClicked \/ startWorkerCallingJS
  \/ harmony_onStopClicked \/ stopWorkerCallingJS \/ destroyRoutine

MobileNext == Android \/ Harmony
=============================================================================
