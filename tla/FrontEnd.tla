------------------------------ MODULE FrontEnd ------------------------------
(***************************************************************************)
(* What the user interfaces have in common: a state_ that follows the      *)
(* worker, two buttons, a form that is locked while the client runs, the   *)
(* flags the form is read into and the configuration on disk.  Each        *)
(* platform has a module of its own that says what its handlers do with    *)
(* this record, ui:                                                        *)
(*   plat            the program                                           *)
(*   state           state_ of the application object                      *)
(*   start, stop     whether the buttons take a click                      *)
(*   locked          whether the fields of the form are insensitive        *)
(*   form            what the fields hold                                  *)
(*   flags           the absl flags the fields were last read into         *)
(*   saved           what config::SaveConfig last wrote                    *)
(*   modal           a modal message box or dialog has the main loop       *)
(*   lost            an event of the worker was thrown away (Windows)      *)
(*   tunnel          the packet tunnel beside the worker (mobile programs) *)
(*   changed         the app is not told of the tunnel's status yet (Apple)*)
(*   timers          refresh timers that fire and that nobody can stop     *)
(*   life            new, up, then the steps of the exit                   *)
(*   acts            user actions left, the bound of the model             *)
(***************************************************************************)
EXTENDS Worker

CONSTANTS
  BadForm,     \* a form that ReadConfigFromArgument refuses
  MaxActs      \* bound: actions of the user in one run of the program

VARIABLE ui

TunnelStatus == {"none", "requested", "starting", "up", "stopping"}
States == {"STOPPED", "STARTING", "STARTED", "START_FAILED", "STOPPING"}

FrontEndTypeOK(platforms) ==
  ui \in [plat : platforms, state : States, start : BOOLEAN, stop : BOOLEAN,
          locked : BOOLEAN, form : Configs \cup {BadForm}, flags : Configs,
          saved : Configs, modal : BOOLEAN, lost : BOOLEAN,
          tunnel : TunnelStatus, changed : BOOLEAN, timers : Nat,
          life : {"new", "up", "leaving", "ending", "joining", "gone"},
          acts : 0..MaxActs]

FrontEndInit(platforms) ==
  \E p \in platforms, c \in Configs :
    ui = [plat |-> p, state |-> "STOPPED", start |-> TRUE, stop |-> FALSE,
          locked |-> FALSE, form |-> BadForm, flags |-> c, saved |-> c,
          modal |-> FALSE, lost |-> FALSE, tunnel |-> "none", changed |-> FALSE, timers |-> 0,
          life |-> "new", acts |-> MaxActs]

On(p) == ui.plat = p /\ ui.life = "up"

\* A click or another input of the user, within the bound.
Acts(p) == On(p) /\ ui.acts > 0
Acted(u) == [u EXCEPT !.acts = @ - 1]

\* config::ReadConfigFromArgument checks every field before it sets a flag.
Accepted(form) == form # BadForm
ReadConfigFromArgument(u, fields) ==
  IF Accepted(fields) THEN [u EXCEPT !.flags = fields] ELSE u

\* config::SaveConfig writes the flags to the disk.
SaveConfig(u) == [u EXCEPT !.saved = u.flags]

\* The idioms of the windows.
Lock(u) == [u EXCEPT !.start = FALSE, !.stop = FALSE, !.locked = TRUE]
Unlock(u) == [u EXCEPT !.start = TRUE, !.stop = FALSE, !.locked = FALSE]
Buttons(u, start, stop) == [u EXCEPT !.start = start, !.stop = stop]

\* An OnStart that reads the form and, when it is refused, fails at once.
Starts(Save(_), u, OnFailed(_)) ==
  LET s == [u EXCEPT !.state = "STARTING"]
  IN  IF Accepted(u.form)
      THEN ui' = Save(s) /\ w' = Start(w)
      ELSE ui' = OnFailed(s) /\ UNCHANGED w

Stops(u) == ui' = [u EXCEPT !.state = "STOPPING"] /\ w' = Stop(w)

\* The flags fill the fields of the form.
LoadFields(u) == [u EXCEPT !.form = u.flags]

\* The program comes up; with autostart on it clicks its own start button.
Activates(p, Load(_), OnStart(_)) ==
  /\ ui.plat = p /\ ui.life = "new"
  /\ LET u == Load([ui EXCEPT !.life = "up"])
     IN  (ui' = u /\ UNCHANGED w) \/ OnStart(u)
  /\ UNCHANGED inbox

\* The program leaves its main loop.
Leaves(p) ==
  On(p) /\ ui' = [ui EXCEPT !.life = "leaving"] /\ UNCHANGED <<w, inbox>>

\* The status bar asks for the number of connections, in state STARTED only.
Polls(p) ==
  On(p) /\ ui.state = "STARTED" /\ w' = NumOfConnections(w) /\ UNCHANGED <<ui, inbox>>

\* The first event of the worker, handled on the user interface's thread.
Handles(p, event) == On(p) /\ inbox # <<>> /\ Head(inbox) = event /\ inbox' = Tail(inbox)

\* The user edits the form, where the fields allow it.
Edit ==
  /\ ui.life = "up" /\ ui.acts > 0 /\ ~ui.locked /\ ~ui.modal
  /\ \E f \in (Configs \cup {BadForm}) \ {ui.form} : ui' = Acted([ui EXCEPT !.form = f])
  /\ UNCHANGED <<w, inbox>>

-----------------------------------------------------------------------------
(* The end of the program: ~Worker runs on the user interface's thread,    *)
(* which serves no event any more.                                         *)

DestroyWorker ==
  \/ /\ ui.life = "leaving"
     /\ ui' = [ui EXCEPT !.life = "ending"] /\ w' = DropCallbacks(w)
     /\ UNCHANGED inbox
  \/ /\ ui.life = "ending"
     /\ ui' = [ui EXCEPT !.life = "joining"] /\ w' = EndLoop(w)
     /\ UNCHANGED inbox

JoinWorker ==
  /\ ui.life = "joining" /\ w.pc = "done"
  /\ ui' = [ui EXCEPT !.life = "gone"]
  /\ UNCHANGED <<w, inbox>>
=============================================================================
