---------------------------- MODULE LoadingScreen ----------------------------
(***************************************************************************)
(* The loading screen of a launcher (loading_screen.py, and what           *)
(* launcher.py renders around it).  The script, its screen, the run of the *)
(* updater it waits for and the app are processes of their own that meet   *)
(* in a folder of flags, which every launch of that app shares and the     *)
(* next one empties.  Where the screen stands (SHOWN) and what it draws are *)
(* left out; the turn of the updater itself is in Launcher.                *)
(***************************************************************************)
EXTENDS Integers

CONSTANT Openings  \* launches of one app

VARIABLES
  flags,     \* which of SaidAtEachLaunch are in the folder
  late,      \* STARTED is older than TAKING_OVER_WITHIN_S
  script,    \* where each launcher script is
  screen,    \* its loading screen
  updater,   \* the run of the updater it started
  app,       \* the app it started
  ready,     \* the ready file is beside the log
  pictures,  \* an app left pictures of its screen
  canceled   \* history: a cancel its script still has to heed

screenVars == <<flags, late, script, screen, updater, app, ready, pictures,
                canceled>>

SaidAtEachLaunch == {"taken", "started", "ended", "canceled", "updated"}

Before == {"updating", "gate", "prepare", "last look"}
ScriptSteps == Before \cup
  {"out", "run", "say", "watch", "dialog", "ended"}

ScreenTypeOK ==
  /\ flags \subseteq SaidAtEachLaunch
  /\ late \in BOOLEAN
  /\ script \in [Openings -> ScriptSteps]
  /\ screen \in [Openings -> {"none", "up", "canceling", "gone"}]
  /\ updater \in [Openings -> {"none", "runs", "ended"}]
  /\ app \in [Openings -> {"none", "starting", "up", "exited"}]
  /\ ready \in BOOLEAN /\ pictures \in BOOLEAN
  /\ canceled \in [Openings -> BOOLEAN]

(* Beside the log of the app, which other launches may have left pictures. *)
ScreenInit ==
  /\ flags = {} /\ late = FALSE
  /\ script = [l \in Openings |-> "out"]
  /\ screen = [l \in Openings |-> "none"]
  /\ updater = [l \in Openings |-> "none"]
  /\ app = [l \in Openings |-> "none"]
  /\ ready = FALSE /\ pictures \in BOOLEAN
  /\ canceled = [l \in Openings |-> FALSE]

Step(l, next) == script' = [script EXCEPT ![l] = next]
Say(flag) == flags' = flags \cup {flag}

(***************************************************************************)
(* The script.                                                             *)
(***************************************************************************)

(* ShowLoadingScreen empties the folder and starts the screen, when there
   are pictures of one; CatchUp starts the updater.                       *)
Shows(l) ==
  /\ script[l] = "out"
  /\ flags' = {} /\ late' = FALSE
  /\ screen' = [screen EXCEPT ![l] = IF pictures THEN "up" ELSE "none"]
  /\ updater' = [updater EXCEPT ![l] = "runs"]
  /\ canceled' = [k \in Openings |-> FALSE]
  /\ Step(l, "updating")
  /\ UNCHANGED <<app, ready, pictures>>

CatchesUp(l) ==
  /\ script[l] = "updating" /\ "updated" \in flags
  /\ Step(l, "gate")
  /\ UNCHANGED <<flags, late, screen, updater, app, ready, pictures, canceled>>

(* Once no update is carried out there, which Launcher has, and no rebase. *)
HoldsGates(l) ==
  /\ script[l] = "gate"
  /\ Step(l, "prepare")
  /\ UNCHANGED <<flags, late, screen, updater, app, ready, pictures, canceled>>

(* Its copies, environment and log; the ready file of the one before goes. *)
Prepares(l) ==
  /\ script[l] = "prepare"
  /\ ready' = FALSE
  /\ Step(l, "last look")
  /\ UNCHANGED <<flags, late, screen, updater, app, pictures, canceled>>

(* A fault: the script looks no more once it holds the gate. *)
LooksNoMore(l) ==
  /\ script[l] = "last look"
  /\ Step(l, "run")
  /\ UNCHANGED <<flags, late, screen, updater, app, ready, pictures, canceled>>

GoesOn(l) ==
  /\ script[l] = "last look" /\ "canceled" \notin flags
  /\ Step(l, "run")
  /\ UNCHANGED <<flags, late, screen, updater, app, ready, pictures, canceled>>

(* StopIfCanceled, at every beat of its waits and before the app runs. *)
StopsIfCanceled(l) ==
  /\ script[l] \in {"updating", "gate", "last look"} /\ "canceled" \in flags
  /\ Step(l, "ended")
  /\ canceled' = [canceled EXCEPT ![l] = FALSE]
  /\ UNCHANGED <<flags, late, screen, updater, app, ready, pictures>>

(* A wait of LAUNCH_WAIT_S for the gates, or the script killed. *)
ScriptEnds(l) ==
  /\ script[l] \notin {"out", "ended"}
  /\ Step(l, "ended")
  /\ canceled' = [canceled EXCEPT ![l] = FALSE]
  /\ UNCHANGED <<flags, late, screen, updater, app, ready, pictures>>

RunsTheApp(l) ==
  /\ script[l] = "run"
  /\ app' = [app EXCEPT ![l] = "starting"]
  /\ Step(l, "say")
  /\ UNCHANGED <<flags, late, screen, updater, ready, pictures, canceled>>

SaysStarted(l) ==
  /\ script[l] = "say"
  /\ Say("started") /\ late' = FALSE
  /\ Step(l, "watch")
  /\ UNCHANGED <<screen, updater, app, ready, pictures, canceled>>

(* Started() found the ready file. *)
SeesItUp(l) ==
  /\ script[l] = "watch" /\ ready
  /\ Say("ended")
  /\ Step(l, "ended")
  /\ UNCHANGED <<late, screen, updater, app, ready, pictures, canceled>>

(* Tell: a screen, up or gone, is taken down before a dialog. *)
TakesDown(l) == IF screen[l] = "none" THEN UNCHANGED flags ELSE Say("ended")

(* The app exited, or 45 s went by. *)
RefusesTheLaunch(l) ==
  /\ script[l] = "watch" /\ ~ready
  /\ TakesDown(l)
  /\ Step(l, "dialog")
  /\ UNCHANGED <<late, screen, updater, app, ready, pictures, canceled>>

(***************************************************************************)
(* The updater, the app, the screen.                                       *)
(***************************************************************************)

(* A script that was canceled leaves its updater running: the next launch
   may take its word for its own.                                         *)
UpdaterEnds(l) ==
  /\ updater[l] = "runs"
  /\ updater' = [updater EXCEPT ![l] = "ended"]
  /\ Say("updated")
  /\ UNCHANGED <<late, script, screen, app, ready, pictures, canceled>>

(* An app that has a screen of its own says that it took over. *)
AppComesUp(l) ==
  /\ app[l] = "starting"
  /\ app' = [app EXCEPT ![l] = "up"]
  /\ ready' = TRUE
  /\ \E over \in BOOLEAN : IF over THEN Say("taken") ELSE UNCHANGED flags
  /\ UNCHANGED <<late, script, screen, updater, pictures, canceled>>

(* leave_snapshots, for the launches to come. *)
LeavesPictures(l) ==
  /\ app[l] = "up"
  /\ pictures' = TRUE
  /\ UNCHANGED <<flags, late, script, screen, updater, app, ready, canceled>>

(* The cmd around it says so, unless it was ended as well. *)
AppExits(l) ==
  /\ app[l] \in {"starting", "up"}
  /\ app' = [app EXCEPT ![l] = "exited"]
  /\ Say("ended") \/ UNCHANGED flags
  /\ UNCHANGED <<late, script, screen, updater, ready, pictures, canceled>>

LauncherRunning(l) == script[l] # "ended"

(* A fault: a screen that waits for a flag, whoever is gone. *)
OverWhenTold(l) ==
  {"taken", "ended"} \cap flags # {} \/ ("started" \in flags /\ late)

Over(l) ==
  \/ {"taken", "ended"} \cap flags # {}
  \/ IF "started" \in flags THEN late ELSE ~LauncherRunning(l)

(* _poll, every 100 ms, and _go. *)
Polls(l) ==
  /\ screen[l] = "up"
  /\ Over(l)
  /\ screen' = [screen EXCEPT ![l] = "gone"]
  /\ UNCHANGED <<flags, late, script, updater, app, ready, pictures, canceled>>

(* Escape, while the app has not started ... *)
LooksToCancel(l) ==
  /\ screen[l] = "up" /\ "started" \notin flags
  /\ screen' = [screen EXCEPT ![l] = "canceling"]
  /\ UNCHANGED <<flags, late, script, updater, app, ready, pictures, canceled>>

(* ... which it may have, by now. *)
Cancels(l) ==
  /\ screen[l] = "canceling"
  /\ Say("canceled")
  /\ screen' = [screen EXCEPT ![l] = "gone"]
  /\ canceled' = [canceled EXCEPT ![l] = script[l] \in Before]
  /\ UNCHANGED <<late, script, updater, app, ready, pictures>>

TimePasses ==
  /\ "started" \in flags /\ ~late /\ late' = TRUE
  /\ UNCHANGED <<flags, script, screen, updater, app, ready, pictures, canceled>>

ScriptStep(l) ==
  \/ Shows(l) \/ CatchesUp(l) \/ HoldsGates(l) \/ Prepares(l) \/ GoesOn(l)
  \/ StopsIfCanceled(l) \/ ScriptEnds(l) \/ RunsTheApp(l) \/ SaysStarted(l)
  \/ SeesItUp(l) \/ RefusesTheLaunch(l)

ScreenStep(l) == Polls(l) \/ Cancels(l)

ScreenNext ==
  \/ \E l \in Openings :
       \/ ScriptStep(l) \/ UpdaterEnds(l) \/ AppComesUp(l) \/ LeavesPictures(l)
       \/ AppExits(l) \/ ScreenStep(l) \/ LooksToCancel(l)
  \/ TimePasses

ScreenSpec == ScreenInit /\ [][ScreenNext]_screenVars

(***************************************************************************)
(* Properties.                                                             *)
(***************************************************************************)

(* A launch canceled before its script looked for the last time does not
   run the app, at whatever step of its waits the cancel met it, unless
   another launch emptied the folder after it.                            *)
ACancelIsHeeded ==
  \A l \in Openings :
    canceled[l] => script[l] \in Before /\ app[l] = "none"

(* No screen stays up for ever, whichever of its script, its updater and
   its app died, and whichever flags another launch took from under it:
   again and again there is none.                                         *)
EveryScreenGoes == []<>(\A l \in Openings : screen[l] # "up")
=============================================================================
