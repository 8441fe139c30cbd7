------------------------------- MODULE Launcher -------------------------------
(***************************************************************************)
(* The launchers of apps that declare [tool.haglio.production], run beside *)
(* the updater: a launch lets the updater catch the checkouts up, holds    *)
(* their turns shared (HoldGates), starts the app and lets go.  The app's  *)
(* UpdateWatch starts it again through its launcher when an update waits   *)
(* for it.                                                                 *)
(***************************************************************************)
EXTENDS ProductionUpdate

CONSTANT MaxCopies   \* bound: how many copies of one launch's app run

ASSUME CopiesAssumption == MaxCopies \in Nat \ {0}

VARIABLE
  gate   \* the gate of its list it opens next

launcherVars == <<lpc, startedBy, gate>>
vars == <<checkoutVars, updaterVars, launcherVars>>

(* "ending": the app is to be started again, its pythonw waits for the copy
   that asked; "ended": that copy has.                                    *)
LauncherSteps ==
  {"closed", "catch up", "gates", "release", "ending", "ended"}

LauncherTypeOK ==
  /\ lpc \in [Launches -> LauncherSteps]
  /\ startedBy \in [Launches -> Launches \cup {NoOne}]
  /\ gate \in [Launches -> Nat \ {0}]

TypeOK == CheckoutsTypeOK /\ UpdaterTypeOK /\ LauncherTypeOK

Init ==
  /\ CheckoutsInit
  /\ UpdaterInit
  /\ lpc = [l \in Launches |-> "closed"]
  /\ startedBy = [l \in Launches |-> NoOne]
  /\ gate = [l \in Launches |-> 1]

LauncherGoes(l, step) == lpc' = [lpc EXCEPT ![l] = step]

(* CatchUp starts the updater for this launch's checkouts. *)
CatchUp(l, by) ==
  /\ upc[l] = "off"
  /\ startedBy' = [startedBy EXCEPT ![l] = by]
  /\ LauncherGoes(l, "catch up")
  /\ Begins(l)
  /\ UNCHANGED <<checkoutVars, at, aim, todo, outcome, status, onePass, heads,
                 budget, gate>>

(* The app is launched, by a person or by another app that runs its launcher,
   while fewer than MaxCopies of it run.                                  *)
Open(l) ==
  /\ lpc[l] = "closed"
  /\ copies[l] < MaxCopies
  /\ \E by \in {NoOne} \cup {k \in Launches \ {l} : copies[k] > 0} :
       CatchUp(l, by)

(* The updater has ended, however it did; whose it was matters no more. *)
CaughtUp(l) ==
  /\ lpc[l] = "catch up"
  /\ upc[l] = "off"
  /\ LauncherGoes(l, "gates")
  /\ startedBy' = [startedBy EXCEPT ![l] = NoOne]
  /\ UNCHANGED <<checkoutVars, updaterVars, gate>>

(* Holds(index): the turn opens unless an update has it alone. *)
HoldGate(l) ==
  /\ lpc[l] = "gates"
  /\ gate[l] <= Len(Gates[l])
  /\ GateIsOpen(Gates[l][gate[l]])
  /\ shared' = [shared EXCEPT ![Gates[l][gate[l]]] = @ \cup {l}]
  /\ gate' = [gate EXCEPT ![l] = @ + 1]
  /\ UNCHANGED <<repository, venvs, alone, waiting, copies, updaterVars, lpc,
                 startedBy>>

(* A fault: one gate is enough. *)
RunAppThroughOneGate(l) ==
  /\ lpc[l] = "gates"
  /\ gate[l] > 1
  /\ copies' = [copies EXCEPT ![l] = @ + 1]
  /\ LauncherGoes(l, "release")
  /\ UNCHANGED <<repository, venvs, turns, waiting, updaterVars, startedBy,
                 gate>>

(* shell.Run, with every gate held: the app's process is there from here. *)
RunApp(l) ==
  /\ lpc[l] = "gates"
  /\ gate[l] > Len(Gates[l])
  /\ copies' = [copies EXCEPT ![l] = @ + 1]
  /\ LauncherGoes(l, "release")
  /\ UNCHANGED <<repository, venvs, turns, waiting, updaterVars, startedBy,
                 gate>>

(* ReleaseGates, or Windows closing what a launcher that quit had open. *)
Closes(l) ==
  /\ shared' = [c \in Checkouts |-> shared[c] \ {l}]
  /\ gate' = [gate EXCEPT ![l] = 1]
  /\ LauncherGoes(l, "closed")
  /\ UNCHANGED <<repository, venvs, alone, waiting, copies, updaterVars,
                 startedBy>>

ReleaseGates(l) ==
  /\ lpc[l] = "release"
  /\ Closes(l)

(* WScript.Quit: canceled at the loading screen, or a gate not opened for
   LAUNCH_WAIT_S.  The updater it started runs on.                        *)
Quit(l) ==
  /\ lpc[l] \in {"catch up", "gates"}
  /\ Closes(l)

(* A copy of the app is closed, or ends: the one that asked to be started
   again or another, and with it the launches that had it for a parent.   *)
AppEnds(l) ==
  /\ copies[l] > 0
  /\ copies' = [copies EXCEPT ![l] = @ - 1]
  /\ \E orphans \in SUBSET {k \in Launches : startedBy[k] = l} :
       /\ copies[l] = 1 => \A k \in Launches : startedBy[k] = l => k \in orphans
       /\ startedBy' = [k \in Launches |->
                          IF k \in orphans THEN NoOne ELSE startedBy[k]]
  /\ \/ lpc[l] = "ending" /\ LauncherGoes(l, "ended")
     \/ (lpc[l] = "ending" => copies[l] > 1) /\ UNCHANGED lpc
  /\ UNCHANGED <<repository, venvs, turns, waiting, updaterVars, gate>>

(* UpdateWatch.tick at a good moment: the app's own checkout has word of an
   update that waits, so the app ends and is to be started again.         *)
StartAgain(l) ==
  /\ lpc[l] = "closed"
  /\ copies[l] > 0
  /\ Gates[l][1] \in waiting
  /\ LauncherGoes(l, "ending")
  /\ UNCHANGED <<checkoutVars, updaterVars, startedBy, gate>>

(* _THEN_THE_LAUNCHER: once that copy has ended; or two minutes are up, and
   the launcher is run under the copy that does not end.                  *)
RunAgain(l) ==
  /\ copies[l] < MaxCopies
  /\ \/ lpc[l] = "ended" /\ CatchUp(l, NoOne)
     \/ lpc[l] = "ending" /\ CatchUp(l, l)

LauncherStep(l) == CaughtUp(l) \/ HoldGate(l) \/ RunApp(l) \/ ReleaseGates(l)

(* What a launcher and its app do of themselves. *)
LaunchNext(l) ==
  \/ Open(l) \/ LauncherStep(l) \/ Quit(l)
  \/ AppEnds(l) \/ StartAgain(l) \/ RunAgain(l)

Next ==
  \/ \E c \in Checkouts :
       (Ship(c) \/ KeepOrNot(c)) /\ UNCHANGED <<updaterVars, launcherVars>>
  \/ \E c \in Checkouts : RetryDue(c) /\ UNCHANGED launcherVars
  \/ \E p \in Passes :
       (PassBegins(p) \/ PassUnanswered(p)) /\ UNCHANGED launcherVars
  \/ \E u \in Updaters :
       (UpdaterStep(u) \/ UpdaterFault(u)) /\ UNCHANGED launcherVars
  \/ \E l \in Launches : LaunchNext(l)

Spec == Init /\ [][Next]_vars

(* The scheduled task starts a pass every two minutes, a run of the updater
   and a launcher go on, and half an hour goes by.  Nobody has to launch or
   close an app.                                                          *)
Fairness ==
  /\ \A p \in Passes : WF_vars(PassBegins(p) /\ UNCHANGED launcherVars)
  /\ \A u \in Updaters : WF_vars(UpdaterStep(u) /\ UNCHANGED launcherVars)
  /\ \A c \in Checkouts : WF_vars(RetryDue(c) /\ UNCHANGED launcherVars)
  /\ \A l \in Launches : WF_vars(LauncherStep(l))

(* An app that beats an UpdateWatch comes to a good moment, ends when it is
   starting again, and its launcher is run.                               *)
WatchFairness ==
  \A l \in Launches :
    /\ WF_vars(StartAgain(l))
    /\ WF_vars(lpc[l] = "ending" /\ AppEnds(l))
    /\ WF_vars(RunAgain(l))

FairSpec == Spec /\ Fairness

(***************************************************************************)
(* Properties.                                                             *)
(***************************************************************************)

(* The code, the libraries or the install of a checkout moves. *)
Moved(c) == head[c] # head'[c] \/ libs[c] # libs'[c] \/ venvAt[c] # venvAt'[c]

(* No copy runs out of the checkout or out of one that starts programs from
   it, unless it is the only one and itself ran the launcher of run u.    *)
NoOtherCopyRuns(u, c) ==
  \A k \in Launches :
    c \in RunsFrom(k) =>
      \/ copies[k] = 0
      \/ copies[k] = 1 /\ u \in Launches /\ startedBy[u] = k

(* Nothing moves, not the code, not the libraries and not the install, while
   one of his programs, started by its launcher, runs out of the checkout or
   out of one that starts programs from it, however the programs, the
   launches and the updates cross.  Left out is the one program an update
   does not see: the copy that itself ran the launcher the update is for and
   has not ended since.  (_bring_up_to, running_from, HoldGates)          *)
NothingMovesUnderAnApp ==
  [][\A c \in Checkouts : Moved(c) => NoOtherCopyRuns(alone[c], c)]_vars

(* Said of the program: an app that starts again "runs the launcher once this
   copy has ended ... so nothing runs out of the venv while the catch-up
   updates it".  (start_again_after, running_from)                        *)
NothingMovesUnderItself ==
  [][\A c \in Checkouts :
       Moved(c) =>
         \A l \in Launches :
           alone[c] = l /\ c \in RunsFrom(l) => copies[l] = 0]_vars

(* A launch waits for an update rather than starting half way through one:
   when the app starts, no updater is between the first and the last step
   of an update of any checkout the app uses.  (HoldGates, RunApp)        *)
NoStartHalfWayThrough ==
  [][\A l \in Launches : copies'[l] > copies[l] =>
       \A u \in Updaters :
         upc[u] = "carry out" => Current(u) \notin RunsFrom(l)]_vars

(* The libraries go in before the code: code moves only forward, and to a
   version whose pins the venv answers to at that moment, however stale
   the plan or the previous attempt.  (_carry_out)                        *)
LibrariesBeforeCode ==
  [][\A c \in Checkouts :
       head[c] # head'[c] =>
         head'[c] > head[c] /\ libs[c] = Pins[head'[c]]]_vars

(* Two updaters are never at the same checkout's venv, though any number
   plan for it.  (the_turn)                                               *)
OneUpdaterAtACheckout ==
  \A u, v \in Updaters :
    upc[u] \in InTurn /\ upc[v] \in InTurn /\ Current(u) = Current(v)
      => u = v

(* What has shipped arrives, with the libraries it pins, in a checkout that
   is in the end left in peace, whatever failed, died or was said busy on
   the way.  (keep_up, RETRY_FAILED_AFTER_S)                              *)
LeftInPeace(c) == ~AnAppRunsFrom(c) /\ shared[c] = {} /\ c \notin kept

ShippedCodeArrives ==
  \A c \in Checkouts :
    <>[]LeftInPeace(c)
      => <>[](head[c] = shipped[c] /\ libs[c] = Pins[head[c]])

(* It arrives too in a checkout whose app nobody ever closes, when the app
   beats an UpdateWatch (WatchFairness) and the wait of a launch outlasts,
   from some time on, whoever has the turn, whatever failed on the way.
   (UpdateWatch, start_again_after)                                       *)
ANeverClosedAppTakesIt ==
  (/\ WatchFairness
   /\ <>[][\A l \in Launches : ~NoTurn(l)]_vars
   /\ \A c \in Checkouts : <>[](c \notin kept))
    => \A c \in Checkouts : <>[](head[c] = shipped[c])

(* Said of the program: the updater updates "never while something of his
   runs out of" a checkout.  The run of the updater a launch makes is such
   a program, out of the updater's own venv.  (main, running_from)        *)
NothingMovesUnderAnUpdater ==
  [][\A c \in Checkouts :
       c = Home /\ Moved(c) =>
         \A v \in Launches : upc[v] = "off" \/ alone[c] = v]_vars

(* Said of the program: .git/production-update.waiting is there while an
   update waits for his programs.  Then a run that has the turn and is
   about to say that its update failed has left no such word.
   (_waiting_for, _not_waiting)                                           *)
TheWordIsOfAWait ==
  \A u \in Updaters :
    upc[u] = "let go" /\ outcome[u][Current(u)].said = "failed"
      => Current(u) \notin waiting

(* Said of the program: what a checkout installs reaches its venv with the
   commit that names it.  Then a checkout left in peace is in the end
   installed from the pyproject it is at.  (_plan, _carry_out)            *)
WhatItInstallsArrives ==
  \A c \in Checkouts :
    <>[]LeftInPeace(c) => <>[](venvAt[c] = Pyproject[head[c]])
=============================================================================
