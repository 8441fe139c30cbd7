---------------------------- MODULE LauncherSafety ----------------------------
(***************************************************************************)
(* Type correctness of the launchers and the updater, in any number: that  *)
(* a run is at a checkout of its round when it says what became of it      *)
(* (InPlace) comes from the invariant of the turns.  Then what that        *)
(* invariant is for: two updaters never change one checkout, nothing moves *)
(* under an app, unless it is the one that ran the launcher of the update, *)
(* no app starts half way through an update, and code never moves ahead of *)
(* the libraries it pins.                                                  *)
(***************************************************************************)
EXTENDS LauncherProofs

(***************************************************************************)
(* The pieces of a step.                                                   *)
(***************************************************************************)

LEMMA VersionTypes ==
  /\ 0 \in Versions /\ Versions \subseteq Nat
  /\ \A v \in Versions : Pins[v] \in Libraries /\ Pyproject[v] \in Installs
  /\ Mixed \in Libraries /\ Mixed \in Installs
  BY VersionsAssumption DEF Versions, Libraries, Installs

LEMMA SaidIsAnOutcome ==
  ASSUME NEW what \in Sayings
  PROVE  Said(what) \in Outcomes
  BY DEF Said, Outcomes

LEMMA FailedIsAnOutcome ==
  ASSUME NEW target \in Versions
  PROVE  Failed(target) \in Outcomes
  BY DEF Failed, Outcomes, Sayings

LEMMA SayTypes ==
  ASSUME UpdaterTypeOK, NEW u \in Updaters, NEW what \in Outcomes, Say(u, what)
  PROVE  outcome' \in [Updaters -> [Checkouts -> Outcomes]]
  BY DEF Say, UpdaterTypeOK

LEMMA GotoTypes ==
  ASSUME UpdaterTypeOK, NEW u \in Updaters, NEW step \in UpdaterSteps,
         Goto(u, step)
  PROVE  upc' \in [Updaters -> UpdaterSteps]
  BY DEF Goto, UpdaterTypeOK

LEMMA NextOneTypes ==
  ASSUME UpdaterTypeOK, NEW u \in Updaters, NextOne(u)
  PROVE  /\ upc' \in [Updaters -> UpdaterSteps]
         /\ at' \in [Updaters -> Nat \ {0}]
         /\ aim' \in [Updaters -> Versions]
         /\ todo' \in [Updaters -> SUBSET CarrySteps]
  BY VersionTypes DEF NextOne, Goto, FirstStep, UpdaterSteps, UpdaterTypeOK

LEMMA BeginsTypes ==
  ASSUME UpdaterTypeOK, NEW u \in Updaters, Begins(u)
  PROVE  /\ upc' \in [Updaters -> UpdaterSteps]
         /\ previous' \in [Updaters -> [Checkouts -> Outcomes]]
  BY DEF Begins, Goto, FirstStep, UpdaterSteps, UpdaterTypeOK

LEMMA EndsTypes ==
  ASSUME UpdaterTypeOK, NEW u \in Updaters, Ends(u)
  PROVE  /\ upc' \in [Updaters -> UpdaterSteps]
         /\ at' \in [Updaters -> Nat \ {0}]
         /\ aim' \in [Updaters -> Versions]
         /\ todo' \in [Updaters -> SUBSET CarrySteps]
         /\ heads' \in [Checkouts -> Versions \cup {Nowhere}]
         /\ previous' \in [Updaters -> [Checkouts -> Outcomes]]
         /\ outcome' \in [Updaters -> [Checkouts -> Outcomes]]
         /\ onePass' \in Passes \cup {NoOne}
  <1>1. Nothing \in [Checkouts -> Outcomes]
    BY SaidIsAnOutcome DEF Nothing, Sayings
  <1> QED
    BY <1>1, VersionTypes DEF Ends, Goto, UpdaterSteps, UpdaterTypeOK, NoAnswer

LEMMA LeftHalfDoneTypes ==
  ASSUME CheckoutsTypeOK, NEW u \in Updaters, LeftHalfDone(u)
  PROVE  /\ head' \in [Checkouts -> Versions]
         /\ libs' \in [Checkouts -> Libraries]
         /\ venvAt' \in [Checkouts -> Installs]
  BY VersionTypes DEF LeftHalfDone, CheckoutsTypeOK

(***************************************************************************)
(* Every kind of step.                                                     *)
(***************************************************************************)

LEMMA RunTypes ==
  ASSUME IInv, TypeOK, NEW u \in Updaters, UpdaterStep(u) \/ UpdaterFault(u),
         UNCHANGED launcherVars
  PROVE  TypeOK'
  <1> USE DEF TypeOK, LauncherTypeOK, launcherVars, checkoutVars, repository,
              venvs, turns, budget
  <1>0. UpdaterTypeOK /\ failures \in Nat /\ deaths \in Nat
    BY Zenon DEF UpdaterTypeOK
  <1>1. upc[u] \notin {"off", "record"} => Current(u) \in Checkouts
    BY CurrentIsACheckout DEF IInv, Locks
  <1>2. CASE Fetch(u)
    BY <1>1, <1>2, GotoTypes
       DEF Fetch, CheckoutsTypeOK, UpdaterTypeOK, UpdaterSteps
  <1>25. CASE NotWorthFetching(u)
    BY <1>1, <1>25, GotoTypes
       DEF NotWorthFetching, CheckoutsTypeOK, UpdaterTypeOK, UpdaterSteps
  <1>26. CASE HeadingFails(u)
    <2>1. Failed(Nowhere) \in Outcomes
      BY DEF Failed, Outcomes, Sayings
    <2>2. outcome' \in [Updaters -> [Checkouts -> Outcomes]]
      <3>1. Say(u, Failed(Nowhere))
        BY <1>26, Zenon DEF HeadingFails
      <3> QED
        BY <1>0, <2>1, <3>1, SayTypes
    <2>3. failures' \in Nat
      <3>1. failures' = failures + 1
        BY <1>26, Zenon DEF HeadingFails
      <3> QED
        BY <1>0, <3>1
    <2> QED
      BY <1>26, <2>2, <2>3, NextOneTypes
         DEF HeadingFails, CheckoutsTypeOK, UpdaterTypeOK, NotWaiting
  <1>3. CASE Heading(u)
    BY <1>1, <1>3, GotoTypes
       DEF Heading, CheckoutsTypeOK, UpdaterTypeOK, UpdaterSteps
  <1>4. CASE NotAgainYet(u)
    <2>1. previous[u][Current(u)] \in Outcomes
      BY <1>1, <1>4 DEF NotAgainYet, UpdaterTypeOK
    <2> QED
      BY <1>4, <2>1, SayTypes, NextOneTypes
         DEF NotAgainYet, CheckoutsTypeOK, UpdaterTypeOK
  <1>5. CASE PlanSettled(u)
    <2>1. Said("settled") \in Outcomes
      BY SaidIsAnOutcome DEF Sayings
    <2> QED
      BY <1>5, <2>1, SayTypes, NextOneTypes
         DEF PlanSettled, CheckoutsTypeOK, UpdaterTypeOK, NotWaiting
  <1>6. CASE PlanMade(u)
    BY <1>6, GotoTypes
       DEF PlanMade, CheckoutsTypeOK, UpdaterTypeOK, UpdaterSteps
  <1>7. CASE TakeTurn(u)
    BY <1>1, <1>7, GotoTypes
       DEF TakeTurn, CheckoutsTypeOK, UpdaterTypeOK, UpdaterSteps, InTurn
  <1>8. CASE NoTurn(u)
    <2>1. Said("busy") \in Outcomes
      BY SaidIsAnOutcome DEF Sayings
    <2> QED
      BY <1>8, <2>1, SayTypes, NextOneTypes
         DEF NoTurn, CheckoutsTypeOK, UpdaterTypeOK
  <1>9. CASE ReplanSettled(u)
    <2>1. Said("settled") \in Outcomes
      BY SaidIsAnOutcome DEF Sayings
    <2> QED
      BY <1>9, <2>1, SayTypes, GotoTypes
         DEF ReplanSettled, CheckoutsTypeOK, UpdaterTypeOK, NotWaiting,
             UpdaterSteps, InTurn
  <1>10. CASE ReplanMade(u)
    <2>1. StepsOf(Current(u), aim[u]) \subseteq CarrySteps
      BY DEF StepsOf
    <2> QED
      BY <1>10, <2>1, GotoTypes
         DEF ReplanMade, CheckoutsTypeOK, UpdaterTypeOK, UpdaterSteps, InTurn
  <1>11. CASE WaitForPrograms(u)
    <2>1. Said("waiting") \in Outcomes
      BY SaidIsAnOutcome DEF Sayings
    <2> QED
      BY <1>1, <1>11, <2>1, SayTypes, GotoTypes
         DEF WaitForPrograms, CheckoutsTypeOK, UpdaterTypeOK, WaitingFor,
             UpdaterSteps, InTurn
  <1>12. CASE NothingRuns(u)
    BY <1>12, GotoTypes
       DEF NothingRuns, CheckoutsTypeOK, UpdaterTypeOK, UpdaterSteps, InTurn
  <1>13. CASE InstallLibraries(u)
    <2>1. Pins[PlannedFor(u)] \in Libraries
      BY <1>1, <1>13, VersionTypes
         DEF PlannedFor, InstallLibraries, CheckoutsTypeOK, UpdaterTypeOK
    <2> QED
      BY <1>13, <2>1
         DEF InstallLibraries, CheckoutsTypeOK, UpdaterTypeOK, Taken
  <1>14. CASE MoveCode(u)
    BY <1>14 DEF MoveCode, CheckoutsTypeOK, UpdaterTypeOK, Taken
  <1>15. CASE Reinstall(u)
    BY <1>1, <1>15, VersionTypes
       DEF Reinstall, CheckoutsTypeOK, UpdaterTypeOK, Taken
  <1>16. CASE CarriedOut(u)
    <2>1. Said("done") \in Outcomes
      BY SaidIsAnOutcome DEF Sayings
    <2> QED
      BY <1>16, <2>1, SayTypes, GotoTypes
         DEF CarriedOut, CheckoutsTypeOK, UpdaterTypeOK, NotWaiting,
             UpdaterSteps, InTurn
  <1>17. CASE LetGo(u)
    BY <1>17, NextOneTypes DEF LetGo, CheckoutsTypeOK, UpdaterTypeOK
  <1>18. CASE Record(u)
    BY <1>18, EndsTypes DEF Record, CheckoutsTypeOK, UpdaterTypeOK
  <1>19. CASE FetchFails(u)
    BY <1>19, GotoTypes
       DEF FetchFails, CheckoutsTypeOK, UpdaterTypeOK, UpdaterSteps
  <1>20. Failed(aim[u]) \in Outcomes
    BY FailedIsAnOutcome DEF UpdaterTypeOK
  <1>21. CASE PlanFails(u)
    BY <1>20, <1>21, SayTypes, NextOneTypes
       DEF PlanFails, CheckoutsTypeOK, UpdaterTypeOK
  <1>22. CASE ReplanFails(u)
    <2>1. outcome' \in [Updaters -> [Checkouts -> Outcomes]]
      <3>1. Say(u, Failed(aim[u]))
        BY <1>22, Zenon DEF ReplanFails
      <3> QED
        BY <1>0, <1>20, <3>1, SayTypes
    <2>2. upc' \in [Updaters -> UpdaterSteps]
      <3>1. Goto(u, "let go")
        BY <1>22, Zenon DEF ReplanFails
      <3> QED
        BY <1>0, <3>1, GotoTypes DEF UpdaterSteps, InTurn
    <2>3. failures' \in Nat
      <3>1. failures' = failures + 1
        BY <1>22, Zenon DEF ReplanFails
      <3> QED
        BY <1>0, <3>1
    <2> QED
      BY <1>22, <2>1, <2>2, <2>3
         DEF ReplanFails, CheckoutsTypeOK, UpdaterTypeOK
  <1>23. CASE StepFails(u)
    <2>1. outcome' \in [Updaters -> [Checkouts -> Outcomes]]
      <3>1. Say(u, Failed(aim[u]))
        BY <1>23, Zenon DEF StepFails
      <3> QED
        BY <1>0, <1>20, <3>1, SayTypes
    <2>2. upc' \in [Updaters -> UpdaterSteps]
      <3>1. Goto(u, "let go")
        BY <1>23, Zenon DEF StepFails
      <3> QED
        BY <1>0, <3>1, GotoTypes DEF UpdaterSteps, InTurn
    <2>3. failures' \in Nat
      <3>1. failures' = failures + 1
        BY <1>23, Zenon DEF StepFails
      <3> QED
        BY <1>0, <3>1
    <2>4. /\ head' \in [Checkouts -> Versions]
          /\ libs' \in [Checkouts -> Libraries]
          /\ venvAt' \in [Checkouts -> Installs]
      BY <1>23, LeftHalfDoneTypes DEF StepFails
    <2> QED
      BY <1>23, <2>1, <2>2, <2>3, <2>4
         DEF StepFails, CheckoutsTypeOK, UpdaterTypeOK
  <1>24. CASE Dies(u)
    <2>1. /\ head' \in [Checkouts -> Versions]
          /\ libs' \in [Checkouts -> Libraries]
          /\ venvAt' \in [Checkouts -> Installs]
      BY <1>24, LeftHalfDoneTypes DEF Dies, CheckoutsTypeOK
    <2>2. alone' \in [Checkouts -> Updaters \cup {NoOne}]
      BY <1>24 DEF Dies, CheckoutsTypeOK
    <2>0. Ends(u) /\ deaths' = deaths + 1
      BY <1>24, Zenon DEF Dies
    <2>3. deaths' \in Nat
      BY <1>0, <2>0
    <2>4. CheckoutsTypeOK'
      BY <1>24, <2>1, <2>2 DEF Dies, CheckoutsTypeOK
    <2>5. UpdaterTypeOK'
      BY <1>24, <2>0, <2>3, EndsTypes DEF Dies, UpdaterTypeOK
    <2> QED
      BY <2>4, <2>5
  <1> HIDE DEF TypeOK, LauncherTypeOK, launcherVars, checkoutVars, repository,
               venvs, turns, budget
  <1> QED
    BY <1>2, <1>3, <1>4, <1>5, <1>6, <1>7, <1>8, <1>9, <1>10, <1>11, <1>12,
       <1>13, <1>14, <1>15, <1>16, <1>17, <1>18, <1>19, <1>21, <1>22, <1>23,
       <1>24, <1>25, <1>26 DEF UpdaterStep, UpdaterFault

LEMMA OutsideTypes ==
  ASSUME TypeOK, NEW c \in Checkouts,
         \/ /\ Ship(c) \/ KeepOrNot(c)
            /\ UNCHANGED <<updaterVars, launcherVars>>
         \/ RetryDue(c) /\ UNCHANGED launcherVars
  PROVE  TypeOK'
  <1> USE DEF TypeOK, LauncherTypeOK, launcherVars, updaterVars, checkoutVars,
              repository, venvs, turns, budget
  <1>1. CASE Ship(c) /\ UNCHANGED <<updaterVars, launcherVars>>
    <2>1. shipped[c] + 1 \in Versions
      BY <1>1, VersionsAssumption DEF Ship, Versions, CheckoutsTypeOK
    <2> QED
      BY <1>1, <2>1 DEF Ship, CheckoutsTypeOK, UpdaterTypeOK
  <1>2. CASE KeepOrNot(c) /\ UNCHANGED <<updaterVars, launcherVars>>
    BY <1>2 DEF KeepOrNot, CheckoutsTypeOK, UpdaterTypeOK
  <1>3. CASE RetryDue(c) /\ UNCHANGED launcherVars
    <2> DEFINE aged(outcomes) == [outcomes EXCEPT ![c].failedOn = Nowhere]
    <2>1. ASSUME NEW outcomes \in [Checkouts -> Outcomes]
          PROVE  aged(outcomes) \in [Checkouts -> Outcomes]
      BY DEF Outcomes
    <2>2. /\ status' = aged(status)
          /\ previous' = [u \in Updaters |-> aged(previous[u])]
          /\ outcome' = [u \in Updaters |-> aged(outcome[u])]
          /\ UNCHANGED <<checkoutVars, upc, at, aim, todo, onePass, heads,
                         budget>>
      BY <1>3 DEF RetryDue
    <2> HIDE DEF aged
    <2>3. /\ status' \in [Checkouts -> Outcomes]
          /\ previous' \in [Updaters -> [Checkouts -> Outcomes]]
          /\ outcome' \in [Updaters -> [Checkouts -> Outcomes]]
      BY <2>1, <2>2 DEF UpdaterTypeOK
    <2> QED
      BY <1>3, <2>2, <2>3 DEF CheckoutsTypeOK, UpdaterTypeOK
  <1> QED
    BY <1>1, <1>2, <1>3

LEMMA LaunchTypes ==
  ASSUME IInv, TypeOK,
         \/ \E p \in Passes :
              (PassBegins(p) \/ PassUnanswered(p)) /\ UNCHANGED launcherVars
         \/ \E l \in Launches : LaunchNext(l)
  PROVE  TypeOK'
  <1> USE DEF TypeOK, LauncherTypeOK, launcherVars, updaterVars, checkoutVars,
              repository, venvs, turns, budget
  <1>0. /\ copies \in [Launches -> Nat]
        /\ shared \in [Checkouts -> SUBSET Launches]
        /\ gate \in [Launches -> Nat \ {0}] /\ failures \in Nat
        /\ startedBy \in [Launches -> Launches \cup {NoOne}]
    BY DEF CheckoutsTypeOK, UpdaterTypeOK
  <1>1. ASSUME NEW p \in Passes, PassBegins(p), UNCHANGED launcherVars
        PROVE  TypeOK'
    <2>1. p \in Updaters
      BY DEF Updaters
    <2> QED
      BY <1>1, <2>1, BeginsTypes
         DEF PassBegins, CheckoutsTypeOK, UpdaterTypeOK
  <1>8. ASSUME NEW p \in Passes, PassUnanswered(p), UNCHANGED launcherVars
        PROVE  TypeOK'
    <2>1. p \in Updaters
      BY DEF Updaters
    <2>2. failures' \in Nat
      <3>1. failures' = failures + 1
        BY <1>8, Zenon DEF PassUnanswered
      <3> QED
        BY <1>0, <3>1
    <2>3. heads' \in [Checkouts -> Versions \cup {Nowhere}]
      BY <1>8 DEF PassUnanswered, NoAnswer
    <2> QED
      BY <1>8, <2>1, <2>2, <2>3, BeginsTypes
         DEF PassUnanswered, CheckoutsTypeOK, UpdaterTypeOK
  <1>2. ASSUME NEW l \in Launches, Open(l) \/ RunAgain(l)
        PROVE  TypeOK'
    <2>1. l \in Updaters
      BY DEF Updaters
    <2>2. PICK by \in Launches \cup {NoOne} : CatchUp(l, by)
      BY <1>2 DEF Open, RunAgain
    <2> QED
      BY <2>1, <2>2, BeginsTypes
         DEF CatchUp, LauncherGoes, LauncherSteps, CheckoutsTypeOK,
             UpdaterTypeOK
  <1>3. ASSUME NEW l \in Launches, CaughtUp(l) \/ StartAgain(l)
        PROVE  TypeOK'
    BY <1>3 DEF CaughtUp, StartAgain, LauncherGoes, LauncherSteps,
                CheckoutsTypeOK, UpdaterTypeOK
  <1>4. ASSUME NEW l \in Launches, HoldGate(l)
        PROVE  TypeOK'
    <2>1. shared' \in [Checkouts -> SUBSET Launches]
      BY <1>0, <1>4 DEF HoldGate
    <2>2. gate' \in [Launches -> Nat \ {0}]
      <3>1. gate' = [gate EXCEPT ![l] = @ + 1]
        BY <1>4, Zenon DEF HoldGate
      <3> QED
        BY <1>0, <3>1
    <2> QED
      BY <1>4, <2>1, <2>2 DEF HoldGate, CheckoutsTypeOK, UpdaterTypeOK
  <1>5. ASSUME NEW l \in Launches, RunApp(l)
        PROVE  TypeOK'
    <2>1. copies' \in [Launches -> Nat]
      <3>1. copies' = [copies EXCEPT ![l] = @ + 1]
        BY <1>5, Zenon DEF RunApp
      <3> QED
        BY <1>0, <3>1
    <2>2. lpc' \in [Launches -> LauncherSteps]
      BY <1>5 DEF RunApp, LauncherGoes, LauncherSteps
    <2> QED
      BY <1>5, <2>1, <2>2 DEF RunApp, CheckoutsTypeOK, UpdaterTypeOK
  <1>6. ASSUME NEW l \in Launches, ReleaseGates(l) \/ Quit(l)
        PROVE  TypeOK'
    <2>1. Closes(l)
      BY <1>6, Zenon DEF ReleaseGates, Quit
    <2>2. shared' \in [Checkouts -> SUBSET Launches]
      BY <1>0, <2>1 DEF Closes
    <2>3. lpc' \in [Launches -> LauncherSteps]
      BY <2>1 DEF Closes, LauncherGoes, LauncherSteps
    <2>4. gate' \in [Launches -> Nat \ {0}]
      BY <2>1 DEF Closes
    <2> QED
      BY <2>1, <2>2, <2>3, <2>4 DEF Closes, CheckoutsTypeOK, UpdaterTypeOK
  <1>7. ASSUME NEW l \in Launches, AppEnds(l)
        PROVE  TypeOK'
    <2>1. copies' \in [Launches -> Nat]
      <3>1. copies[l] > 0 /\ copies' = [copies EXCEPT ![l] = @ - 1]
        BY <1>7, Zenon DEF AppEnds
      <3> QED
        BY <1>0, <3>1
    <2>2. startedBy' \in [Launches -> Launches \cup {NoOne}]
      BY <1>0, <1>7 DEF AppEnds
    <2>3. lpc' \in [Launches -> LauncherSteps]
      BY <1>7 DEF AppEnds, LauncherGoes, LauncherSteps
    <2> QED
      BY <1>7, <2>1, <2>2, <2>3 DEF AppEnds, CheckoutsTypeOK, UpdaterTypeOK
  <1> HIDE DEF TypeOK, LauncherTypeOK, launcherVars, updaterVars, checkoutVars,
               repository, venvs, turns, budget
  <1> QED
    BY <1>1, <1>2, <1>3, <1>4, <1>5, <1>6, <1>7, <1>8
       DEF LaunchNext, LauncherStep

LEMMA TypesBegin == Init => TypeOK
  <1> SUFFICES ASSUME Init PROVE TypeOK
    OBVIOUS
  <1>1. Nothing \in [Checkouts -> Outcomes]
    BY SaidIsAnOutcome DEF Nothing, Sayings
  <1>2. CheckoutsTypeOK
    BY VersionTypes DEF Init, CheckoutsInit, CheckoutsTypeOK
  <1>3. UpdaterTypeOK
    BY <1>1, VersionTypes
       DEF Init, UpdaterInit, UpdaterTypeOK, UpdaterSteps, NoAnswer
  <1> QED
    BY <1>2, <1>3 DEF Init, TypeOK, LauncherTypeOK, LauncherSteps

LEMMA TypesStay == IInv /\ TypeOK /\ [Next]_vars => TypeOK'
  <1> SUFFICES ASSUME IInv, TypeOK, [Next]_vars PROVE TypeOK'
    OBVIOUS
  <1>1. CASE UNCHANGED vars
    BY <1>1 DEF vars, TypeOK, CheckoutsTypeOK, UpdaterTypeOK, LauncherTypeOK,
                launcherVars, updaterVars, checkoutVars, repository, venvs,
                turns, budget
  <1>2. CASE Next
    BY <1>2, RunTypes, OutsideTypes, LaunchTypes DEF Next
  <1> QED
    BY <1>1, <1>2

(* Every variable keeps its type. *)
THEOREM TypeCorrect == Spec => []TypeOK
  BY Invariance, TypesBegin, TypesStay, PTL DEF Spec

(***************************************************************************)
(* What the invariant of the turns is for.                                 *)
(***************************************************************************)

(* Two updaters are never at the same checkout's venv. *)
THEOREM OneUpdater == Spec => []OneUpdaterAtACheckout
  <1>1. IInv => OneUpdaterAtACheckout
    <2> SUFFICES ASSUME IInv, NEW u \in Updaters, NEW v \in Updaters,
                        upc[u] \in InTurn, upc[v] \in InTurn,
                        Current(u) = Current(v)
                 PROVE  u = v
      BY DEF OneUpdaterAtACheckout
    <2>1. Current(u) \in Checkouts
      BY CurrentIsACheckout DEF IInv, Locks, InTurn
    <2> QED
      BY <2>1 DEF IInv, Locks, TurnsAreHeld
  <1> QED
    BY <1>1, Invariance, PTL

(***************************************************************************)
(* Starting an app.                                                        *)
(***************************************************************************)

LEMMA MoreCopies ==
  ASSUME copies \in [Launches -> Nat], NEW l \in Launches,
         copies'[l] > copies[l]
  PROVE  copies' # copies
  OBVIOUS

(* Only its own launcher starts an app. *)
LEMMA StartsItself ==
  ASSUME copies \in [Launches -> Nat], NEW l \in Launches,
         copies'[l] > copies[l], NEW k \in Launches,
         CaughtUp(k) \/ HoldGate(k) \/ RunApp(k) \/ Closes(k) \/ AppEnds(k)
  PROVE  RunApp(k) /\ k = l
  <1>1. copies' # copies
    BY MoreCopies
  <1>2. ~CaughtUp(k) /\ ~HoldGate(k) /\ ~Closes(k)
    BY <1>1 DEF CaughtUp, HoldGate, Closes, checkoutVars
  <1>3. ~AppEnds(k)
    BY DEF AppEnds
  <1>4. RunApp(k)
    BY <1>2, <1>3
  <1> QED
    BY <1>4 DEF RunApp

LEMMA StartsApart ==
  ASSUME IInv, [Next]_vars, NEW l \in Launches, copies'[l] > copies[l],
         NEW u \in Updaters, upc[u] = "carry out"
  PROVE  Current(u) \notin RunsFrom(l)
  <1>1. Shape /\ Locks
    BY DEF IInv
  <1>2. copies \in [Launches -> Nat]
    BY <1>1 DEF Shape
  <1>3. copies' # copies
    BY <1>2, MoreCopies
  <1>4. ASSUME NEW v \in Updaters, UpdaterStep(v) \/ UpdaterFault(v)
        PROVE  FALSE
    BY <1>3, <1>4, RunsLeaveAppsAlone
  <1>5. PICK k \in Launches :
          CaughtUp(k) \/ HoldGate(k) \/ RunApp(k) \/ Closes(k) \/ AppEnds(k)
    BY <1>1, <1>3, <1>4, OtherSteps
  <1>6. RunApp(l)
    BY <1>2, <1>5, StartsItself
  <1>7. gate[l] > Len(Gates[l])
    BY <1>6 DEF RunApp
  <1> QED
    BY <1>1, <1>7, NobodyHasTheTurns DEF InTurn

(* When an app starts, no updater is between the first and the last step of
   an update of any checkout the app uses.                                *)
THEOREM StartsWhole == Spec => NoStartHalfWayThrough
  <1>1. IInv /\ [Next]_vars =>
          \A l \in Launches : copies'[l] > copies[l] =>
            \A u \in Updaters :
              upc[u] = "carry out" => Current(u) \notin RunsFrom(l)
    BY StartsApart
  <1> QED
    BY <1>1, Invariance, PTL DEF Spec, NoStartHalfWayThrough

(***************************************************************************)
(* Moving what programs run out of.                                        *)
(***************************************************************************)

(* The steps of an update, and one that ends half way. *)
ChangesVenv(u) ==
  /\ upc[u] = "carry out"
  /\ InstallLibraries(u) \/ MoveCode(u) \/ Reinstall(u)
       \/ StepFails(u) \/ Dies(u)

LEMMA VenvsStay ==
  ASSUME [Next]_vars
  PROVE  UNCHANGED venvs \/ \E u \in Updaters : ChangesVenv(u)
  <1> USE DEF checkoutVars, vars
  <1>1. ASSUME NEW c \in Checkouts, Ship(c) \/ KeepOrNot(c) \/ RetryDue(c)
        PROVE  UNCHANGED venvs
    BY <1>1 DEF Ship, KeepOrNot, RetryDue
  <1>2. ASSUME NEW l \in Launches, LaunchNext(l)
        PROVE  UNCHANGED venvs
    BY <1>2 DEF LaunchNext, LauncherStep, Open, RunAgain, CatchUp, CaughtUp,
                StartAgain, HoldGate, RunApp, ReleaseGates, Quit, Closes,
                AppEnds
  <1>3. ASSUME NEW p \in Passes, PassBegins(p) \/ PassUnanswered(p)
        PROVE  UNCHANGED venvs
    BY <1>3 DEF PassBegins, PassUnanswered
  <1>4. ASSUME NEW u \in Updaters, UpdaterStep(u)
        PROVE  UNCHANGED venvs \/ ChangesVenv(u)
    <2>1. CASE Fetch(u) \/ NotWorthFetching(u) \/ Heading(u)
               \/ NotAgainYet(u) \/ PlanSettled(u) \/ PlanMade(u)
               \/ TakeTurn(u) \/ NoTurn(u) \/ ReplanSettled(u)
      BY <2>1 DEF Fetch, NotWorthFetching, Heading, NotAgainYet, PlanSettled,
                  PlanMade, TakeTurn,
                  NoTurn, ReplanSettled
    <2>2. CASE ReplanMade(u) \/ WaitForPrograms(u) \/ NothingRuns(u)
               \/ CarriedOut(u) \/ LetGo(u) \/ Record(u)
      BY <2>2 DEF ReplanMade, WaitForPrograms, NothingRuns, CarriedOut, LetGo,
                  Record
    <2> QED
      BY <1>4, <2>1, <2>2 DEF UpdaterStep, ChangesVenv, InstallLibraries,
                              MoveCode, Reinstall
  <1>5. ASSUME NEW u \in Updaters, UpdaterFault(u)
        PROVE  UNCHANGED venvs \/ ChangesVenv(u)
    BY <1>5 DEF UpdaterFault, FetchFails, HeadingFails, PlanFails, ReplanFails,
                StepFails, Dies, ChangesVenv
  <1>6. CASE UNCHANGED vars
    BY <1>6
  <1> HIDE DEF checkoutVars, vars
  <1> QED
    BY <1>1, <1>2, <1>3, <1>4, <1>5, <1>6 DEF Next

(* A step of an update changes the checkout its run is at, and no other. *)
LEMMA WhoMoves ==
  ASSUME IInv, TypeOK, [Next]_vars, NEW c \in Checkouts,
         Moved(c)
  PROVE  \E u \in Updaters :
           /\ ChangesVenv(u) /\ upc[u] = "carry out" /\ Current(u) = c
           /\ head[c] # head'[c] => MoveCode(u)
  <1>1. PICK u \in Updaters : ChangesVenv(u)
    BY VenvsStay DEF venvs, Moved
  <1>2. /\ head \in [Checkouts -> Versions]
        /\ libs \in [Checkouts -> Libraries]
        /\ venvAt \in [Checkouts -> Installs]
    BY DEF TypeOK, CheckoutsTypeOK
  <1>3. upc[u] = "carry out"
    BY <1>1 DEF ChangesVenv
  <1>4. Current(u) = c
    BY <1>1, <1>2 DEF Moved, ChangesVenv, InstallLibraries, MoveCode,
                      Reinstall, StepFails, Dies, LeftHalfDone
  <1>5. head[c] # head'[c] => MoveCode(u)
    BY <1>1 DEF ChangesVenv, InstallLibraries, Reinstall, StepFails, Dies,
                LeftHalfDone
  <1> QED
    BY <1>1, <1>3, <1>4, <1>5

(* No code, library or install moves while a program started by its launcher
   runs out of the checkout or out of one that starts programs from it, but
   for the copy that itself ran the launcher of the update and is the only
   one.                                                                   *)
THEOREM AppsRunUndisturbed == Spec => NothingMovesUnderAnApp
  <1>1. ASSUME IInv, TypeOK, [Next]_vars, NEW c \in Checkouts,
               Moved(c)
        PROVE  NoOtherCopyRuns(alone[c], c)
    <2>1. PICK u \in Updaters : upc[u] = "carry out" /\ Current(u) = c
      BY <1>1, WhoMoves
    <2>2. alone[c] = u
      BY <1>1, <2>1 DEF IInv, Locks, TurnsAreHeld, InTurn
    <2> QED
      BY <1>1, <2>1, <2>2 DEF IInv, NothingRunsThere
  <1>2. IInv /\ TypeOK /\ [Next]_vars =>
          \A c \in Checkouts : Moved(c) => NoOtherCopyRuns(alone[c], c)
    BY <1>1
  <1> QED
    BY <1>2, Invariance, TypeCorrect, PTL DEF Spec, NothingMovesUnderAnApp

(***************************************************************************)
(* The libraries before the code.  What a run replanned with the turn held *)
(* stays true of the checkout until it has carried it out: nobody else     *)
(* changes the checkout meanwhile.                                         *)
(***************************************************************************)

(* A move is forward, and to code whose pins the venv answers to once the
   plan has no libraries left to install.                                 *)
PlanStands(u) ==
  "move" \in todo[u] =>
    /\ head[Current(u)] < aim[u]
    /\ "install" \notin todo[u] => libs[Current(u)] = Pins[aim[u]]

PlansStand ==
  \A u \in Updaters : upc[u] \in {"in use", "carry out"} => PlanStands(u)

PlaceOf(u) == <<upc[u], at[u], aim[u], todo[u]>>

(* A run leaves the place of every other run as it is. *)
LEMMA StepsOfOthers ==
  ASSUME TypeOK, NEW u \in Updaters, NEW v \in Updaters, v # u,
         UpdaterStep(v) \/ UpdaterFault(v)
  PROVE  /\ upc'[u] = upc[u] /\ at'[u] = at[u]
         /\ aim'[u] = aim[u] /\ todo'[u] = todo[u]
  <1>1. /\ upc \in [Updaters -> UpdaterSteps] /\ at \in [Updaters -> Nat \ {0}]
        /\ aim \in [Updaters -> Versions]
        /\ todo \in [Updaters -> SUBSET CarrySteps]
    BY DEF TypeOK, UpdaterTypeOK
  <1>2. ASSUME NextOne(v) \/ Ends(v)
        PROVE  /\ upc'[u] = upc[u] /\ at'[u] = at[u]
               /\ aim'[u] = aim[u] /\ todo'[u] = todo[u]
    BY <1>1, <1>2 DEF NextOne, Ends, Goto
  <1>3. CASE UpdaterFault(v)
    BY <1>1, <1>2, <1>3 DEF UpdaterFault, FetchFails, HeadingFails, PlanFails,
                            ReplanFails, StepFails, Dies, Goto
  <1>4. CASE Fetch(v) \/ NotWorthFetching(v) \/ Heading(v)
             \/ NotAgainYet(v) \/ PlanSettled(v) \/ PlanMade(v)
             \/ TakeTurn(v) \/ NoTurn(v) \/ ReplanSettled(v)
    BY <1>1, <1>2, <1>4 DEF Fetch, NotWorthFetching, Heading, NotAgainYet,
                            PlanSettled, PlanMade,
                            TakeTurn, NoTurn, ReplanSettled, Goto
  <1>5. CASE ReplanMade(v) \/ WaitForPrograms(v) \/ NothingRuns(v)
             \/ InstallLibraries(v) \/ MoveCode(v) \/ Reinstall(v)
             \/ CarriedOut(v) \/ LetGo(v) \/ Record(v)
    BY <1>1, <1>2, <1>5 DEF ReplanMade, WaitForPrograms, NothingRuns,
                InstallLibraries, MoveCode, Reinstall, CarriedOut, LetGo,
                Record, Taken, Goto
  <1> QED
    BY <1>3, <1>4, <1>5 DEF UpdaterStep

(* What is not a step of a run begins one, or leaves them all in place. *)
LEMMA PlacesOtherwise ==
  ASSUME [Next]_vars
  PROVE  \/ UNCHANGED <<upc, at, aim, todo>>
         \/ \E v \in Updaters : UpdaterStep(v) \/ UpdaterFault(v)
         \/ \E v \in Updaters : Begins(v) /\ UNCHANGED <<at, aim, todo>>
  <1> USE DEF vars, updaterVars
  <1>1. ASSUME NEW c \in Checkouts, UNCHANGED updaterVars \/ RetryDue(c)
        PROVE  UNCHANGED <<upc, at, aim, todo>>
    BY <1>1 DEF RetryDue
  <1>2. ASSUME NEW p \in Passes, PassBegins(p) \/ PassUnanswered(p)
        PROVE  p \in Updaters /\ Begins(p) /\ UNCHANGED <<at, aim, todo>>
    BY <1>2 DEF PassBegins, PassUnanswered, Updaters
  <1>3. ASSUME NEW l \in Launches, Open(l) \/ RunAgain(l)
        PROVE  l \in Updaters /\ Begins(l) /\ UNCHANGED <<at, aim, todo>>
    <2>1. PICK by \in Launches \cup {NoOne} : CatchUp(l, by)
      BY <1>3 DEF Open, RunAgain
    <2> QED
      BY <2>1 DEF CatchUp, Updaters
  <1>4. ASSUME NEW l \in Launches, LaunchNext(l)
        PROVE  Open(l) \/ RunAgain(l) \/ UNCHANGED <<upc, at, aim, todo>>
    BY <1>4 DEF LaunchNext, LauncherStep, CaughtUp, StartAgain, HoldGate,
                RunApp, ReleaseGates, Quit, Closes, AppEnds
  <1>5. CASE UNCHANGED vars
    BY <1>5
  <1> HIDE DEF vars
  <1> QED
    BY <1>1, <1>2, <1>3, <1>4, <1>5 DEF Next

(* Who is where an update is planned or carried out came there, went on with
   it, or did nothing.                                                    *)
LEMMA OwnSteps ==
  ASSUME TypeOK, [Next]_vars, NEW u \in Updaters,
         upc'[u] \in {"in use", "carry out"}
  PROVE  \/ UNCHANGED PlaceOf(u)
         \/ ReplanMade(u) \/ NothingRuns(u)
         \/ InstallLibraries(u) \/ MoveCode(u) \/ Reinstall(u)
  <1>1. /\ upc \in [Updaters -> UpdaterSteps] /\ at \in [Updaters -> Nat \ {0}]
        /\ aim \in [Updaters -> Versions]
        /\ todo \in [Updaters -> SUBSET CarrySteps]
    BY DEF TypeOK, UpdaterTypeOK
  <1>2. ASSUME NEW v \in Updaters, NEW step, Goto(v, step),
               step \notin {"in use", "carry out"}
        PROVE  v # u
    BY <1>1, <1>2 DEF Goto
  <1>3. ASSUME NEW v \in Updaters, UpdaterStep(v)
        PROVE  \/ v # u
               \/ ReplanMade(v) \/ NothingRuns(v)
               \/ InstallLibraries(v) \/ MoveCode(v) \/ Reinstall(v)
    <2>1. CASE Fetch(v) \/ NotWorthFetching(v) \/ Heading(v)
               \/ NotAgainYet(v) \/ PlanSettled(v) \/ PlanMade(v)
               \/ TakeTurn(v)
      BY <1>2, <2>1 DEF Fetch, NotWorthFetching, Heading, NotAgainYet,
                        PlanSettled, PlanMade,
                        TakeTurn, NextOne, FirstStep
    <2>2. CASE NoTurn(v) \/ ReplanSettled(v) \/ WaitForPrograms(v)
               \/ CarriedOut(v) \/ LetGo(v) \/ Record(v)
      BY <1>2, <2>2 DEF NoTurn, ReplanSettled, WaitForPrograms, CarriedOut,
                        LetGo, Record, NextOne, FirstStep, Ends
    <2> QED
      BY <1>3, <2>1, <2>2 DEF UpdaterStep
  <1>4. ASSUME NEW v \in Updaters, UpdaterFault(v)
        PROVE  v # u
    BY <1>2, <1>4 DEF UpdaterFault, FetchFails, HeadingFails, PlanFails,
                      ReplanFails, StepFails, Dies, NextOne, FirstStep, Ends
  <1>5. ASSUME NEW v \in Updaters, v # u, UpdaterStep(v) \/ UpdaterFault(v)
        PROVE  UNCHANGED PlaceOf(u)
    BY <1>1, <1>5, StepsOfOthers DEF PlaceOf
  <1>6. ASSUME NEW v \in Updaters, Begins(v), UNCHANGED <<at, aim, todo>>
        PROVE  UNCHANGED PlaceOf(u)
    <2>1. v # u
      BY <1>2, <1>6 DEF Begins, FirstStep
    <2> QED
      BY <1>1, <1>6, <2>1 DEF Begins, Goto, PlaceOf
  <1>7. CASE UNCHANGED <<upc, at, aim, todo>>
    BY <1>7 DEF PlaceOf
  <1>8. CASE \E v \in Updaters : UpdaterStep(v) \/ UpdaterFault(v)
    <2>1. PICK v \in Updaters : UpdaterStep(v) \/ UpdaterFault(v)
      BY <1>8
    <2> QED
      BY <1>3, <1>4, <1>5, <2>1
  <1>9. CASE \E v \in Updaters : Begins(v) /\ UNCHANGED <<at, aim, todo>>
    BY <1>6, <1>9
  <1> QED
    BY <1>7, <1>8, <1>9, PlacesOtherwise

(* Where an update is planned or carried out, only its own run changes the
   checkout.                                                              *)
LEMMA NobodyElseMoves ==
  ASSUME IInv, TypeOK, [Next]_vars, NEW u \in Updaters,
         upc[u] \in {"in use", "carry out"},
         ~ChangesVenv(u)
  PROVE  head'[Current(u)] = head[Current(u)]
         /\ libs'[Current(u)] = libs[Current(u)]
  <1> DEFINE c == Current(u)
  <1>1. c \in Checkouts
    BY CurrentIsACheckout DEF IInv, Locks
  <1> SUFFICES ASSUME head'[c] # head[c] \/ libs'[c] # libs[c] PROVE FALSE
    OBVIOUS
  <1>2. PICK v \in Updaters :
          ChangesVenv(v) /\ upc[v] = "carry out" /\ Current(v) = c
    BY <1>1, WhoMoves DEF Moved
  <1>3. v = u
    <2>1. alone[c] = u <=> upc[u] \in InTurn /\ Current(u) = c
      BY <1>1 DEF IInv, Locks, TurnsAreHeld
    <2>2. alone[c] = v <=> upc[v] \in InTurn /\ Current(v) = c
      BY <1>1 DEF IInv, Locks, TurnsAreHeld
    <2>3. upc[u] \in InTurn /\ upc[v] \in InTurn
      BY <1>2 DEF InTurn
    <2> QED
      BY <1>2, <2>1, <2>2, <2>3
  <1> QED
    BY <1>2, <1>3

LEMMA PlansStayStanding ==
  ASSUME IInv, TypeOK, PlansStand, [Next]_vars, NEW u \in Updaters,
         upc'[u] \in {"in use", "carry out"}
  PROVE  PlanStands(u)'
  <1> DEFINE c == Current(u)
  <1>1. /\ aim \in [Updaters -> Versions]
        /\ at \in [Updaters -> Nat \ {0}]
        /\ todo \in [Updaters -> SUBSET CarrySteps]
        /\ head \in [Checkouts -> Versions]
        /\ libs \in [Checkouts -> Libraries]
        /\ upc \in [Updaters -> UpdaterSteps]
    BY DEF TypeOK, CheckoutsTypeOK, UpdaterTypeOK
  <1>2. upc[u] \in {"in use", "carry out"} => PlanStands(u)
    BY DEF PlansStand
  <1>3. upc[u] \notin {"off", "record"} => c \in Checkouts
    BY CurrentIsACheckout DEF IInv, Locks
  <1>4. CASE UNCHANGED PlaceOf(u) /\ ~ChangesVenv(u)
    <2>1. c' = c /\ upc[u] \in {"in use", "carry out"}
      BY <1>4 DEF PlaceOf, Current
    <2>2. head'[c] = head[c] /\ libs'[c] = libs[c]
      BY <1>4, <2>1, NobodyElseMoves
    <2> QED
      BY <1>2, <1>4, <2>1, <2>2 DEF PlaceOf, PlanStands
  <1>5. CASE UNCHANGED PlaceOf(u) /\ ChangesVenv(u)
    <2>1. CASE InstallLibraries(u) \/ MoveCode(u) \/ Reinstall(u)
      BY <1>1, <1>5, <2>1
         DEF PlaceOf, InstallLibraries, MoveCode, Reinstall, Taken
    <2>2. CASE StepFails(u) \/ Dies(u)
      BY <1>1, <2>2 DEF StepFails, Dies, Ends, Goto
    <2> QED
      BY <1>5, <2>1, <2>2 DEF ChangesVenv
  <1>6. CASE ReplanMade(u)
    <2>1. /\ todo'[u] = StepsOf(c, aim[u]) /\ c' = c
          /\ UNCHANGED <<head, libs, aim>>
      BY <1>1, <1>6 DEF ReplanMade, Current, checkoutVars, venvs
    <2>2. "move" \in StepsOf(c, aim[u]) =>
            /\ head[c] < aim[u]
            /\ "install" \notin StepsOf(c, aim[u]) => libs[c] = Pins[aim[u]]
      BY DEF StepsOf, Moves, Goal, LibrariesOff, CarrySteps
    <2> QED
      BY <2>1, <2>2 DEF PlanStands
  <1>7. CASE NothingRuns(u)
    BY <1>2, <1>7 DEF NothingRuns, PlanStands, Current, checkoutVars, venvs
  <1>8. CASE InstallLibraries(u)
    <2>1. /\ c' = c /\ c \in Checkouts /\ PlanStands(u)
          /\ UNCHANGED <<head, aim>>
          /\ todo'[u] = todo[u] \ {"install"}
          /\ libs' = [libs EXCEPT ![c] = Pins[PlannedFor(u)]]
      BY <1>1, <1>2, <1>3, <1>8 DEF InstallLibraries, Taken, Current
    <2> QED
      BY <1>1, <2>1 DEF PlanStands, PlannedFor
  <1>9. CASE MoveCode(u)
    BY <1>1, <1>9 DEF MoveCode, Taken, PlanStands
  <1>10. CASE Reinstall(u)
    BY <1>1, <1>10 DEF Reinstall, Taken, PlanStands
  <1> QED
    BY <1>4, <1>5, <1>6, <1>7, <1>8, <1>9, <1>10, OwnSteps

(* Every plan that is held to stands, from its making to its last step. *)
THEOREM PlansAlwaysStand == Spec => []PlansStand
  <1>1. Init => PlansStand
    BY DEF Init, UpdaterInit, PlansStand
  <1>2. IInv /\ TypeOK /\ PlansStand /\ [Next]_vars => PlansStand'
    <2> SUFFICES ASSUME IInv, TypeOK, PlansStand, [Next]_vars,
                        NEW u \in Updaters, upc'[u] \in {"in use", "carry out"}
                 PROVE  PlanStands(u)'
      BY DEF PlansStand
    <2> QED
      BY PlansStayStanding
  <1> QED
    BY <1>1, <1>2, Invariance, TypeCorrect, PTL DEF Spec

(* Code moves only forward, and to a version whose pins the venv answers to
   at that moment, however stale the plan or the attempt before it.       *)
THEOREM LibrariesGoFirst == Spec => LibrariesBeforeCode
  <1>1. ASSUME IInv, TypeOK, PlansStand, [Next]_vars, NEW c \in Checkouts,
               head[c] # head'[c]
        PROVE  head'[c] > head[c] /\ libs[c] = Pins[head'[c]]
    <2>1. PICK u \in Updaters :
            upc[u] = "carry out" /\ Current(u) = c /\ MoveCode(u)
      BY <1>1, WhoMoves DEF Moved
    <2>2. PlanStands(u)
      BY <1>1, <2>1 DEF PlansStand
    <2>3. head'[c] = aim[u] /\ "move" \in todo[u] /\ "install" \notin todo[u]
      BY <1>1, <2>1 DEF MoveCode, TypeOK, CheckoutsTypeOK
    <2>4. head[c] < head'[c] /\ libs[c] = Pins[head'[c]]
      BY <2>1, <2>2, <2>3 DEF PlanStands
    <2>5. head[c] \in Nat /\ head'[c] \in Nat
      BY <1>1, <2>3, VersionTypes DEF TypeOK, CheckoutsTypeOK, UpdaterTypeOK
    <2> QED
      BY <2>4, <2>5
  <1>2. IInv /\ TypeOK /\ PlansStand /\ [Next]_vars =>
          \A c \in Checkouts :
            head[c] # head'[c] =>
              head'[c] > head[c] /\ libs[c] = Pins[head'[c]]
    BY <1>1
  <1> QED
    BY <1>2, Invariance, TypeCorrect, PlansAlwaysStand, PTL
       DEF Spec, LibrariesBeforeCode
===============================================================================
