---------------------------- MODULE LauncherProofs ----------------------------
(***************************************************************************)
(* That no app has its code, its libraries or its install moved under it,  *)
(* but for the copy that itself ran the launcher of the update and has not *)
(* ended, and that none starts half way through an update, for any number  *)
(* of checkouts, launchers, copies and passes and any order of failures    *)
(* and deaths.  The argument: whoever changes a checkout has its turn      *)
(* alone and looked for programs after it took the turn, for all but its   *)
(* own parents; an app starts only while its launcher has the turns of all *)
(* the checkouts it uses shared; and the two are never had together.       *)
(***************************************************************************)
EXTENDS Launcher, TLAPS

(* Which function each variable the argument speaks of is. *)
Shape ==
  /\ upc \in [Updaters -> UpdaterSteps]
  /\ at \in [Updaters -> Nat \ {0}]
  /\ alone \in [Checkouts -> Updaters \cup {NoOne}]
  /\ shared \in [Checkouts -> SUBSET Launches]
  /\ copies \in [Launches -> Nat]
  /\ gate \in [Launches -> Nat \ {0}]
  /\ startedBy \in [Launches -> Launches \cup {NoOne}]

(* A run at work is within its round; one that is off is at its start. *)
InPlace ==
  \A u \in Updaters :
    /\ upc[u] \notin {"off", "record"} => at[u] \in 1..Len(Round(u))
    /\ upc[u] = "off" => at[u] = 1

(* The turn of a checkout is had by the run that is in it, and no other. *)
TurnsAreHeld ==
  \A u \in Updaters : \A c \in Checkouts :
    alone[c] = u <=> upc[u] \in InTurn /\ Current(u) = c

(* A turn is had alone or shared, never both. *)
NeverBoth == \A c \in Checkouts : alone[c] # NoOne => shared[c] = {}

(* A launcher has the gates of its list before the one it opens next. *)
GatesAreHeld ==
  \A l \in Launches : \A i \in DOMAIN Gates[l] :
    i < gate[l] => l \in shared[Gates[l][i]]

(* Out of a checkout that is being changed runs nothing but the copy that ran
   the launcher the change is for.                                        *)
NothingRunsThere ==
  \A u \in Updaters :
    upc[u] = "carry out" => NoOtherCopyRuns(u, Current(u))

Locks == InPlace /\ TurnsAreHeld /\ NeverBoth /\ GatesAreHeld

IInv == Shape /\ Locks /\ NothingRunsThere

(***************************************************************************)
(* Rounds.                                                                 *)
(***************************************************************************)

(* Every run has a round, of checkouts, and it is not empty. *)
LEMMA Rounds ==
  ASSUME NEW u \in Updaters
  PROVE  /\ Round(u) \in Seq(Checkouts)
         /\ Len(Round(u)) \in Nat \ {0}
         /\ \A i \in 1..Len(Round(u)) : Round(u)[i] \in Checkouts
  <1>1. Round(u) \in Seq(Checkouts) /\ Round(u) # <<>>
    BY OrdersAssumption DEF Round, Updaters
  <1> QED
    BY <1>1

LEMMA CurrentIsACheckout ==
  ASSUME Shape, InPlace, NEW u \in Updaters, upc[u] \notin {"off", "record"}
  PROVE  Current(u) \in Checkouts
  BY Rounds DEF InPlace, Current

(* What a launch uses is what its gates are of. *)
LEMMA LaunchUses ==
  ASSUME NEW l \in Launches, NEW c \in RunsFrom(l)
  PROVE  \E i \in DOMAIN Gates[l] : Gates[l][i] = c /\ i \in 1..Len(Gates[l])
  BY OrdersAssumption DEF RunsFrom

(***************************************************************************)
(* What the steps of a run do to its place and its turn.                   *)
(***************************************************************************)

Outside == UpdaterSteps \ (InTurn \cup {"off", "record"})

(* It goes on at the same checkout, with the turn or without. *)
GoesOn(u) ==
  /\ \E step \in UpdaterSteps :
       /\ Goto(u, step)
       /\ \/ upc[u] \in Outside /\ step \in Outside
          \/ upc[u] \in InTurn /\ step \in InTurn
       /\ step = "carry out" =>
            upc[u] = "carry out" \/ NoOtherCopyRuns(u, Current(u))
  /\ UNCHANGED <<at, turns>>

(* It takes up another checkout, or has none left. *)
TakesUp(u) ==
  /\ at' = [at EXCEPT ![u] = @ + 1]
  /\ Goto(u, IF at[u] < Len(Round(u)) THEN FirstStep(u) ELSE "record")

LEMMA RunSteps ==
  ASSUME NEW u \in Updaters, Shape, UpdaterStep(u) \/ UpdaterFault(u)
  PROVE  \/ GoesOn(u)
         \/ upc[u] \in Outside /\ TakesUp(u) /\ UNCHANGED turns
         \/ upc[u] = "carry out" /\ UNCHANGED <<upc, at, turns>>
         \/ TakeTurn(u)
         \/ LetGo(u)
         \/ Record(u)
         \/ Dies(u)
  <1> USE DEF checkoutVars, turns, budget, Outside, InTurn, UpdaterSteps
  <1>1. ASSUME NEW step \in {"heading", "plan", "turn"}, Goto(u, step),
               upc[u] \in {"fetch", "heading", "plan"}, UNCHANGED <<at, turns>>
        PROVE  GoesOn(u)
    BY <1>1 DEF GoesOn
  <1>2. ASSUME NEW step \in {"in use", "let go"}, Goto(u, step),
               upc[u] \in {"replan", "in use", "carry out"},
               UNCHANGED <<at, turns>>
        PROVE  GoesOn(u)
    BY <1>2 DEF GoesOn
  <1>3. CASE Fetch(u) \/ NotWorthFetching(u) \/ FetchFails(u) \/ Heading(u)
             \/ PlanMade(u)
    BY <1>1, <1>3 DEF Fetch, NotWorthFetching, FetchFails, Heading, PlanMade
  <1>4. CASE NotAgainYet(u) \/ PlanSettled(u) \/ NoTurn(u) \/ PlanFails(u)
             \/ HeadingFails(u)
    BY <1>4 DEF NotAgainYet, PlanSettled, NoTurn, PlanFails, HeadingFails,
                NextOne, TakesUp
  <1>5. CASE ReplanSettled(u) \/ ReplanMade(u) \/ ReplanFails(u)
             \/ WaitForPrograms(u) \/ CarriedOut(u) \/ StepFails(u)
    BY <1>2, <1>5 DEF ReplanSettled, ReplanMade, ReplanFails, WaitForPrograms,
                      CarriedOut, StepFails
  <1>6. CASE NothingRuns(u)
    <2>1. ASSUME NEW k \in Launches, Current(u) \in RunsFrom(k)
          PROVE  \/ copies[k] = 0
                 \/ copies[k] = 1 /\ u \in Launches /\ startedBy[u] = k
      <3>1. ~(CopiesSeenBy(u, k) > 0)
        BY <1>6, <2>1 DEF NothingRuns, InUse
      <3>2. copies[k] \in Nat
        BY DEF Shape
      <3> QED
        BY <3>1, <3>2 DEF CopiesSeenBy, IsAParentOf
    <2>2. NoOtherCopyRuns(u, Current(u))
      BY <2>1 DEF NoOtherCopyRuns
    <2> QED
      BY <1>6, <2>2 DEF NothingRuns, GoesOn
  <1>7. CASE InstallLibraries(u) \/ MoveCode(u) \/ Reinstall(u)
    BY <1>7 DEF InstallLibraries, MoveCode, Reinstall
  <1> QED
    BY <1>3, <1>4, <1>5, <1>6, <1>7 DEF UpdaterStep, UpdaterFault

(* Who ran a launcher is noted anew for one launch at most. *)
NotedAnew(l) ==
  /\ startedBy' \in [Launches -> Launches \cup {NoOne}]
  /\ \A k \in Launches \ {l} : startedBy'[k] = startedBy[k]

(* Nothing else there is touches the place or the turn of a run, but for
   the beginning of one.                                                  *)
LEMMA OtherSteps ==
  ASSUME Shape, [Next]_vars
  PROVE  \/ \E u \in Updaters :
              (UpdaterStep(u) \/ UpdaterFault(u)) /\ UNCHANGED launcherVars
         \/ /\ UNCHANGED <<upc, at, alone>>
            /\ \/ UNCHANGED <<shared, gate, copies, startedBy>>
               \/ \E l \in Launches : \/ CaughtUp(l) \/ HoldGate(l) \/ RunApp(l)
                                      \/ Closes(l) \/ AppEnds(l)
         \/ /\ UNCHANGED <<at, turns, gate, copies>>
            /\ \E u \in Updaters :
                 upc[u] = "off" /\ Goto(u, FirstStep(u)) /\ NotedAnew(u)
  <1> USE DEF checkoutVars, updaterVars, launcherVars, turns, vars, budget,
              repository, venvs
  <1>1. ASSUME NEW c \in Checkouts,
               Ship(c) \/ KeepOrNot(c), UNCHANGED <<updaterVars, launcherVars>>
        PROVE  UNCHANGED <<upc, at, alone, shared, gate, copies, startedBy>>
    BY <1>1 DEF Ship, KeepOrNot
  <1>2. ASSUME NEW c \in Checkouts, RetryDue(c), UNCHANGED launcherVars
        PROVE  UNCHANGED <<upc, at, alone, shared, gate, copies, startedBy>>
    BY <1>2 DEF RetryDue
  <1>3. ASSUME NEW p \in Passes, PassBegins(p) \/ PassUnanswered(p),
               UNCHANGED launcherVars
        PROVE  /\ UNCHANGED <<at, turns, gate, copies>>
               /\ upc[p] = "off" /\ Goto(p, FirstStep(p)) /\ p \in Updaters
               /\ NotedAnew(p)
    BY <1>3 DEF PassBegins, PassUnanswered, Begins, Updaters, NotedAnew, Shape
  <1>4. ASSUME NEW l \in Launches, Open(l) \/ RunAgain(l)
        PROVE  /\ UNCHANGED <<at, turns, gate, copies>>
               /\ upc[l] = "off" /\ Goto(l, FirstStep(l)) /\ l \in Updaters
               /\ NotedAnew(l)
    <2>1. PICK by \in Launches \cup {NoOne} : CatchUp(l, by)
      BY <1>4 DEF Open, RunAgain
    <2> QED
      BY <2>1 DEF CatchUp, Begins, Updaters, NotedAnew, Shape
  <1>5. ASSUME NEW l \in Launches, StartAgain(l)
        PROVE  UNCHANGED <<upc, at, alone, shared, gate, copies, startedBy>>
    BY <1>5 DEF StartAgain
  <1>6. ASSUME NEW l \in Launches, CaughtUp(l) \/ HoldGate(l) \/ RunApp(l)
                                   \/ ReleaseGates(l) \/ Quit(l) \/ AppEnds(l)
        PROVE  /\ UNCHANGED <<upc, at, alone>>
               /\ \/ CaughtUp(l) \/ HoldGate(l) \/ RunApp(l) \/ Closes(l)
                  \/ AppEnds(l)
    BY <1>6 DEF CaughtUp, HoldGate, RunApp, ReleaseGates, Quit, Closes, AppEnds
  <1>7. CASE UNCHANGED vars
    BY <1>7
  <1>8. ASSUME NEW l \in Launches, LaunchNext(l)
        PROVE  \/ Open(l) \/ RunAgain(l) \/ CaughtUp(l) \/ StartAgain(l)
               \/ HoldGate(l) \/ RunApp(l) \/ ReleaseGates(l) \/ Quit(l)
               \/ AppEnds(l)
    BY <1>8 DEF LaunchNext, LauncherStep
  <1> HIDE DEF checkoutVars, updaterVars, launcherVars, turns, vars, budget,
               repository, venvs
  <1> QED
    BY <1>1, <1>2, <1>3, <1>4, <1>5, <1>6, <1>7, <1>8 DEF Next, turns

(***************************************************************************)
(* The turns, kept by every kind of step.                                  *)
(***************************************************************************)

LEMMA GoesOnKeeps ==
  ASSUME Shape, Locks, NothingRunsThere, NEW u \in Updaters, GoesOn(u),
         UNCHANGED launcherVars, UNCHANGED copies
  PROVE  Shape' /\ Locks' /\ NothingRunsThere'
  <1> USE DEF turns, launcherVars
  <1>0. UNCHANGED <<at, alone, shared, gate>>
    BY DEF GoesOn
  <1>1. PICK step \in UpdaterSteps :
          /\ upc' = [upc EXCEPT ![u] = step]
          /\ \/ upc[u] \in Outside /\ step \in Outside
             \/ upc[u] \in InTurn /\ step \in InTurn
          /\ step = "carry out" =>
               upc[u] = "carry out" \/ NoOtherCopyRuns(u, Current(u))
    BY DEF GoesOn, Goto
  <1>2. \A v \in Updaters :
          /\ upc'[v] \in InTurn <=> upc[v] \in InTurn
          /\ upc'[v] \in {"off", "record"} <=> upc[v] \in {"off", "record"}
          /\ upc'[v] = "off" <=> upc[v] = "off"
          /\ upc'[v] = "carry out" =>
               upc[v] = "carry out" \/ NoOtherCopyRuns(v, Current(v))
    BY <1>1 DEF Outside, InTurn, Shape
  <1>3. Shape'
    BY <1>0, <1>1 DEF Shape
  <1>4. InPlace'
    BY <1>0, <1>2 DEF Locks, InPlace
  <1>5. TurnsAreHeld'
    <2> SUFFICES ASSUME NEW v \in Updaters, NEW c \in Checkouts
                 PROVE  (alone[c] = v <=> upc[v] \in InTurn /\ Current(v) = c)'
      BY DEF TurnsAreHeld
    <2>1. alone[c] = v <=> upc[v] \in InTurn /\ Current(v) = c
      BY DEF Locks, TurnsAreHeld
    <2>2. Current(v)' = Current(v) /\ alone'[c] = alone[c]
      BY <1>0 DEF Current
    <2> QED
      BY <1>2, <2>1, <2>2
  <1>6. NeverBoth' /\ GatesAreHeld'
    BY <1>0 DEF Locks, NeverBoth, GatesAreHeld
  <1>7. NothingRunsThere'
    <2> SUFFICES ASSUME NEW v \in Updaters, upc'[v] = "carry out"
                 PROVE  NoOtherCopyRuns(v, Current(v))'
      BY DEF NothingRunsThere
    <2>1. NoOtherCopyRuns(v, Current(v))
      <3>1. CASE upc[v] = "carry out"
        BY <3>1 DEF NothingRunsThere
      <3>2. CASE upc[v] # "carry out"
        BY <1>2, <3>2
      <3> QED
        BY <3>1, <3>2
    <2> QED
      BY <1>0, <2>1 DEF NoOtherCopyRuns, Current
  <1> QED
    BY <1>3, <1>4, <1>5, <1>6, <1>7 DEF Locks

LEMMA TakesUpKeeps ==
  ASSUME Shape, Locks, NothingRunsThere, NEW u \in Updaters, TakesUp(u),
         UNCHANGED launcherVars, UNCHANGED copies,
         \/ upc[u] \in Outside /\ UNCHANGED turns
         \/ upc[u] \in InTurn /\ UNCHANGED shared
              /\ alone' = [alone EXCEPT ![Current(u)] = NoOne]
  PROVE  Shape' /\ Locks' /\ NothingRunsThere'
  <1> USE DEF turns, launcherVars
  <1>0. PICK step \in {"fetch", "heading", "record"} :
          /\ upc' = [upc EXCEPT ![u] = step]
          /\ at' = [at EXCEPT ![u] = @ + 1]
          /\ step = "record" \/ at[u] < Len(Round(u))
    BY DEF FirstStep, TakesUp, Goto
  <1>1. upc[u] \notin {"off", "record"}
    BY DEF Outside, InTurn
  <1>2. UNCHANGED <<shared, gate, copies, startedBy>>
    OBVIOUS
  <1>3. Current(u) \in Checkouts
    BY <1>1, CurrentIsACheckout DEF Locks
  <1>4. /\ upc'[u] \notin InTurn /\ upc'[u] # "off"
        /\ \A v \in Updaters \ {u} : upc'[v] = upc[v] /\ at'[v] = at[v]
    BY <1>0 DEF Shape, InTurn
  <1>5. Shape'
    <2>1. /\ upc' \in [Updaters -> UpdaterSteps]
          /\ at' \in [Updaters -> Nat \ {0}]
      BY <1>0 DEF Shape, UpdaterSteps
    <2>2. alone' \in [Checkouts -> Updaters \cup {NoOne}]
      BY <1>3 DEF Shape
    <2> QED
      BY <1>2, <2>1, <2>2 DEF Shape
  <1>6. InPlace'
    <2>1. upc'[u] # "record" => at'[u] \in 1..Len(Round(u))
      BY <1>0, <1>1, Rounds DEF Locks, InPlace, Shape
    <2> QED
      BY <1>4, <2>1 DEF Locks, InPlace
  <1>7. TurnsAreHeld'
    <2> SUFFICES ASSUME NEW v \in Updaters, NEW c \in Checkouts
                 PROVE  (alone[c] = v <=> upc[v] \in InTurn /\ Current(v) = c)'
      BY DEF TurnsAreHeld
    <2>1. \A w \in Updaters, d \in Checkouts :
            alone[d] = w <=> upc[w] \in InTurn /\ Current(w) = d
      BY DEF Locks, TurnsAreHeld
    <2>2. CASE v = u
      <3>1. alone'[c] # u
        <4>1. NoOne # u
          BY ProcessesAssumption
        <4>2. CASE upc[u] \in Outside /\ UNCHANGED turns
          BY <2>1, <4>2 DEF Outside
        <4>3. CASE alone' = [alone EXCEPT ![Current(u)] = NoOne]
          BY <2>1, <4>1, <4>3 DEF Shape
        <4> QED
          BY <4>2, <4>3
      <3> QED
        BY <1>4, <2>2, <3>1
    <2>3. CASE v # u
      <3>1. upc'[v] = upc[v] /\ Current(v)' = Current(v)
        BY <1>4, <2>3 DEF Current
      <3>2. alone'[c] = v <=> alone[c] = v
        BY <1>3, <2>1, <2>3, ProcessesAssumption DEF Shape
      <3> QED
        BY <2>1, <3>1, <3>2
    <2> QED
      BY <2>2, <2>3
  <1>8. NeverBoth' /\ GatesAreHeld'
    BY <1>2, <1>3 DEF Locks, NeverBoth, GatesAreHeld, Shape
  <1>9. NothingRunsThere'
    <2> SUFFICES ASSUME NEW v \in Updaters, upc'[v] = "carry out"
                 PROVE  NoOtherCopyRuns(v, Current(v))'
      BY DEF NothingRunsThere
    <2>1. upc[v] = "carry out" /\ Current(v)' = Current(v)
      BY <1>4 DEF Current, InTurn
    <2>2. NoOtherCopyRuns(v, Current(v))
      BY <2>1 DEF NothingRunsThere
    <2> QED
      BY <1>2, <2>1, <2>2 DEF NoOtherCopyRuns
  <1> QED
    BY <1>5, <1>6, <1>7, <1>8, <1>9 DEF Locks

LEMMA TakeTurnKeeps ==
  ASSUME Shape, Locks, NothingRunsThere, NEW u \in Updaters, TakeTurn(u),
         UNCHANGED launcherVars
  PROVE  Shape' /\ Locks' /\ NothingRunsThere'
  <1> USE DEF launcherVars
  <1>0. /\ upc[u] = "turn" /\ TurnIsFree(Current(u))
        /\ alone' = [alone EXCEPT ![Current(u)] = u]
        /\ upc' = [upc EXCEPT ![u] = "replan"]
        /\ UNCHANGED <<at, shared, gate, copies>>
    BY DEF TakeTurn, Goto
  <1>1. Current(u) \in Checkouts
    BY <1>0, CurrentIsACheckout DEF Locks
  <1>2. /\ upc'[u] = "replan"
        /\ \A v \in Updaters \ {u} : upc'[v] = upc[v]
    BY <1>0 DEF Shape
  <1>3. Shape'
    BY <1>0, <1>1 DEF Shape, UpdaterSteps, InTurn
  <1>4. InPlace'
    BY <1>0, <1>2 DEF Locks, InPlace
  <1>5. TurnsAreHeld'
    <2> SUFFICES ASSUME NEW v \in Updaters, NEW c \in Checkouts
                 PROVE  (alone[c] = v <=> upc[v] \in InTurn /\ Current(v) = c)'
      BY DEF TurnsAreHeld
    <2>1. \A w \in Updaters, d \in Checkouts :
            alone[d] = w <=> upc[w] \in InTurn /\ Current(w) = d
      BY DEF Locks, TurnsAreHeld
    <2>2. Current(v)' = Current(v)
      BY <1>0 DEF Current
    <2>3. alone[Current(u)] = NoOne /\ NoOne \notin Updaters
      BY <1>0, ProcessesAssumption DEF TurnIsFree
    <2>4. alone'[c] = IF c = Current(u) THEN u ELSE alone[c]
      BY <1>0 DEF Shape
    <2>5. CASE v = u
      <3>1. upc[u] \notin InTurn
        BY <1>0 DEF InTurn
      <3>2. alone'[c] = u <=> c = Current(u)
        BY <2>1, <2>4, <3>1
      <3> QED
        BY <1>2, <2>2, <2>5, <3>2 DEF InTurn
    <2>6. CASE v # u
      <3>1. upc[v] \in InTurn => Current(v) # Current(u)
        BY <1>1, <2>1, <2>3
      <3> QED
        BY <1>2, <2>1, <2>2, <2>4, <2>6, <3>1
    <2> QED
      BY <2>5, <2>6
  <1>6. NeverBoth' /\ GatesAreHeld'
    BY <1>0, <1>1 DEF Locks, NeverBoth, GatesAreHeld, Shape, TurnIsFree
  <1>7. NothingRunsThere'
    BY <1>0, <1>2 DEF NothingRunsThere, NoOtherCopyRuns, Current
  <1> QED
    BY <1>3, <1>4, <1>5, <1>6, <1>7 DEF Locks

(* The end of a run: recorded, or killed with the turn closed for it. *)
LEMMA EndsKeeps ==
  ASSUME Shape, Locks, NothingRunsThere, NEW u \in Updaters, Ends(u),
         UNCHANGED launcherVars, UNCHANGED <<shared, copies>>,
         \/ upc[u] = "record" /\ UNCHANGED alone
         \/ alone' = [c \in Checkouts |->
                        IF alone[c] = u THEN NoOne ELSE alone[c]]
  PROVE  Shape' /\ Locks' /\ NothingRunsThere'
  <1> USE DEF launcherVars
  <1>0. /\ upc' = [upc EXCEPT ![u] = "off"]
        /\ at' = [at EXCEPT ![u] = 1]
        /\ UNCHANGED <<shared, gate, copies, startedBy>>
    BY DEF Ends, Goto
  <1>1. /\ upc'[u] = "off" /\ at'[u] = 1
        /\ \A v \in Updaters \ {u} : upc'[v] = upc[v] /\ at'[v] = at[v]
    BY <1>0 DEF Shape
  <1>2. \A w \in Updaters, d \in Checkouts :
          alone[d] = w <=> upc[w] \in InTurn /\ Current(w) = d
    BY DEF Locks, TurnsAreHeld
  <1>3. \A c \in Checkouts :
          alone'[c] = IF alone[c] = u THEN NoOne ELSE alone[c]
    <2>1. CASE upc[u] = "record" /\ UNCHANGED alone
      BY <1>2, <2>1 DEF InTurn
    <2>2. CASE alone' = [c \in Checkouts |->
                          IF alone[c] = u THEN NoOne ELSE alone[c]]
      BY <2>2
    <2> QED
      BY <2>1, <2>2
  <1>4. Shape'
    BY <1>0, <1>3 DEF Shape, UpdaterSteps
  <1>5. InPlace'
    BY <1>1 DEF Locks, InPlace
  <1>6. TurnsAreHeld'
    <2> SUFFICES ASSUME NEW v \in Updaters, NEW c \in Checkouts
                 PROVE  (alone[c] = v <=> upc[v] \in InTurn /\ Current(v) = c)'
      BY DEF TurnsAreHeld
    <2>1. NoOne \notin Updaters
      BY ProcessesAssumption
    <2>2. CASE v = u
      BY <1>1, <1>3, <2>1, <2>2 DEF InTurn
    <2>3. CASE v # u
      <3>1. upc'[v] = upc[v] /\ Current(v)' = Current(v)
        BY <1>1, <2>3 DEF Current
      <3> QED
        BY <1>2, <1>3, <2>1, <2>3, <3>1
    <2> QED
      BY <2>2, <2>3
  <1>7. NeverBoth' /\ GatesAreHeld'
    BY <1>0, <1>3 DEF Locks, NeverBoth, GatesAreHeld
  <1>8. NothingRunsThere'
    <2> SUFFICES ASSUME NEW v \in Updaters, upc'[v] = "carry out"
                 PROVE  NoOtherCopyRuns(v, Current(v))'
      BY DEF NothingRunsThere
    <2>1. upc[v] = "carry out" /\ Current(v)' = Current(v)
      BY <1>1 DEF Current, InTurn
    <2>2. NoOtherCopyRuns(v, Current(v))
      BY <2>1 DEF NothingRunsThere
    <2> QED
      BY <1>0, <2>1, <2>2 DEF NoOtherCopyRuns
  <1> QED
    BY <1>4, <1>5, <1>6, <1>7, <1>8 DEF Locks

(* The beginning of a run. *)
LEMMA BeginsKeeps ==
  ASSUME Shape, Locks, NothingRunsThere, NEW u \in Updaters,
         upc[u] = "off", Goto(u, FirstStep(u)), NotedAnew(u),
         UNCHANGED <<at, turns, gate, copies>>
  PROVE  Shape' /\ Locks' /\ NothingRunsThere'
  <1> USE DEF turns
  <1>0. PICK step \in {"fetch", "heading"} : upc' = [upc EXCEPT ![u] = step]
    BY DEF Goto, FirstStep
  <1>1. /\ upc'[u] = step
        /\ \A v \in Updaters \ {u} : upc'[v] = upc[v]
    BY <1>0 DEF Shape
  <1>2. Shape'
    BY <1>0 DEF Shape, UpdaterSteps, NotedAnew
  <1>3. InPlace'
    BY <1>1, Rounds DEF Locks, InPlace
  <1>4. TurnsAreHeld'
    <2> SUFFICES ASSUME NEW v \in Updaters, NEW c \in Checkouts
                 PROVE  (alone[c] = v <=> upc[v] \in InTurn /\ Current(v) = c)'
      BY DEF TurnsAreHeld
    <2>1. alone[c] = v <=> upc[v] \in InTurn /\ Current(v) = c
      BY DEF Locks, TurnsAreHeld
    <2>2. Current(v)' = Current(v) /\ alone'[c] = alone[c]
      BY DEF Current
    <2>3. upc'[v] \in InTurn <=> upc[v] \in InTurn
      BY <1>1 DEF InTurn
    <2> QED
      BY <2>1, <2>2, <2>3
  <1>5. NeverBoth' /\ GatesAreHeld'
    BY DEF Locks, NeverBoth, GatesAreHeld
  <1>6. NothingRunsThere'
    BY <1>1 DEF NothingRunsThere, NoOtherCopyRuns, Current, NotedAnew
  <1> QED
    BY <1>2, <1>3, <1>4, <1>5, <1>6 DEF Locks

(* What changes neither the turns nor who runs keeps what is said of them. *)
LEMMA NothingOfTheTurns ==
  ASSUME Shape, Locks, NothingRunsThere,
         UNCHANGED <<upc, at, alone, shared, gate, copies, startedBy>>
  PROVE  Shape' /\ Locks' /\ NothingRunsThere'
  <1>1. TurnsAreHeld'
    <2> SUFFICES ASSUME NEW v \in Updaters, NEW c \in Checkouts
                 PROVE  (alone[c] = v <=> upc[v] \in InTurn /\ Current(v) = c)'
      BY DEF TurnsAreHeld
    <2> QED
      BY DEF Locks, TurnsAreHeld, Current
  <1> QED
    BY <1>1 DEF Shape, Locks, InPlace, NeverBoth, GatesAreHeld,
                NothingRunsThere, NoOtherCopyRuns, Current

(* At the moment its app starts, no update is under way in what it uses. *)
LEMMA NobodyHasTheTurns ==
  ASSUME Shape, Locks, NEW l \in Launches, gate[l] > Len(Gates[l]),
         NEW u \in Updaters, upc[u] \in InTurn
  PROVE  Current(u) \notin RunsFrom(l)
  <1> SUFFICES ASSUME Current(u) \in RunsFrom(l) PROVE FALSE
    OBVIOUS
  <1>1. PICK i \in DOMAIN Gates[l] :
          Gates[l][i] = Current(u) /\ i \in 1..Len(Gates[l])
    BY LaunchUses
  <1>2. Gates[l] \in Seq(Checkouts) /\ Current(u) \in Checkouts
    BY OrdersAssumption, CurrentIsACheckout DEF Locks, InTurn
  <1>3. l \in shared[Current(u)]
    <2>1. i < gate[l]
      BY <1>1, <1>2 DEF Shape
    <2> QED
      BY <1>1, <2>1 DEF Locks, GatesAreHeld
  <1>4. alone[Current(u)] = u
    BY <1>2 DEF Locks, TurnsAreHeld
  <1> QED
    BY <1>2, <1>3, <1>4, ProcessesAssumption DEF Locks, NeverBoth

LEMMA LaunchersKeep ==
  ASSUME Shape, Locks, NothingRunsThere, UNCHANGED <<upc, at, alone>>,
         NEW l \in Launches,
         CaughtUp(l) \/ HoldGate(l) \/ RunApp(l) \/ Closes(l) \/ AppEnds(l)
  PROVE  Shape' /\ Locks' /\ NothingRunsThere'
  <1> USE DEF turns, launcherVars
  <1>1. InPlace' /\ TurnsAreHeld'
    <2>1. InPlace'
      BY DEF Locks, InPlace
    <2> SUFFICES ASSUME NEW v \in Updaters, NEW c \in Checkouts
                 PROVE  (alone[c] = v <=> upc[v] \in InTurn /\ Current(v) = c)'
      BY <2>1 DEF TurnsAreHeld
    <2> QED
      BY DEF Locks, TurnsAreHeld, Current
  <1>2. CASE HoldGate(l)
    <2> DEFINE c == Gates[l][gate[l]]
    <2>1. /\ gate[l] <= Len(Gates[l]) /\ alone[c] = NoOne
          /\ shared' = [shared EXCEPT ![c] = @ \cup {l}]
          /\ gate' = [gate EXCEPT ![l] = @ + 1]
          /\ UNCHANGED <<copies, startedBy>>
      BY <1>2 DEF HoldGate, GateIsOpen
    <2>2. gate[l] \in DOMAIN Gates[l] /\ c \in Checkouts
      <3>1. Gates[l] \in Seq(Checkouts) /\ gate[l] \in Nat \ {0}
        BY OrdersAssumption DEF Shape
      <3>2. gate[l] \in 1..Len(Gates[l])
        BY <2>1, <3>1
      <3> QED
        BY <3>1, <3>2
    <2> HIDE DEF c
    <2>3. Shape'
      BY <2>1, <2>2 DEF Shape
    <2>4. NeverBoth'
      BY <2>1, <2>2 DEF Locks, NeverBoth, Shape
    <2>5. GatesAreHeld'
      <3> SUFFICES ASSUME NEW k \in Launches, NEW i \in DOMAIN Gates[k],
                          i < gate'[k]
                   PROVE  k \in shared'[Gates[k][i]]
        BY DEF GatesAreHeld
      <3>1. Gates[k][i] \in Checkouts /\ i \in Nat
        BY OrdersAssumption
      <3>2. shared[Gates[k][i]] \subseteq shared'[Gates[k][i]]
        BY <2>1, <3>1 DEF Shape
      <3>3. CASE i < gate[k]
        BY <3>2, <3>3 DEF Locks, GatesAreHeld
      <3>4. CASE ~(i < gate[k])
        <4>1. k = l /\ i = gate[l]
          BY <2>1, <3>1, <3>4 DEF Shape
        <4> QED
          BY <2>1, <2>2, <4>1 DEF Shape, c
      <3> QED
        BY <3>3, <3>4
    <2>6. NothingRunsThere'
      BY <2>1 DEF NothingRunsThere, NoOtherCopyRuns, Current
    <2> QED
      BY <1>1, <2>3, <2>4, <2>5, <2>6 DEF Locks
  <1>3. CASE RunApp(l)
    <2>1. /\ gate[l] > Len(Gates[l])
          /\ copies' = [copies EXCEPT ![l] = @ + 1]
          /\ UNCHANGED <<shared, gate, startedBy>>
      BY <1>3 DEF RunApp
    <2>2. Shape' /\ NeverBoth' /\ GatesAreHeld'
      BY <2>1 DEF Shape, Locks, NeverBoth, GatesAreHeld
    <2>3. NothingRunsThere'
      <3> SUFFICES ASSUME NEW u \in Updaters, upc[u] = "carry out",
                          NEW k \in Launches, Current(u) \in RunsFrom(k)
                   PROVE  \/ copies'[k] = 0
                          \/ copies'[k] = 1 /\ u \in Launches /\ startedBy[u] = k
        BY <2>1 DEF NothingRunsThere, NoOtherCopyRuns, Current
      <3>1. k # l
        BY <2>1, NobodyHasTheTurns DEF InTurn
      <3>2. copies'[k] = copies[k]
        BY <2>1, <3>1 DEF Shape
      <3> QED
        BY <3>2 DEF NothingRunsThere, NoOtherCopyRuns
    <2> QED
      BY <1>1, <2>2, <2>3 DEF Locks
  <1>4. CASE Closes(l)
    <2>1. /\ shared' = [c \in Checkouts |-> shared[c] \ {l}]
          /\ gate' = [gate EXCEPT ![l] = 1]
          /\ UNCHANGED <<copies, startedBy>>
      BY <1>4 DEF Closes
    <2>2. Shape' /\ NeverBoth'
      BY <2>1 DEF Shape, Locks, NeverBoth
    <2>3. GatesAreHeld'
      <3> SUFFICES ASSUME NEW k \in Launches, NEW i \in DOMAIN Gates[k],
                          i < gate'[k]
                   PROVE  k \in shared'[Gates[k][i]]
        BY DEF GatesAreHeld
      <3>1. Gates[k][i] \in Checkouts /\ i \in Nat /\ i >= 1
        BY OrdersAssumption
      <3>2. k # l /\ gate'[k] = gate[k]
        BY <2>1, <3>1 DEF Shape
      <3> QED
        BY <2>1, <3>1, <3>2 DEF Locks, GatesAreHeld
    <2>4. NothingRunsThere'
      BY <2>1 DEF NothingRunsThere, NoOtherCopyRuns, Current
    <2> QED
      BY <1>1, <2>2, <2>3, <2>4 DEF Locks
  <1>5. CASE AppEnds(l)
    <2>1. /\ copies[l] > 0
          /\ copies' = [copies EXCEPT ![l] = @ - 1]
          /\ UNCHANGED <<shared, gate>>
      BY <1>5 DEF AppEnds
    <2>0. copies[l] # 0 /\ (copies[l] = 1 => copies'[l] = 0)
      BY <2>1 DEF Shape
    <2>2. /\ startedBy' \in [Launches -> Launches \cup {NoOne}]
          /\ \A k \in Launches : startedBy[k] # l => startedBy'[k] = startedBy[k]
      <3>1. PICK orphans \in SUBSET {k \in Launches : startedBy[k] = l} :
              startedBy' = [k \in Launches |->
                              IF k \in orphans THEN NoOne ELSE startedBy[k]]
        BY <1>5 DEF AppEnds
      <3> QED
        BY <3>1 DEF Shape
    <2>3. Shape' /\ NeverBoth' /\ GatesAreHeld'
      <3>1. copies' \in [Launches -> Nat]
        BY <2>1 DEF Shape
      <3>2. startedBy' \in [Launches -> Launches \cup {NoOne}]
        BY <2>2
      <3> QED
        BY <2>1, <3>1, <3>2 DEF Shape, Locks, NeverBoth, GatesAreHeld
    <2>4. NothingRunsThere'
      <3> SUFFICES ASSUME NEW u \in Updaters, upc[u] = "carry out",
                          NEW k \in Launches, Current(u) \in RunsFrom(k)
                   PROVE  \/ copies'[k] = 0
                          \/ copies'[k] = 1 /\ u \in Launches /\ startedBy'[u] = k
        BY DEF NothingRunsThere, NoOtherCopyRuns, Current
      <3>1. \/ copies[k] = 0
            \/ copies[k] = 1 /\ u \in Launches /\ startedBy[u] = k
        BY DEF NothingRunsThere, NoOtherCopyRuns
      <3>2. CASE k = l
        BY <2>0, <3>1, <3>2
      <3>3. CASE k # l
        <4>1. copies'[k] = copies[k]
          BY <2>1, <3>3 DEF Shape
        <4>2. u \in Launches /\ startedBy[u] = k => startedBy'[u] = k
          BY <2>2, <3>3
        <4> QED
          BY <3>1, <4>1, <4>2
      <3> QED
        BY <3>2, <3>3
    <2> QED
      BY <1>1, <2>3, <2>4 DEF Locks
  <1>6. CASE CaughtUp(l)
    <2>1. /\ upc[l] = "off"
          /\ startedBy' = [startedBy EXCEPT ![l] = NoOne]
          /\ UNCHANGED <<shared, gate, copies>>
      BY <1>6 DEF CaughtUp, checkoutVars
    <2>2. Shape' /\ NeverBoth' /\ GatesAreHeld'
      BY <2>1 DEF Shape, Locks, NeverBoth, GatesAreHeld
    <2>3. NothingRunsThere'
      BY <2>1 DEF Shape, NothingRunsThere, NoOtherCopyRuns, Current
    <2> QED
      BY <1>1, <2>2, <2>3 DEF Locks
  <1> QED
    BY <1>2, <1>3, <1>4, <1>5, <1>6

(***************************************************************************)
(* The invariant.                                                          *)
(***************************************************************************)

(* A run of the updater leaves alone what launchers hold and start. *)
LEMMA RunsLeaveAppsAlone ==
  ASSUME NEW u \in Updaters, UpdaterStep(u) \/ UpdaterFault(u)
  PROVE  UNCHANGED <<shared, copies>>
  <1> USE DEF checkoutVars, turns
  <1>1. CASE UpdaterFault(u)
    BY <1>1 DEF UpdaterFault, FetchFails, HeadingFails, PlanFails, ReplanFails,
                StepFails, Dies
  <1>2. CASE Fetch(u) \/ NotWorthFetching(u) \/ Heading(u) \/ NotAgainYet(u)
             \/ PlanSettled(u) \/ PlanMade(u) \/ TakeTurn(u) \/ NoTurn(u)
             \/ ReplanSettled(u)
    BY <1>2 DEF Fetch, NotWorthFetching, Heading, NotAgainYet, PlanSettled,
                PlanMade, TakeTurn, NoTurn, ReplanSettled
  <1>3. CASE ReplanMade(u) \/ WaitForPrograms(u) \/ NothingRuns(u)
             \/ InstallLibraries(u) \/ MoveCode(u) \/ Reinstall(u)
             \/ CarriedOut(u) \/ LetGo(u) \/ Record(u)
    BY <1>3 DEF ReplanMade, WaitForPrograms, NothingRuns, InstallLibraries,
                MoveCode, Reinstall, CarriedOut, LetGo, Record
  <1> QED
    BY <1>1, <1>2, <1>3 DEF UpdaterStep

LEMMA RunsKeep ==
  ASSUME IInv, NEW u \in Updaters, UpdaterStep(u) \/ UpdaterFault(u),
         UNCHANGED launcherVars
  PROVE  IInv'
  <1>1. UNCHANGED <<shared, copies, gate, startedBy>>
    BY RunsLeaveAppsAlone DEF launcherVars
  <1>2. Shape /\ Locks /\ NothingRunsThere
    BY DEF IInv
  <1>3. CASE GoesOn(u)
    BY <1>1, <1>2, <1>3, GoesOnKeeps DEF IInv
  <1>4. CASE upc[u] \in Outside /\ TakesUp(u) /\ UNCHANGED turns
    BY <1>1, <1>2, <1>4, TakesUpKeeps DEF IInv
  <1>5. CASE upc[u] = "carry out" /\ UNCHANGED <<upc, at, turns>>
    BY <1>1, <1>2, <1>5, NothingOfTheTurns DEF IInv, turns
  <1>6. CASE TakeTurn(u)
    BY <1>2, <1>6, TakeTurnKeeps DEF IInv
  <1>7. CASE LetGo(u)
    <2>1. /\ upc[u] \in InTurn /\ TakesUp(u)
          /\ alone' = [alone EXCEPT ![Current(u)] = NoOne]
      BY <1>7 DEF LetGo, NextOne, TakesUp, InTurn
    <2> QED
      BY <1>1, <1>2, <2>1, TakesUpKeeps DEF IInv
  <1>8. CASE Record(u)
    <2>1. upc[u] = "record" /\ Ends(u) /\ UNCHANGED alone
      BY <1>8 DEF Record, checkoutVars, turns
    <2> QED
      BY <1>1, <1>2, <2>1, EndsKeeps DEF IInv
  <1>9. CASE Dies(u)
    <2>1. /\ Ends(u)
          /\ alone' = [c \in Checkouts |->
                         IF alone[c] = u THEN NoOne ELSE alone[c]]
      BY <1>9 DEF Dies
    <2> QED
      BY <1>1, <1>2, <2>1, EndsKeeps DEF IInv
  <1> QED
    BY <1>2, <1>3, <1>4, <1>5, <1>6, <1>7, <1>8, <1>9, RunSteps

LEMMA InvariantBegins == Init => IInv
  <1> SUFFICES ASSUME Init PROVE IInv
    OBVIOUS
  <1> USE DEF Init, CheckoutsInit, UpdaterInit
  <1>1. Shape
    BY DEF Shape, UpdaterSteps
  <1>2. InPlace
    BY DEF InPlace
  <1>3. TurnsAreHeld
    BY ProcessesAssumption DEF TurnsAreHeld, InTurn
  <1>4. NeverBoth
    BY DEF NeverBoth
  <1>5. GatesAreHeld
    <2>1. \A l \in Launches : \A i \in DOMAIN Gates[l] : i \in Nat \ {0}
      BY OrdersAssumption
    <2> QED
      BY <2>1 DEF GatesAreHeld
  <1>6. NothingRunsThere
    BY DEF NothingRunsThere
  <1> QED
    BY <1>1, <1>2, <1>3, <1>4, <1>5, <1>6 DEF IInv, Locks

LEMMA InvariantStays == IInv /\ [Next]_vars => IInv'
  <1> SUFFICES ASSUME IInv, [Next]_vars PROVE IInv'
    OBVIOUS
  <1>1. Shape /\ Locks /\ NothingRunsThere
    BY DEF IInv
  <1>2. ASSUME NEW u \in Updaters, UpdaterStep(u) \/ UpdaterFault(u),
               UNCHANGED launcherVars
        PROVE  IInv'
    BY <1>2, RunsKeep
  <1>3. CASE /\ UNCHANGED <<upc, at, alone>>
             /\ UNCHANGED <<shared, gate, copies, startedBy>>
    BY <1>1, <1>3, NothingOfTheTurns DEF IInv
  <1>4. ASSUME UNCHANGED <<upc, at, alone>>, NEW l \in Launches,
               \/ CaughtUp(l) \/ HoldGate(l) \/ RunApp(l) \/ Closes(l)
               \/ AppEnds(l)
        PROVE  IInv'
    BY <1>1, <1>4, LaunchersKeep DEF IInv
  <1>5. ASSUME UNCHANGED <<at, turns, gate, copies>>, NEW u \in Updaters,
               upc[u] = "off", Goto(u, FirstStep(u)), NotedAnew(u)
        PROVE  IInv'
    BY <1>1, <1>5, BeginsKeeps DEF IInv
  <1> QED
    BY <1>1, <1>2, <1>3, <1>4, <1>5, OtherSteps

(* The inductive invariant of the turns holds throughout. *)
THEOREM Invariance == Spec => []IInv
  BY InvariantBegins, InvariantStays, PTL DEF Spec
=============================================================================
