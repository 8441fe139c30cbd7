-------------------------- MODULE ProductionUpdate --------------------------
(***************************************************************************)
(* production_update: runs of the updater, each bringing the checkouts of  *)
(* its round up one after the other (bring_up), several runs at a time.    *)
(* A pass also fetches.  The turn of a checkout is taken to change it, and *)
(* what was planned before the turn is planned again once it is held.      *)
(***************************************************************************)
EXTENDS Checkouts

CONSTANTS
  MaxFailures,  \* bound: how many steps (git, pip) fail
  MaxDeaths     \* bound: how many runs of the updater are killed

ASSUME FailuresAssumption == MaxFailures \in Nat /\ MaxDeaths \in Nat

VARIABLES
  upc,       \* where each run of the updater is
  at,        \* the place in its round it has got to
  aim,       \* the target of the _Heading it follows
  todo,      \* the steps of _carry_out still to take
  previous,  \* the outcomes it read from the status document when it began
  outcome,   \* the outcomes it has for the document so far
  status,    \* the status document: the last outcome of each checkout
  onePass,   \* the pass holding state/production_update.pass
  heads,     \* what GitHub answered that pass, at its beginning, of each
             \* checkout's branch; Nowhere where it answered nothing
  failures,
  deaths

updaterVars ==
  <<upc, at, aim, todo, previous, outcome, status, onePass, heads, failures,
    deaths>>
budget == <<failures, deaths>>

InTurn == {"replan", "in use", "carry out", "let go"}
UpdaterSteps ==
  {"off", "fetch", "heading", "plan", "turn", "record"} \cup InTurn
CarrySteps == {"install", "move", "reinstall"}

(* An Outcome: what was said, and for a failure less than
   RETRY_FAILED_AFTER_S old the target it failed on.                      *)
Sayings == {"nothing", "settled", "waiting", "done", "busy", "failed"}
Outcomes == [said : Sayings, failedOn : Versions \cup {Nowhere}]
Said(what) == [said |-> what, failedOn |-> Nowhere]
Failed(target) == [said |-> "failed", failedOn |-> target]
Nothing == [c \in Checkouts |-> Said("nothing")]

NoAnswer == [c \in Checkouts |-> Nowhere]

UpdaterTypeOK ==
  /\ upc \in [Updaters -> UpdaterSteps]
  /\ at \in [Updaters -> Nat \ {0}]
  /\ aim \in [Updaters -> Versions]
  /\ todo \in [Updaters -> SUBSET CarrySteps]
  /\ previous \in [Updaters -> [Checkouts -> Outcomes]]
  /\ outcome \in [Updaters -> [Checkouts -> Outcomes]]
  /\ status \in [Checkouts -> Outcomes]
  /\ onePass \in Passes \cup {NoOne}
  /\ heads \in [Checkouts -> Versions \cup {Nowhere}]
  /\ failures \in Nat /\ deaths \in Nat

UpdaterInit ==
  /\ upc = [u \in Updaters |-> "off"]
  /\ at = [u \in Updaters |-> 1]
  /\ aim = [u \in Updaters |-> 0]
  /\ todo = [u \in Updaters |-> {}]
  /\ previous = [u \in Updaters |-> Nothing]
  /\ outcome = [u \in Updaters |-> Nothing]
  /\ status = Nothing
  /\ onePass = NoOne
  /\ heads = NoAnswer
  /\ failures = 0 /\ deaths = 0

(***************************************************************************)
(* Plans.                                                                  *)
(***************************************************************************)

(* The checkout a run is busy with. *)
Current(u) == Round(u)[at[u]]

(* It moves only forward: head is an ancestor of the target. *)
Moves(c, target) == head[c] < target

Goal(c, target) == IF Moves(c, target) THEN target ELSE head[c]

LibrariesOff(c, version) == libs[c] # Pins[version]

(* A fault: libraries are looked at only when the code moves. *)
SettledByItsCode(c, target) == c \in kept \/ ~Moves(c, target)

(* _Plan.settled: refused, or nothing to do. *)
Settled(c, target) ==
  \/ c \in kept
  \/ ~Moves(c, target) /\ ~LibrariesOff(c, Goal(c, target))

(* The steps _carry_out takes, libraries first; they are taken in the order
   of CarrySteps, whatever fails leaving out the rest.                    *)
StepsOf(c, target) ==
  LET off == LibrariesOff(c, Goal(c, target))
      moved == Moves(c, target)
      changed == moved /\ Pyproject[target] # Pyproject[head[c]]
  IN  {s \in CarrySteps : \/ s = "install" /\ off
                          \/ s = "move" /\ moved
                          \/ s = "reinstall" /\ (off \/ changed)}

(* A fault: only what runs out of the checkout's own venv counts. *)
InUseOfItsOwnVenv(c, u) ==
  \E l \in Launches : CopiesSeenBy(u, l) > 0 /\ Gates[l][1] = c

(* An app runs out of the checkout, or out of one that starts programs from
   it, but for the copy that is a parent of the run; or the updater of
   another launch runs out of the updater's own venv.  A pass is marked as
   upkeep and counts for nobody.                                          *)
InUse(c, u) ==
  \/ \E l \in Launches : CopiesSeenBy(u, l) > 0 /\ c \in RunsFrom(l)
  \/ c = Home /\ \E v \in Launches \ {u} : upc[v] # "off"

(***************************************************************************)
(* The pieces of a step.                                                   *)
(***************************************************************************)

Goto(u, step) == upc' = [upc EXCEPT ![u] = step]

FirstStep(u) == IF u \in Passes THEN "fetch" ELSE "heading"

(* On to the next checkout of the round, or to _record after the last. *)
NextOne(u) ==
  /\ at' = [at EXCEPT ![u] = @ + 1]
  /\ aim' = [aim EXCEPT ![u] = 0]
  /\ todo' = [todo EXCEPT ![u] = {}]
  /\ Goto(u, IF at[u] < Len(Round(u)) THEN FirstStep(u) ELSE "record")

Say(u, what) == outcome' = [outcome EXCEPT ![u][Current(u)] = what]

(* A fault: an update that waits leaves no word. *)
WaitingUnsaid(c) == UNCHANGED waiting

WaitingFor(c) == waiting' = waiting \cup {c}
NotWaiting(c) == waiting' = waiting \ {c}

(* Reading the status document at the beginning of a run. *)
Begins(u) ==
  /\ Goto(u, FirstStep(u))
  /\ previous' = [previous EXCEPT ![u] = status]

(* What a run knew goes with it, and Windows closes the pass file. *)
Ends(u) ==
  /\ Goto(u, "off")
  /\ at' = [at EXCEPT ![u] = 1]
  /\ aim' = [aim EXCEPT ![u] = 0]
  /\ todo' = [todo EXCEPT ![u] = {}]
  /\ previous' = [previous EXCEPT ![u] = Nothing]
  /\ outcome' = [outcome EXCEPT ![u] = Nothing]
  /\ onePass' = IF onePass = u THEN NoOne ELSE onePass
  /\ heads' = IF onePass = u THEN NoAnswer ELSE heads

(***************************************************************************)
(* One run of the updater.                                                 *)
(***************************************************************************)

(* A scheduled pass; one that finds another under way ends at once.  It asks
   GitHub once, of every checkout ...                                     *)
PassBegins(p) ==
  /\ upc[p] = "off"
  /\ onePass = NoOne
  /\ onePass' = p
  /\ heads' = shipped
  /\ Begins(p)
  /\ UNCHANGED <<checkoutVars, at, aim, todo, outcome, status, budget>>

(* ... which may not answer, or not in words it can read. *)
PassUnanswered(p) ==
  /\ upc[p] = "off"
  /\ onePass = NoOne
  /\ failures < MaxFailures
  /\ failures' = failures + 1
  /\ onePass' = p
  /\ heads' = NoAnswer
  /\ Begins(p)
  /\ UNCHANGED <<checkoutVars, at, aim, todo, outcome, status, deaths>>

(* _worth_fetching, by an answer as old as the pass: what moved, and what
   went unanswered once its last fetch is half an hour old.               *)
Fetch(p) ==
  /\ upc[p] = "fetch"
  /\ heads[Current(p)] # tracking[Current(p)]
  /\ tracking' = [tracking EXCEPT ![Current(p)] = shipped[Current(p)]]
  /\ Goto(p, "heading")
  /\ UNCHANGED <<shipped, kept, venvs, turns, waiting, copies, at, aim, todo,
                 previous, outcome, status, onePass, heads, budget>>

NotWorthFetching(p) ==
  /\ upc[p] = "fetch"
  /\ heads[Current(p)] \in {tracking[Current(p)], Nowhere}
  /\ Goto(p, "heading")
  /\ UNCHANGED <<checkoutVars, at, aim, todo, previous, outcome, status,
                 onePass, heads, budget>>

(* The fetch fails: the checkout is brought up to what it has. *)
FetchFails(p) ==
  /\ upc[p] = "fetch"
  /\ heads[Current(p)] # tracking[Current(p)]
  /\ failures < MaxFailures
  /\ failures' = failures + 1
  /\ Goto(p, "heading")
  /\ UNCHANGED <<checkoutVars, at, aim, todo, previous, outcome, status,
                 onePass, heads, deaths>>

(* A target that failed a moment ago is not tried again yet, unless the
   code is without its libraries.                                         *)
FailedAMomentAgo(u) ==
  /\ previous[u][Current(u)].failedOn = tracking[Current(u)]
  /\ ~LibrariesOff(Current(u), head[Current(u)])

Heading(u) ==
  /\ upc[u] = "heading"
  /\ ~FailedAMomentAgo(u)
  /\ aim' = [aim EXCEPT ![u] = tracking[Current(u)]]
  /\ Goto(u, "plan")
  /\ UNCHANGED <<checkoutVars, at, todo, previous, outcome, status, onePass,
                 heads, budget>>

(* _LeftAlone(failed=True): the pyproject that has shipped is not in words it
   can read.  No target was got to, and there is nothing to wait for.     *)
HeadingFails(u) ==
  /\ upc[u] = "heading"
  /\ failures < MaxFailures
  /\ failures' = failures + 1
  /\ Say(u, Failed(Nowhere))
  /\ NotWaiting(Current(u))
  /\ NextOne(u)
  /\ UNCHANGED <<repository, venvs, turns, copies, previous, status, onePass,
                 heads, deaths>>

NotAgainYet(u) ==
  /\ upc[u] = "heading"
  /\ FailedAMomentAgo(u)
  /\ Say(u, previous[u][Current(u)])
  /\ NextOne(u)
  /\ UNCHANGED <<checkoutVars, previous, status, onePass, heads, budget>>

(* _settle, without the turn: nothing to wait for either. *)
PlanSettled(u) ==
  /\ upc[u] = "plan"
  /\ Settled(Current(u), aim[u])
  /\ Say(u, Said("settled"))
  /\ NotWaiting(Current(u))
  /\ NextOne(u)
  /\ UNCHANGED <<repository, venvs, turns, copies, previous, status, onePass,
                 heads, budget>>

PlanMade(u) ==
  /\ upc[u] = "plan"
  /\ ~Settled(Current(u), aim[u])
  /\ Goto(u, "turn")
  /\ UNCHANGED <<checkoutVars, at, aim, todo, previous, outcome, status,
                 onePass, heads, budget>>

TakeTurn(u) ==
  /\ upc[u] = "turn"
  /\ TurnIsFree(Current(u))
  /\ alone' = [alone EXCEPT ![Current(u)] = u]
  /\ Goto(u, "replan")
  /\ UNCHANGED <<repository, venvs, shared, waiting, copies, at, aim, todo,
                 previous, outcome, status, onePass, heads, budget>>

(* Busy: the turn was held for all of wait_s. *)
NoTurn(u) ==
  /\ upc[u] = "turn"
  /\ ~TurnIsFree(Current(u))
  /\ Say(u, Said("busy"))
  /\ NextOne(u)
  /\ UNCHANGED <<checkoutVars, previous, status, onePass, heads, budget>>

ReplanSettled(u) ==
  /\ upc[u] = "replan"
  /\ Settled(Current(u), aim[u])
  /\ Say(u, Said("settled"))
  /\ NotWaiting(Current(u))
  /\ Goto(u, "let go")
  /\ UNCHANGED <<repository, venvs, turns, copies, at, aim, todo, previous,
                 status, onePass, heads, budget>>

ReplanMade(u) ==
  /\ upc[u] = "replan"
  /\ ~Settled(Current(u), aim[u])
  /\ todo' = [todo EXCEPT ![u] = StepsOf(Current(u), aim[u])]
  /\ Goto(u, "in use")
  /\ UNCHANGED <<checkoutVars, at, aim, previous, outcome, status, onePass,
                 heads, budget>>

WaitForPrograms(u) ==
  /\ upc[u] = "in use"
  /\ InUse(Current(u), u)
  /\ Say(u, Said("waiting"))
  /\ WaitingFor(Current(u))
  /\ Goto(u, "let go")
  /\ UNCHANGED <<repository, venvs, turns, copies, at, aim, todo, previous,
                 status, onePass, heads, budget>>

NothingRuns(u) ==
  /\ upc[u] = "in use"
  /\ ~InUse(Current(u), u)
  /\ Goto(u, "carry out")
  /\ UNCHANGED <<checkoutVars, at, aim, todo, previous, outcome, status,
                 onePass, heads, budget>>

Taken(u, step) == todo' = [todo EXCEPT ![u] = @ \ {step}]

(* The version whose pins the plan installs. *)
PlannedFor(u) == IF "move" \in todo[u] THEN aim[u] ELSE head[Current(u)]

InstallLibraries(u) ==
  /\ upc[u] = "carry out"
  /\ "install" \in todo[u]
  /\ libs' = [libs EXCEPT ![Current(u)] = Pins[PlannedFor(u)]]
  /\ Taken(u, "install")
  /\ UNCHANGED <<repository, head, venvAt, turns, waiting, copies, upc, at,
                 aim, previous, outcome, status, onePass, heads, budget>>

(* A fault: the code is moved first. *)
MoveCodeFirst(u) ==
  /\ upc[u] = "carry out"
  /\ "move" \in todo[u]
  /\ head' = [head EXCEPT ![Current(u)] = aim[u]]
  /\ Taken(u, "move")
  /\ UNCHANGED <<repository, libs, venvAt, turns, waiting, copies, upc, at,
                 aim, previous, outcome, status, onePass, heads, budget>>

MoveCode(u) ==
  /\ upc[u] = "carry out"
  /\ "move" \in todo[u] /\ "install" \notin todo[u]
  /\ head' = [head EXCEPT ![Current(u)] = aim[u]]
  /\ Taken(u, "move")
  /\ UNCHANGED <<repository, libs, venvAt, turns, waiting, copies, upc, at,
                 aim, previous, outcome, status, onePass, heads, budget>>

Reinstall(u) ==
  /\ upc[u] = "carry out"
  /\ todo[u] = {"reinstall"}
  /\ venvAt' = [venvAt EXCEPT ![Current(u)] = Pyproject[head[Current(u)]]]
  /\ Taken(u, "reinstall")
  /\ UNCHANGED <<repository, head, libs, turns, waiting, copies, upc, at,
                 aim, previous, outcome, status, onePass, heads, budget>>

CarriedOut(u) ==
  /\ upc[u] = "carry out"
  /\ todo[u] = {}
  /\ Say(u, Said("done"))
  /\ NotWaiting(Current(u))
  /\ Goto(u, "let go")
  /\ UNCHANGED <<repository, venvs, turns, copies, at, aim, todo, previous,
                 status, onePass, heads, budget>>

(* What a pip install that ends half way leaves in the venv. *)
LeftHalfDone(u) ==
  /\ libs' \in IF "install" \in todo[u]
                 THEN {libs, [libs EXCEPT ![Current(u)] = Mixed]}
                 ELSE {libs}
  /\ venvAt' \in IF todo[u] = {"reinstall"}
                   THEN {venvAt, [venvAt EXCEPT ![Current(u)] = Mixed]}
                   ELSE {venvAt}
  /\ UNCHANGED head

(* StepFailed: the outcome is a failure on this target, and the steps that
   were left are not taken.  The turn is let go of; the marker stays.     *)
PlanFails(u) ==
  /\ upc[u] = "plan"
  /\ failures < MaxFailures
  /\ failures' = failures + 1
  /\ Say(u, Failed(aim[u]))
  /\ NextOne(u)
  /\ UNCHANGED <<checkoutVars, previous, status, onePass, heads, deaths>>

ReplanFails(u) ==
  /\ upc[u] = "replan"
  /\ failures < MaxFailures
  /\ failures' = failures + 1
  /\ Say(u, Failed(aim[u]))
  /\ Goto(u, "let go")
  /\ UNCHANGED <<checkoutVars, at, aim, todo, previous, status, onePass, heads,
                 deaths>>

StepFails(u) ==
  /\ upc[u] = "carry out"
  /\ todo[u] # {}
  /\ failures < MaxFailures
  /\ failures' = failures + 1
  /\ LeftHalfDone(u)
  /\ Say(u, Failed(aim[u]))
  /\ Goto(u, "let go")
  /\ UNCHANGED <<repository, turns, waiting, copies, at, aim, todo, previous,
                 status, onePass, heads, deaths>>

LetGo(u) ==
  /\ upc[u] = "let go"
  /\ alone' = [alone EXCEPT ![Current(u)] = NoOne]
  /\ NextOne(u)
  /\ UNCHANGED <<repository, venvs, shared, waiting, copies, previous, outcome,
                 status, onePass, heads, budget>>

(* _record: one locked update of the document, with what this run did. *)
Record(u) ==
  /\ upc[u] = "record"
  /\ status' = [c \in Checkouts |->
                  IF outcome[u][c].said = "nothing" THEN status[c]
                                                    ELSE outcome[u][c]]
  /\ Ends(u)
  /\ UNCHANGED <<checkoutVars, budget>>

(* The updater is killed, perhaps inside a step: Windows closes the turn it
   has open.                                                              *)
Dies(u) ==
  /\ upc[u] # "off"
  /\ deaths < MaxDeaths
  /\ deaths' = deaths + 1
  /\ IF upc[u] = "carry out" THEN LeftHalfDone(u) ELSE UNCHANGED venvs
  /\ alone' = [c \in Checkouts |-> IF alone[c] = u THEN NoOne ELSE alone[c]]
  /\ Ends(u)
  /\ UNCHANGED <<repository, shared, waiting, copies, status, failures>>

(* RETRY_FAILED_AFTER_S goes by: every record of a failure of a checkout is
   old enough.                                                            *)
RetryDue(c) ==
  LET aged(outcomes) == [outcomes EXCEPT ![c].failedOn = Nowhere]
  IN  /\ \E outcomes \in {status} \cup {f[u] : f \in {previous, outcome},
                                             u \in Updaters} :
            outcomes[c].failedOn # Nowhere
      /\ status' = aged(status)
      /\ previous' = [u \in Updaters |-> aged(previous[u])]
      /\ outcome' = [u \in Updaters |-> aged(outcome[u])]
      /\ UNCHANGED <<checkoutVars, upc, at, aim, todo, onePass, heads, budget>>

UpdaterStep(u) ==
  \/ Fetch(u) \/ NotWorthFetching(u) \/ Heading(u) \/ NotAgainYet(u)
  \/ PlanSettled(u) \/ PlanMade(u) \/ TakeTurn(u) \/ NoTurn(u)
  \/ ReplanSettled(u) \/ ReplanMade(u) \/ WaitForPrograms(u) \/ NothingRuns(u)
  \/ InstallLibraries(u) \/ MoveCode(u) \/ Reinstall(u) \/ CarriedOut(u)
  \/ LetGo(u) \/ Record(u)

UpdaterFault(u) ==
  \/ FetchFails(u) \/ HeadingFails(u) \/ PlanFails(u) \/ ReplanFails(u)
  \/ StepFails(u) \/ Dies(u)
=============================================================================
