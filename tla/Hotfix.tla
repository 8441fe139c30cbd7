-------------------------------- MODULE Hotfix --------------------------------
(***************************************************************************)
(* The hotfix route (hotfix.py) and what production_update does about a    *)
(* hotfix: a route commits a fix on what production is headed for, checks  *)
(* it and asks for it in refs/haglio/hotfix with a compare-and-swap; the   *)
(* passes take it, keep it until it has shipped, or go back when it is     *)
(* taken back.                                                             *)
(*                                                                         *)
(* A commit is how much of the default branch it holds and the fixes made  *)
(* on that.  A shared library's fix ships with the branch that pins its    *)
(* release; what installing libraries does is in ProductionUpdate.         *)
(***************************************************************************)
EXTENDS Integers, FiniteSets, Sequences, SequencesExt

CONSTANTS
  Routes,     \* the runs of hotfix(), each with a fix of its own
  Updater,    \* the passes of the updater, launches and take-backs
  NoCommit,   \* no ref
  MaxEvents   \* bound: routes that start, commits that land and take-backs

ASSUME HotfixAssumption ==
  /\ Updater \notin Routes /\ NoCommit \notin Routes \cup {Updater}
  /\ MaxEvents \in Nat

VARIABLES
  trunk,       \* the default branch: [fix, undoes] each
  passed,     \* how much of it production follows
  head,       \* HEAD of the production checkout
  ref,        \* HOTFIX_REF
  takenBack,  \* TAKEN_BACK_REF
  tags,       \* the shared library's hotfix versions: the route of each
  at,         \* where each route and the updater are
  aim,        \* what a plan is for: heading_for, or bring_up
  goal,       \* the target it read, then the base of a route
  asked,      \* the ref a route saw before it built
  made,       \* the commit a route made
  version,    \* the version a route gives its library fix
  turn,       \* who holds the checkout's turn
  waiting,    \* .git/production-update.waiting is there
  takes       \* how often someone took back

origin == <<trunk, passed>>
route == <<aim, asked, made, version>>
hotfixVars == <<origin, head, ref, takenBack, tags, at, goal, route, turn,
                waiting, takes>>

Passes == Routes \cup {Updater}

OnMain(n) == [on |-> n, fixes |-> <<>>]
Shipped == OnMain(passed)

HotfixInit ==
  /\ trunk = <<>> /\ passed = 0
  /\ head = OnMain(0)
  /\ ref = NoCommit /\ takenBack = NoCommit
  /\ tags = <<>>
  /\ at = [a \in Passes |-> IF a = Updater THEN "heading" ELSE "out"]
  /\ aim = [a \in Passes |-> IF a = Updater THEN "move" ELSE "look"]
  /\ goal = [a \in Passes |-> NoCommit]
  /\ asked = [r \in Routes |-> NoCommit]
  /\ made = [r \in Routes |-> NoCommit]
  /\ version = [r \in Routes |-> 0]
  /\ turn = NoCommit
  /\ waiting = FALSE
  /\ takes = 0

(***************************************************************************)
(* Commits.                                                                *)
(***************************************************************************)

IsAncestor(a, b) ==
  IF a.fixes = <<>> THEN a.on <= b.on
                    ELSE a.on = b.on /\ IsPrefix(a.fixes, b.fixes)

(* What landed, reverted or not. *)
LandedUpTo(base, tip) == {trunk[n].fix : n \in base + 1 .. tip}

(* The commits in effect: one is unless one that undoes it is. *)
InEffect(history) ==
  LET Undoing(n) == {m \in n + 1 .. Len(history) : history[m].undoes = n}
      inEffect[n \in 1 .. Len(history)] ==
        \/ Undoing(n) = {}
        \/ ~inEffect[CHOOSE m \in Undoing(n) : \A k \in Undoing(n) : m <= k]
  IN {n \in 1 .. Len(history) : inEffect[n]}

AuthorsInEffect(base, tip) ==
  {trunk[n].fix : n \in {k \in InEffect(SubSeq(trunk, 1, tip)) : base < k}}

HasShipped(r, from, to) ==
  r \in AuthorsInEffect(IF from.on < to.on THEN from.on ELSE to.on, to.on)

FixesOn(commit) == ToSet(commit.fixes)

(* A fault: what was taken back is kept until it ships. *)
LeavesOnceShipped(from, to) ==
  \/ from # to /\ IsAncestor(from, to)
  \/ /\ ~IsAncestor(from, to) /\ from.fixes # <<>>
     /\ \A r \in FixesOn(from) : HasShipped(r, from, to)
     /\ ~IsAncestor(to, from)

(* _plan: on, over to what shipped, or left where it is. *)
Leaves(from, to) ==
  \/ from # to /\ IsAncestor(from, to)
  \/ /\ ~IsAncestor(from, to) /\ from.fixes # <<>>
     /\ \/ takenBack = from
        \/ /\ \A r \in FixesOn(from) : HasShipped(r, from, to)
           /\ ~IsAncestor(to, from)

(***************************************************************************)
(* A pass over the checkout.                                               *)
(***************************************************************************)

GoesTo(a, step) == at' = [at EXCEPT ![a] = step]

MoreHappens ==
  Len(trunk) + takes + Cardinality({r \in Routes : at[r] # "out"}) < MaxEvents

(* A pass that ends begins again sometime; a route looks at what came. *)
PassEnded(a) == IF a = Updater THEN "heading" ELSE "look at head"
EndsPass(a) == GoesTo(a, PassEnded(a)) /\ goal' = [goal EXCEPT ![a] = NoCommit]

(* _the_hotfix_or: the hotfix asked for, when it is made on what production
   runs or follows; else it is asked for no longer.                       *)
ReadsHeading(a) ==
  LET takesIt == /\ ref \notin {NoCommit, head}
                 /\ IsAncestor(head, ref) \/ IsAncestor(Shipped, ref)
  IN
  /\ at[a] = "heading"
  /\ goal' = [goal EXCEPT ![a] = IF takesIt THEN ref ELSE Shipped]
  /\ GoesTo(a, IF takesIt \/ ref = NoCommit THEN "plan" ELSE "forget")
  /\ UNCHANGED <<origin, head, ref, takenBack, tags, route, turn, waiting,
                 takes>>

(* update-ref -d without the value it read. *)
ForgetsHotfix(a) ==
  /\ at[a] = "forget"
  /\ ref' = NoCommit
  /\ GoesTo(a, "plan")
  /\ UNCHANGED <<origin, head, takenBack, tags, goal, route, turn, waiting,
                 takes>>

(* heading_for: what a fix is to be made on. *)
PlansToBuild(a) ==
  /\ at[a] = "plan" /\ aim[a] = "look"
  /\ goal' = [goal EXCEPT ![a] = IF Leaves(head, @) THEN @ ELSE head]
  /\ GoesTo(a, "look at ref")
  /\ UNCHANGED <<origin, head, ref, takenBack, tags, route, turn, waiting,
                 takes>>

(* bring_up: settled, or on to its turn. *)
PlansToMove(a) ==
  /\ at[a] = "plan" /\ aim[a] = "move"
  /\ IF Leaves(head, goal[a])
       THEN GoesTo(a, "turn") /\ UNCHANGED <<goal, waiting>>
       ELSE EndsPass(a) /\ waiting' = FALSE
  /\ UNCHANGED <<origin, head, ref, takenBack, tags, route, turn, takes>>

(* A fault: the plan made before the turn is the one carried out. *)
KeepsItsPlan(a) ==
  /\ at[a] = "turn" /\ turn = NoCommit
  /\ turn' = a /\ GoesTo(a, "carry out")
  /\ UNCHANGED <<origin, head, ref, takenBack, tags, goal, route, waiting,
                 takes>>

(* Under the turn it plans again: on to carrying out ... *)
TakesTurn(a) ==
  /\ at[a] = "turn" /\ turn = NoCommit
  /\ Leaves(head, goal[a])
  /\ turn' = a /\ GoesTo(a, "carry out")
  /\ UNCHANGED <<origin, head, ref, takenBack, tags, goal, route, waiting,
                 takes>>

(* ... or it is settled meanwhile, or programs of his run. *)
NeedsNoTurn(a) ==
  /\ at[a] = "turn" /\ turn = NoCommit
  /\ waiting' = Leaves(head, goal[a])
  /\ EndsPass(a)
  /\ UNCHANGED <<origin, head, ref, takenBack, tags, route, turn, takes>>

CarriesOut(a) ==
  /\ at[a] = "carry out"
  /\ head' = goal[a]
  /\ turn' = NoCommit /\ waiting' = FALSE
  /\ EndsPass(a)
  /\ UNCHANGED <<origin, ref, takenBack, tags, route, takes>>

(* Left alone, held for its overlay, busy, or a step that failed: here or
   before it planned, which changes no more.                              *)
EndsEarly(a) ==
  /\ aim[a] = "move" /\ at[a] \in {"turn", "carry out"}
  /\ turn' = IF turn = a THEN NoCommit ELSE turn
  /\ waiting' \in {waiting, FALSE}
  /\ EndsPass(a)
  /\ UNCHANGED <<origin, head, ref, takenBack, tags, route, takes>>

(***************************************************************************)
(* A route.                                                                *)
(***************************************************************************)

(* Its branch has something the default branch lacks. *)
StartsRoute(r) ==
  /\ at[r] = "out" /\ MoreHappens
  /\ r \notin LandedUpTo(0, Len(trunk))
  /\ GoesTo(r, "heading")
  /\ UNCHANGED <<origin, head, ref, takenBack, tags, goal, route, turn,
                 waiting, takes>>

SeesWhatIsAsked(r) ==
  /\ at[r] = "look at ref"
  /\ asked' = [asked EXCEPT ![r] = ref]
  /\ GoesTo(r, "build")
  /\ UNCHANGED <<origin, head, ref, takenBack, tags, goal, aim, made, version,
                 turn, waiting, takes>>

(* The fix on what production is headed for or, when it clashes there, on
   the default branch; its library's next version; the checks.            *)
Builds(r) ==
  LET tip == OnMain(Len(trunk))
      bases == {goal[r]} \cup IF IsAncestor(goal[r], tip) THEN {tip} ELSE {}
  IN
  /\ at[r] = "build"
  /\ \E base \in bases :
       made' = [made EXCEPT ![r] = [base EXCEPT !.fixes = Append(@, r)]]
  /\ version' = [version EXCEPT ![r] = Len(tags) + 1]
  /\ goal' = [goal EXCEPT ![r] = NoCommit]
  /\ GoesTo(r, "ask")
  /\ UNCHANGED <<origin, head, ref, takenBack, tags, asked, aim, turn, waiting,
                 takes>>

(* A fault: git tag --force. *)
TagsOverAnother(r) ==
  tags' = IF version[r] > Len(tags) THEN Append(tags, r)
                                    ELSE [tags EXCEPT ![version[r]] = r]

(* A version another hotfix took meanwhile is refused. *)
Tags(r) == version[r] > Len(tags) /\ tags' = Append(tags, r)

(* The ref is as it was seen; or production took that hotfix meanwhile, and
   nothing is asked for now.                                              *)
MaySwap(r) == ref = asked[r] \/ (head = asked[r] /\ ref = NoCommit)

AsksFor(r) ==
  /\ at[r] = "ask"
  /\ Tags(r)
  /\ MaySwap(r)
  /\ ref' = made[r]
  /\ aim' = [aim EXCEPT ![r] = "move"]
  /\ asked' = [asked EXCEPT ![r] = NoCommit]
  /\ GoesTo(r, "heading")
  /\ UNCHANGED <<origin, head, takenBack, goal, made, version, turn, waiting,
                 takes>>

(* Something clashes or fails, a check does, or another route was first. *)
Refuses(r) ==
  /\ \/ aim[r] = "look" /\ at[r] \in {"heading", "plan", "build"}
     \/ at[r] = "ask"
  /\ at' = [at EXCEPT ![r] = "refused"]
  /\ goal' = [goal EXCEPT ![r] = NoCommit]
  /\ asked' = [asked EXCEPT ![r] = NoCommit]
  /\ made' = [made EXCEPT ![r] = NoCommit]
  /\ tags' \in {tags} \cup IF at[r] = "ask" /\ version[r] > Len(tags)
                            THEN {Append(tags, r)} ELSE {}
  /\ UNCHANGED <<origin, head, ref, takenBack, aim, version, turn, waiting,
                 takes>>

(* _what_production_did: it runs the hotfix, or says that it waits ... *)
Answers(r) ==
  /\ at[r] = "look at head"
  /\ GoesTo(r, IF head = made[r] \/ waiting THEN "accepted" ELSE "drop")
  /\ made' = [made EXCEPT ![r] = IF head = @ \/ waiting THEN NoCommit ELSE @]
  /\ UNCHANGED <<origin, head, ref, takenBack, tags, goal, aim, asked, version,
                 turn, waiting, takes>>

(* ... or the hotfix is asked for no longer. *)
Drops(r) ==
  /\ at[r] = "drop"
  /\ ref' = IF ref = made[r] THEN NoCommit ELSE ref
  /\ made' = [made EXCEPT ![r] = NoCommit]
  /\ GoesTo(r, "refused")
  /\ UNCHANGED <<origin, head, takenBack, tags, goal, aim, asked, version, turn,
                 waiting, takes>>

(***************************************************************************)
(* Around them.                                                            *)
(***************************************************************************)

(* What is asked for goes, and what runs is marked; a pass does the rest. *)
TakesBack ==
  /\ MoreHappens /\ takes' = takes + 1
  /\ ref' = NoCommit
  /\ takenBack' = IF head.fixes # <<>> THEN head ELSE takenBack
  /\ UNCHANGED <<origin, head, tags, at, goal, route, turn, waiting>>

(* The default branch gets a route's fix, or undoes a commit. *)
Lands ==
  /\ MoreHappens
  /\ \/ \E r \in Routes : trunk' = Append(trunk, [fix |-> r, undoes |-> 0])
     \/ \E n \in 1..Len(trunk) :
          trunk' = Append(trunk, [fix |-> NoCommit, undoes |-> n])
  /\ UNCHANGED <<passed, head, ref, takenBack, tags, at, goal, route, turn,
                 waiting, takes>>

(* What passed on it is what the updater follows. *)
PassesChecks(n) ==
  /\ passed < n /\ passed' = n
  /\ UNCHANGED <<trunk, head, ref, takenBack, tags, at, goal, route, turn,
                 waiting, takes>>

BringsUp(a) ==
  \/ ReadsHeading(a) \/ ForgetsHotfix(a) \/ PlansToBuild(a) \/ PlansToMove(a)
  \/ TakesTurn(a) \/ NeedsNoTurn(a) \/ CarriesOut(a) \/ EndsEarly(a)

RouteStep(r) ==
  \/ StartsRoute(r) \/ SeesWhatIsAsked(r) \/ Builds(r) \/ AsksFor(r)
  \/ Refuses(r) \/ Answers(r) \/ Drops(r)

HotfixNext ==
  \/ \E a \in Passes : BringsUp(a)
  \/ \E r \in Routes : RouteStep(r)
  \/ TakesBack \/ Lands
  \/ \E n \in 1..Len(trunk) : PassesChecks(n)

HotfixSpec == HotfixInit /\ [][HotfixNext]_hotfixVars

(***************************************************************************)
(* Properties.                                                             *)
(***************************************************************************)

(* Production moves off a fix it runs only to where that fix is in effect,
   or because it was taken back: whatever another route asked for, however
   old the plan, and whatever was undone on the default branch.           *)
FixesStay ==
  [][\A r \in FixesOn(head) \ FixesOn(head') :
       takenBack = head \/ r \in AuthorsInEffect(0, head'.on)]_hotfixVars

(* The version a hotfix that reached production pins is the one that route
   tagged: two routes never share one.                                    *)
VersionsAreKept ==
  \A r \in FixesOn(head) : tags[version[r]] = r

(* A checkout is not kept for ever at a hotfix whose fixes shipped, or
   that was taken back, when his app closes now and then.                 *)
MayLeave ==
  /\ head.fixes # <<>>
  /\ \/ takenBack = head
     \/ \A r \in FixesOn(head) : HasShipped(r, head, Shipped)
HotfixesGo == []<>~MayLeave
=============================================================================
