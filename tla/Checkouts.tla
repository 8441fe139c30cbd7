------------------------------ MODULE Checkouts ------------------------------
(***************************************************************************)
(* The production checkouts of one workspace, as production_update and the *)
(* launchers share them: the files in each checkout's .git, its code, its  *)
(* venv and the programs that run out of it.                               *)
(*                                                                         *)
(* A version is a commit of the default branch; 0 is the oldest, and an    *)
(* ancestor is a smaller number.  Every checkout here has a venv, and is   *)
(* on its branch unless it is kept where it is.                            *)
(***************************************************************************)
EXTENDS Integers, Sequences

CONSTANTS
  Checkouts,   \* the checkouts of the workspace
  Launches,    \* launchers a person, the desktop or an app's restart can run
  Passes,      \* scheduled runs of production_update over every checkout
  NoOne,       \* neither a launch nor a pass
  Gates,       \* for a launch, the checkouts whose turn files it holds: its
               \* app's own, then those its app's also-runs names
  PassOrder,   \* checkouts_in(workspace)
  Home,        \* the checkout whose venv the updater itself runs out of, or
               \* NoOne: that checkout is none of these
  MayBeKept,   \* bound: the checkouts somebody edits
  MaxVersion,  \* bound: the newest version that ever ships
  Pins,        \* for a version, the libraries its pyproject pins
  Pyproject    \* for a version, its pyproject.toml as a whole

Versions == 0..MaxVersion
Nowhere == -1       \* no version
Mixed == -1         \* a venv some of whose packages were replaced

Libraries == {Pins[v] : v \in Versions} \cup {Mixed}
Installs == {Pyproject[v] : v \in Versions} \cup {Mixed}

Updaters == Launches \cup Passes

(* The checkouts one run of the updater brings up, in order: a pass those
   of the workspace, the run a launch makes before its app starts those it
   is about to hold.                                                      *)
Round(u) == IF u \in Passes THEN PassOrder ELSE Gates[u]

(* A launch's app runs out of its own checkout and starts programs from
   those it also runs.                                                    *)
RunsFrom(l) == {Gates[l][i] : i \in DOMAIN Gates[l]}

ASSUME ProcessesAssumption ==
  /\ NoOne \notin Updaters /\ NoOne \notin Checkouts
  /\ Launches \cap Passes = {}
ASSUME OrdersAssumption ==
  /\ Gates \in [Launches -> Seq(Checkouts)]
  /\ \A l \in Launches : Gates[l] # <<>>
  /\ PassOrder \in Seq(Checkouts) /\ PassOrder # <<>>
  /\ Home \in Checkouts \cup {NoOne} /\ MayBeKept \subseteq Checkouts
ASSUME VersionsAssumption ==
  /\ MaxVersion \in Nat
  /\ Pins \in [Versions -> Nat] /\ Pyproject \in [Versions -> Nat]
  /\ \A v, w \in Versions : Pins[v] # Pins[w] => Pyproject[v] # Pyproject[w]

VARIABLES
  shipped,   \* the default branch on GitHub
  tracking,  \* refs/remotes/origin/<branch>, as last fetched
  head,      \* HEAD
  libs,      \* the libraries in the venv, as the pins they answer to
  venvAt,    \* the pyproject the checkout was last installed from
  kept,      \* the checkouts something keeps where they are: uncommitted
             \* changes, another branch, an overlay short of a key
  waiting,   \* the checkouts with a .git/production-update.waiting
  alone,     \* who has .git/production-update.turn open, shared with nobody
  shared,    \* which launches have it open, shared
  copies,    \* for a launch, how many copies of its app are running
  lpc,       \* where each launcher is
  startedBy  \* for a launch, the app a copy of which ran its launcher, while
             \* that copy runs; or NoOne

repository == <<shipped, tracking, kept>>
venvs == <<head, libs, venvAt>>
turns == <<alone, shared>>
checkoutVars == <<repository, venvs, turns, waiting, copies>>

CheckoutsTypeOK ==
  /\ shipped \in [Checkouts -> Versions]
  /\ tracking \in [Checkouts -> Versions]
  /\ head \in [Checkouts -> Versions]
  /\ libs \in [Checkouts -> Libraries]
  /\ venvAt \in [Checkouts -> Installs]
  /\ kept \subseteq Checkouts
  /\ waiting \subseteq Checkouts
  /\ alone \in [Checkouts -> Updaters \cup {NoOne}]
  /\ shared \in [Checkouts -> SUBSET Launches]
  /\ copies \in [Launches -> Nat]

(* A venv may hold libraries its code does not pin: a checkout can have been
   pulled by hand.                                                        *)
CheckoutsInit ==
  /\ shipped = [c \in Checkouts |-> 0]
  /\ tracking = [c \in Checkouts |-> 0]
  /\ head = [c \in Checkouts |-> 0]
  /\ libs \in [Checkouts -> {Pins[0], Mixed}]
  /\ venvAt = [c \in Checkouts |-> Pyproject[0]]
  /\ kept = {}
  /\ waiting = {}
  /\ alone = [c \in Checkouts |-> NoOne]
  /\ shared = [c \in Checkouts |-> {}]
  /\ copies = [l \in Launches |-> 0]

(***************************************************************************)
(* What the files answer.                                                  *)
(***************************************************************************)

(* A fault: the turn is opened for an update as a launcher opens it. *)
TurnIsFreeOfUpdates(c) == alone[c] = NoOne

(* held_alone opens the turn shared with nobody: nobody else has it open. *)
TurnIsFree(c) == alone[c] = NoOne /\ shared[c] = {}

(* A launcher opens it for reading, shared with every other launcher. *)
GateIsOpen(c) == alone[c] = NoOne

AnAppRunsFrom(c) == \E l \in Launches : copies[l] > 0 /\ c \in RunsFrom(l)

(* The script is there, as a parent of the updater it started. *)
ScriptRuns(l) == lpc[l] \notin {"closed", "ending", "ended"}

(* A copy of k's app ran the launcher that started run u, and nothing between
   the two has ended: it is one of the parents of the run.                *)
IsAParentOf(k, u) ==
  /\ u \in Launches
  /\ startedBy[u] = k /\ ScriptRuns(u)

(* A run does not see itself and its parents (running_from). *)
CopiesSeenBy(u, k) == IF IsAParentOf(k, u) THEN copies[k] - 1 ELSE copies[k]

(***************************************************************************)
(* What happens to a checkout from outside.                                *)
(***************************************************************************)

(* A commit lands on the default branch at GitHub. *)
Ship(c) ==
  /\ shipped[c] < MaxVersion
  /\ shipped' = [shipped EXCEPT ![c] = @ + 1]
  /\ UNCHANGED <<tracking, kept, venvs, turns, waiting, copies>>

(* Somebody edits the checkout, or leaves it as it was committed again. *)
KeepOrNot(c) ==
  /\ c \in MayBeKept
  /\ kept' = IF c \in kept THEN kept \ {c} ELSE kept \cup {c}
  /\ UNCHANGED <<shipped, tracking, venvs, turns, waiting, copies>>
=============================================================================
