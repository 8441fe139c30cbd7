----------------------------- MODULE ImportSweep -----------------------------
(***************************************************************************)
(* The import sweep (import_sweep.py) and the process tree it ends         *)
(* (subprocess_utils.py, JobObject in win32.py).  An interpreter imports   *)
(* modules in turn and writes a line about each; when it dies or hangs the *)
(* module it was at is to blame, and another interpreter goes on behind    *)
(* it.  Imports may start helpers, which are ended with an interpreter     *)
(* that hangs.                                                             *)
(***************************************************************************)
EXTENDS Integers, FiniteSets, Sequences

CONSTANTS
  Swept,     \* the modules, 1..Swept in the order of the checkout
  Helpers,   \* processes that imports may start
  MaxWait    \* WaitForMultipleObjects takes that many handles

Child == "child"  \* the interpreter, among what is in its job

ASSUME SweepAssumption ==
  /\ Swept \in Nat \ {0} /\ MaxWait \in Nat \ {0}
  /\ IsFiniteSet(Helpers) /\ Child \notin Helpers

VARIABLES
  sweep,       \* where sweep() is
  remaining,   \* left; a list in the order of the checkout is its set
  outcomes,    \* by module: "imported", "failed", "stopped" or "none"
  lines,       \* what is in imports.jsonl: [module, failure]
  seen,        \* how many lines the last look found
  interpreter, \* "none", "runs", "ending" or "ended"
  importing,   \* the modules it has before it; the first is under way
  helper,      \* by helper: "none", "loose", "held", "ending" or "ended"
  assigned,    \* the interpreter is in the job
  ending       \* the processes end_all holds open

sweepVars == <<sweep, remaining, outcomes, lines, seen, interpreter, importing,
               helper, assigned, ending>>

Modules == 1..Swept
FirstOf(modules) == {m \in modules : \A n \in modules : m <= n}

SweepInit ==
  /\ sweep = "start"
  /\ remaining = Modules
  /\ outcomes = [m \in Modules |-> "none"]
  /\ lines = <<>> /\ seen = 0
  /\ interpreter = "none" /\ importing = {}
  /\ helper = [h \in Helpers |-> "none"]
  /\ assigned = FALSE
  /\ ending = {}

InJob(p) == IF p = Child THEN assigned /\ interpreter \in {"runs", "ending"}
                         ELSE helper[p] \in {"held", "ending"}

(***************************************************************************)
(* The interpreter and what it starts.                                     *)
(***************************************************************************)

ImportsOne ==
  /\ interpreter = "runs"
  /\ \E first \in FirstOf(importing), failure \in BOOLEAN :
       /\ lines' = Append(lines, [module |-> first, failure |-> failure])
       /\ importing' = importing \ {first}
  /\ UNCHANGED <<sweep, remaining, outcomes, seen, interpreter, helper, assigned,
                 ending>>

(* Children of a process in a job are in it; one started before the
   interpreter is assigned is not.                                        *)
StartsHelper(h) ==
  /\ interpreter = "runs" /\ importing # {} /\ helper[h] = "none"
  /\ helper' = [helper EXCEPT ![h] = IF assigned THEN "held" ELSE "loose"]
  /\ UNCHANGED <<sweep, remaining, outcomes, lines, seen, interpreter, importing,
                 assigned, ending>>

(* Done, dead of what it imports, or ended by the job. *)
InterpreterEnds ==
  /\ interpreter \in {"runs", "ending"}
  /\ interpreter' = "ended" /\ importing' = {}
  /\ UNCHANGED <<sweep, remaining, outcomes, lines, seen, helper, assigned, ending>>

HelperEnds(h) ==
  /\ helper[h] \in {"loose", "held", "ending"}
  /\ helper' = [helper EXCEPT ![h] = "ended"]
  /\ UNCHANGED <<sweep, remaining, outcomes, lines, seen, interpreter, importing,
                 assigned, ending>>

(***************************************************************************)
(* sweep().                                                                *)
(***************************************************************************)

Then(step) == sweep' = step

StartsInterpreter ==
  /\ sweep = "start" /\ remaining # {}
  /\ interpreter' = "runs" /\ importing' = remaining
  /\ assigned' = FALSE /\ seen' = Len(lines)
  /\ helper' = [h \in Helpers |-> "none"]
  /\ Then("assign")
  /\ UNCHANGED <<remaining, outcomes, lines, ending>>

(* ending_together: a job that holds the interpreter, or its kill alone
   when Windows refuses.                                                  *)
AssignsJob ==
  /\ sweep = "assign"
  /\ \E job \in BOOLEAN : /\ job => interpreter = "runs"
                          /\ assigned' = job
  /\ Then("watch")
  /\ UNCHANGED <<remaining, outcomes, lines, seen, interpreter, importing, helper,
                 ending>>

SeesLines ==
  /\ sweep = "watch" /\ Len(lines) # seen
  /\ seen' = Len(lines)
  /\ UNCHANGED <<sweep, remaining, outcomes, lines, interpreter, importing, helper,
                 assigned, ending>>

SeesTheEnd ==
  /\ sweep = "watch" /\ interpreter = "ended"
  /\ Then("record")
  /\ UNCHANGED <<remaining, outcomes, lines, seen, interpreter, importing, helper,
                 assigned, ending>>

(* No line for each_within_s: end_all of the job, or kill. *)
GivesUpOnIt ==
  /\ sweep = "watch" /\ interpreter = "runs" /\ Len(lines) = seen
  /\ IF assigned THEN Then("list") /\ UNCHANGED interpreter
                 ELSE Then("reap") /\ interpreter' = "ending"
  /\ UNCHANGED <<remaining, outcomes, lines, seen, importing, helper, assigned,
                 ending>>

(* _each_process_in_it: nobody when the query fails; one that ended since
   it was listed, that Windows does not open, or that has by now the pid
   of one that was listed, is left out.                                   *)
ListsTheJob ==
  /\ sweep = "list"
  /\ ending' \in SUBSET {p \in {Child} \cup Helpers : InJob(p)}
  /\ Then("terminate")
  /\ UNCHANGED <<remaining, outcomes, lines, seen, interpreter, importing, helper,
                 assigned>>

(* A fault: only what was listed is ended. *)
WasListed(p) == p \in ending

(* TerminateJobObject ends whatever is in the job by now. *)
Terminated(p) == InJob(p)

TerminatesTheJob ==
  /\ sweep = "terminate"
  /\ interpreter' = IF Terminated(Child) THEN "ending" ELSE interpreter
  /\ helper' = [h \in Helpers |-> IF Terminated(h) THEN "ending" ELSE helper[h]]
  /\ Then("wait")
  /\ UNCHANGED <<remaining, outcomes, lines, seen, importing, assigned, ending>>

HasEnded(p) == IF p = Child THEN interpreter = "ended" ELSE helper[p] = "ended"

(* Up to MaxWait handles at a time, each batch for ten seconds. *)
WaitsForABatch ==
  /\ sweep = "wait" /\ ending # {}
  /\ \E batch \in SUBSET ending :
       /\ Cardinality(batch) = IF Cardinality(ending) < MaxWait
                                 THEN Cardinality(ending) ELSE MaxWait
       /\ \A p \in batch : HasEnded(p)
       /\ ending' = ending \ batch
  /\ UNCHANGED <<sweep, remaining, outcomes, lines, seen, interpreter, importing,
                 helper, assigned>>

WaitedForAll ==
  /\ sweep = "wait" /\ ending = {}
  /\ Then("reap")
  /\ UNCHANGED <<remaining, outcomes, lines, seen, interpreter, importing, helper,
                 assigned, ending>>

(* child.wait() *)
Reaps ==
  /\ sweep = "reap" /\ interpreter = "ended"
  /\ Then("record")
  /\ UNCHANGED <<remaining, outcomes, lines, seen, interpreter, importing, helper,
                 assigned, ending>>

(* A fault: what was counted while it ran is what there is to read. *)
ToldWhenSeen(m) == {n \in 1..seen : lines[n].module = m}

Told(m) == {n \in 1..Len(lines) : lines[n].module = m}

(* The lines, read once the interpreter is gone; the first module without
   one is to blame.                                                       *)
ReadsTheRecord ==
  LET said == [m \in Modules |->
                 CASE Told(m) = {} -> outcomes[m]
                   [] \E n \in Told(m) : lines[n].failure -> "failed"
                   [] OTHER -> "imported"]
      without == {m \in remaining : said[m] = "none"}
  IN
  /\ sweep = "record"
  /\ \/ without = {} /\ outcomes' = said /\ remaining' = {}
     \/ \E first \in FirstOf(without) :
          /\ outcomes' = [said EXCEPT ![first] = "stopped"]
          /\ remaining' = without \ {first}
  /\ Then(IF remaining' = {} THEN "done" ELSE "start")
  /\ interpreter' = "none"
  /\ UNCHANGED <<lines, seen, importing, helper, assigned, ending>>

SweepNext ==
  \/ ImportsOne \/ InterpreterEnds
  \/ \E h \in Helpers : StartsHelper(h) \/ HelperEnds(h)
  \/ StartsInterpreter \/ AssignsJob \/ SeesLines \/ SeesTheEnd \/ GivesUpOnIt
  \/ ListsTheJob \/ TerminatesTheJob \/ WaitsForABatch \/ WaitedForAll \/ Reaps
  \/ ReadsTheRecord

SweepSpec == SweepInit /\ [][SweepNext]_sweepVars

(***************************************************************************)
(* Properties.                                                             *)
(***************************************************************************)

(* Only a module no interpreter told of is blamed for an interpreter's end,
   although lines are written until the moment it is ended; and in the end
   each module is told of (import_sweep.py:44-62).                        *)
EachIsBlamedForItself ==
  /\ \A m \in Modules : outcomes[m] = "stopped" => \A n \in 1..Len(lines) : lines[n].module # m
  /\ sweep = "done" => \A m \in Modules : outcomes[m] # "none"

(* Nothing an interpreter started under its job is left when the sweep gives
   up on it, whatever was started between the list and the end.           *)
NothingIsLeftOfAHang ==
  sweep = "reap" /\ assigned => \A h \in Helpers : helper[h] # "held"
=============================================================================
