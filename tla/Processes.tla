------------------------------ MODULE Processes ------------------------------
(***************************************************************************)
(* Whose a process is (processes.py).  running() takes a snapshot of pids  *)
(* and parent pids and then opens each pid for the rest; whose_process     *)
(* walks parents and children in that list and reads environments by pid.  *)
(* Meanwhile processes end, and Windows hands their pids on.               *)
(*                                                                         *)
(* A process is known by its birth, which is also when it started.         *)
(***************************************************************************)
EXTENDS Integers, FiniteSets

CONSTANTS
  Pids,       \* process ids
  Shell,      \* the pid of what he starts programs from
  Gone,       \* no process, or nothing known of it
  MaxBirths   \* bound: processes that start

ASSUME ProcessesAssumption ==
  /\ IsFiniteSet(Pids) /\ Shell \in Pids
  /\ Gone \notin Pids /\ Gone \notin {"agent", "his"}
  /\ MaxBirths \in Nat

VARIABLES
  table,     \* by pid: [born, ppid, claude, mark, closed] or Gone
  births,
  agents,    \* history: births of agents' processes, which descend from Claude Code
  entries,   \* the snapshot: by pid its parent's pid, or Gone
  listed,    \* by pid: [ppid, started, claude] as _described, or Gone
  described, \* the pids of the snapshot opened so far
  handedOn,  \* history: pids handed on since the snapshot
  answers    \* whose each pid is: "agent", "his" or Gone

processVars == <<table, births, agents, entries, listed, described, handedOn,
                 answers>>

Nothing == [p \in Pids |-> Gone]

ProcessesInit ==
  /\ table = [p \in Pids |-> IF p = Shell
                THEN [born |-> 1, ppid |-> Shell, claude |-> FALSE,
                      mark |-> FALSE, closed |-> FALSE]
                ELSE Gone]
  /\ births = 1
  /\ agents = {}
  /\ entries = Nothing /\ listed = Nothing /\ described = {}
  /\ handedOn = {}
  /\ answers = Nothing

Live == {p \in Pids : table[p] # Gone}

(***************************************************************************)
(* Processes.                                                              *)
(***************************************************************************)

(* Claude Code marks the shells it starts, and children inherit the mark
   unless someone drops it.  Some may not be opened.                      *)
ProcessStarts(parent, p) ==
  /\ parent \in Live /\ p \notin Live /\ births < MaxBirths
  /\ births' = births + 1
  /\ \E claude, marked, closed \in BOOLEAN :
       /\ marked => table[parent].claude \/ table[parent].mark
       /\ table' = [table EXCEPT ![p] =
                      [born |-> births', ppid |-> parent, claude |-> claude,
                       mark |-> marked, closed |-> closed]]
       /\ agents' = IF claude \/ table[parent].born \in agents
                      THEN agents \cup {births'} ELSE agents
  /\ handedOn' = handedOn \cup ({p} \cap {q \in Pids : entries[q] # Gone})
  /\ UNCHANGED <<entries, listed, described, answers>>

ProcessEnds(p) ==
  /\ p \in Live \ {Shell}
  /\ table' = [table EXCEPT ![p] = Gone]
  /\ UNCHANGED <<births, agents, entries, listed, described, handedOn, answers>>

(***************************************************************************)
(* One look.                                                               *)
(***************************************************************************)

TakesSnapshot ==
  /\ entries = Nothing
  /\ entries' = [p \in Pids |-> IF p \in Live THEN table[p].ppid ELSE Gone]
  /\ UNCHANGED <<table, births, agents, listed, described, handedOn, answers>>

(* Its start, program and arguments, by its handle. *)
Known(p) == [ppid |-> entries[p], started |-> table[p].born,
             claude |-> table[p].claude]

(* A pid that cannot be opened is listed as one that started at 0.0. *)
Unknown(p) == [ppid |-> entries[p], started |-> 0, claude |-> FALSE]

Describes(p) ==
  /\ entries[p] # Gone /\ p \notin described
  /\ described' = described \cup {p}
  /\ listed' = [listed EXCEPT ![p] = IF p \in Live /\ ~table[p].closed
                                      THEN Known(p) ELSE Unknown(p)]
  /\ UNCHANGED <<table, births, agents, entries, handedOn, answers>>

(* The process ended under an open handle: it is left out. *)
LeavesOut(p) ==
  /\ entries[p] # Gone /\ p \notin described /\ p \notin Live
  /\ described' = described \cup {p}
  /\ UNCHANGED <<table, births, agents, entries, listed, handedOn, answers>>

Listed == {p \in Pids : listed[p] # Gone}

(* A fault: whoever has the parent's pid is the parent. *)
ParentWhoeverItIs(p) == {q \in Listed \ {p} : q = listed[p].ppid}

(* The parent, unless what has its pid started after the child did. *)
ParentOf(p) ==
  {q \in Listed \ {p} : q = listed[p].ppid /\ listed[q].started <= listed[p].started}

Ancestors(p) ==
  LET up[n \in 0..Cardinality(Pids)] ==
        IF n = 0 THEN {p} ELSE UNION {ParentOf(q) : q \in up[n - 1]}
  IN (UNION {up[n] : n \in 1..Cardinality(Pids)}) \ {p}

ChildrenOf(p) ==
  {q \in Listed : listed[q].ppid = p /\ listed[q].started >= listed[p].started}

(* Nothing is read of a process that has ended or may not be read. *)
MayBeRead(p) == p \in Live /\ ~table[p].closed

(* SESSION_MARK among environment_names. *)
HasMark(p) == MayBeRead(p) /\ table[p].mark

(* A fault: what runs under Claude Code without its mark is his. *)
WhoseByMark(p) ==
  IF HasMark(p) \/ \E q \in ChildrenOf(p) : HasMark(q) THEN "agent" ELSE "his"

Whose(p) ==
  IF \/ HasMark(p) \/ \E q \in ChildrenOf(p) : HasMark(q)
     \/ \E q \in Ancestors(p) : listed[q].claude
    THEN "agent" ELSE "his"

Answer(p) ==
  /\ described = {q \in Pids : entries[q] # Gone} /\ p \in Listed
  /\ answers[p] = Gone
  /\ answers' = [answers EXCEPT ![p] = Whose(p)]
  /\ UNCHANGED <<table, births, agents, entries, listed, described, handedOn>>

LooksAgain ==
  /\ \E p \in Pids : answers[p] # Gone
  /\ entries' = Nothing /\ listed' = Nothing /\ described' = {}
  /\ handedOn' = {} /\ answers' = Nothing
  /\ UNCHANGED <<table, births, agents>>

ProcessesNext ==
  \/ \E p \in Pids :
       \/ ProcessEnds(p) \/ Describes(p) \/ LeavesOut(p) \/ Answer(p)
       \/ \E parent \in Pids : ProcessStarts(parent, p)
  \/ TakesSnapshot \/ LooksAgain

ProcessesSpec == ProcessesInit /\ [][ProcessesNext]_processVars

(***************************************************************************)
(* Properties.                                                             *)
(***************************************************************************)

(* None of his processes is taken for an agent's, under which an update
   would move: whatever has a dead parent's pid by now, but for pids handed
   on in the middle of the look.                                          *)
NoneOfHisIsAnAgents ==
  [][\A p \in Pids :
       answers[p] = Gone /\ answers'[p] = "agent" /\ handedOn = {}
       => listed[p].started \in agents \cup {0}]_processVars

(* What runs under Claude Code all through the look is told for an agent's,
   marked or not, as long as everything between can be opened.            *)
RanThrough(p) ==
  p \in Live /\ p \in Listed /\ table[p].born = listed[p].started
RunsUnderClaude(p) ==
  LET under[n \in 0..Cardinality(Pids)] ==
        IF n = 0 THEN {q \in Pids : RanThrough(q) /\ table[q].claude}
        ELSE {q \in Pids : /\ RanThrough(q) /\ table[q].ppid \in under[n - 1]
                           /\ table[table[q].ppid].born < table[q].born}
  IN \E n \in 1..Cardinality(Pids) : p \in under[n]
AgentsAreTold ==
  [][\A p \in Pids :
       answers[p] = Gone /\ answers'[p] = "his" /\ handedOn = {}
       => ~RunsUnderClaude(p)]_processVars
=============================================================================
