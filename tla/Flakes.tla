-------------------------------- MODULE Flakes --------------------------------
(***************************************************************************)
(* The flake gate (flake_gate.py): the tests a branch changed              *)
(* (changed_tests.py) are dealt out among machines, and each machine runs  *)
(* its share several times over, in chunks that fit a command line and     *)
(* what is left of a cap on the time.                                      *)
(*                                                                         *)
(* A test or definition is a body and the names it mentions.  Files that   *)
(* are new on the branch are the tests in them.                            *)
(***************************************************************************)
EXTENDS Integers, Sequences, FiniteSets, SequencesExt

CONSTANTS
  OldTests,     \* tests of a file that is on both sides, numbered
  NewTests,     \* tests of new files, numbered after them
  Definitions,  \* names the old file may define
  Undefined,
  Repeats,      \* --runs
  Cap,          \* bound: --budget-minutes, in units of a quick test
  FirstChunk,   \* tests of the first chunk, which is measured
  PerCommand,   \* tests one command line holds
  MaxCommits    \* bound: commits of the branch and of main

ASSUME FlakesAssumption ==
  /\ IsFiniteSet(OldTests) /\ IsFiniteSet(NewTests) /\ IsFiniteSet(Definitions)
  /\ OldTests \cup NewTests \subseteq Nat /\ OldTests \cap NewTests = {}
  /\ {Repeats, Cap, FirstChunk, PerCommand} \subseteq Nat \ {0}
  /\ MaxCommits \in Nat

VARIABLES
  fork,     \* the file where the branch left main
  base,     \* the file at the tip of --base, main
  tip,      \* the file at HEAD
  commits,
  changedIds,  \* what changed_test_ids names, in order
  parts,    \* --parts
  capped,   \* a cap was given
  gate,     \* "out", "choose", "run", "held" or "refused"
  share,    \* the ids this machine was dealt
  left,     \* those of them not repeated yet
  chunk,    \* the ones it runs together
  runNumber,
  clock,
  spent, testRuns,  \* _Pace
  passes    \* history: how often each id passed

flakeVars == <<fork, base, tip, commits, changedIds, parts, capped, gate, share,
               left, chunk, runNumber, clock, spent, testRuns, passes>>

Node == [body : {0, 1}, says : SUBSET Definitions] \cup {Undefined}

(* Around is what names every test: marks, code nobody follows, autouse
   fixtures; imports, that a name is imported; wording, docstrings and
   comments.                                                              *)
FileOf(tests, defined) ==
  [tests |-> tests, defined |-> defined, around |-> 0, imports |-> TRUE,
   wording |-> 0]
Plain == FileOf([t \in OldTests |-> Undefined], [n \in Definitions |-> Undefined])

FlakesInit ==
  /\ \E tests \in [OldTests -> {n \in Node \ {Undefined} : n.body = 0} \cup {Undefined}],
        defined \in [Definitions -> {n \in Node \ {Undefined} : n.body = 0}
                                      \cup {Undefined}] :
       fork = FileOf(tests, defined)
  /\ base = fork /\ tip = fork /\ commits = 0
  /\ changedIds = <<>> /\ parts = 1 /\ capped = FALSE
  /\ gate = "out" /\ share = <<>> /\ left = <<>> /\ chunk = <<>>
  /\ runNumber = 1 /\ clock = 0 /\ spent = 0 /\ testRuns = 0
  /\ passes = [t \in OldTests \cup NewTests |-> 0]

(***************************************************************************)
(* What the branch commits, and main beside it, and what the gate sees.    *)
(***************************************************************************)

Committed(file) ==
  {[file EXCEPT !.tests[t] = node] : t \in OldTests, node \in Node}
    \cup {[file EXCEPT !.defined[n] = node] : n \in Definitions, node \in Node}
    \cup {[file EXCEPT !.around = 1], [file EXCEPT !.wording = 1]}
    \cup {[file EXCEPT !.imports = imported] : imported \in BOOLEAN}

CommitsOne ==
  /\ gate = "out" /\ commits < MaxCommits /\ commits' = commits + 1
  /\ UNCHANGED <<fork, changedIds, parts, capped, gate, share, left, chunk,
                 runNumber, clock, spent, testRuns, passes>>

Commits == CommitsOne /\ tip' \in Committed(tip) /\ UNCHANGED base

MainCommits == CommitsOne /\ base' \in Committed(base) /\ UNCHANGED tip

(* A fault: a definition that is gone is not one that moved. *)
MovedAndStillThere(before, after) ==
  {n \in Definitions : after.defined[n] \notin {Undefined, before.defined[n]}}

DefinitionsThatMoved(before, after) ==
  {n \in Definitions : before.defined[n] # after.defined[n]}

(* _everything_reached, a definition further at each step. *)
EverythingReached(file, t) ==
  LET Follow(names) == UNION {file.defined[n].says :
                                n \in {m \in names : file.defined[m] # Undefined}}
      reached[k \in 0..Cardinality(Definitions)] ==
        IF k = 0 THEN file.tests[t].says
                 ELSE reached[k - 1] \cup Follow(reached[k - 1])
  IN reached[Cardinality(Definitions)]

(* _around_changed: an import gained is nothing changed. *)
AroundChanged(before, after) ==
  before.around # after.around \/ (before.imports /\ ~after.imports)

(* base...HEAD: the branch touched the file, in its wording if nothing else. *)
IsInTheDiff == tip # fork

(* changed_test_ids: the files that changed since the branch left, each
   against what it is at the tip of main.                                 *)
ChangedTests ==
  {t \in OldTests :
     /\ IsInTheDiff /\ tip.tests[t] # Undefined
     /\ \/ base.tests[t] # tip.tests[t] \/ AroundChanged(base, tip)
        \/ DefinitionsThatMoved(base, tip) \cap EverythingReached(tip, t) # {}}

(* As the diff names the files, and each file its tests. *)
InOrderOf(tests) ==
  {ids \in [1..Cardinality(tests) -> tests] :
     \A i, j \in DOMAIN ids : i < j => ids[i] < ids[j]}

(* ids[part - 1::parts] *)
ShareOf(ids, part, of) ==
  [k \in 1..((Len(ids) - part + of) \div of) |-> ids[part + (k - 1) * of]]

(* The files are looked at no more. *)
Deals ==
  /\ gate = "out"
  /\ \E ids \in InOrderOf(ChangedTests \cup NewTests), of \in 1..2 : \E part \in 1..of :
       /\ changedIds' = ids
       /\ parts' = of
       /\ share' = ShareOf(ids, part, of)
  /\ left' = share'
  /\ capped' \in BOOLEAN
  /\ gate' = IF share' = <<>> THEN "held" ELSE "choose"
  /\ fork' = Plain /\ base' = Plain /\ tip' = Plain
  /\ UNCHANGED <<commits, chunk, runNumber, clock, spent, testRuns, passes>>

(***************************************************************************)
(* Repeating them.                                                         *)
(***************************************************************************)

Smaller(a, b) == IF a < b THEN a ELSE b
Larger(a, b) == IF a < b THEN b ELSE a

(* tests_that_fit *)
ThatFit ==
  IF spent = 0 THEN FirstChunk
               ELSE Larger(0, ((Cap - clock) * testRuns) \div (spent * Repeats))

(* _the_next_chunk; when none fits, the rest is left. *)
TakesChunk ==
  LET holds == Smaller(Len(left), PerCommand)
      size == IF capped THEN Smaller(holds, ThatFit) ELSE holds
  IN
  /\ gate = "choose"
  /\ IF size = 0
       THEN gate' = "held" /\ UNCHANGED <<chunk, runNumber>>
       ELSE /\ gate' = "run" /\ runNumber' = 1
            /\ chunk' = SubSeq(left, 1, size)
  /\ UNCHANGED <<fork, base, tip, commits, changedIds, parts, capped, share, left,
                 clock, spent, testRuns, passes>>

(* A run that would end past the cap, at the pace so far, is not begun. *)
WouldEndLate ==
  capped /\ spent # 0 /\ (Cap - clock) * testRuns < spent * Len(chunk)

StopsShort ==
  /\ gate = "run" /\ WouldEndLate
  /\ gate' = "held"
  /\ UNCHANGED <<fork, base, tip, commits, changedIds, parts, capped, share, left,
                 chunk, runNumber, clock, spent, testRuns, passes>>

(* One that runs past it is ended there. *)
IsCutShort ==
  /\ gate = "run" /\ ~WouldEndLate /\ capped
  /\ Cap - clock < 2 * Len(chunk)
  /\ gate' = "held" /\ clock' = Cap
  /\ UNCHANGED <<fork, base, tip, commits, changedIds, parts, capped, share, left,
                 chunk, runNumber, spent, testRuns, passes>>

(* A fault: the first run is counted for one before it. *)
RepeatedButOnce == runNumber + 1 >= Repeats

RepeatedEnough == runNumber = Repeats

ChunkPasses ==
  /\ gate = "run" /\ ~WouldEndLate
  /\ \E seconds \in {Len(chunk), 2 * Len(chunk)} :
       /\ capped => clock + seconds <= Cap
       /\ clock' = IF capped THEN clock + seconds ELSE clock
       /\ spent' = IF capped THEN spent + seconds ELSE spent
  /\ testRuns' = IF capped THEN testRuns + Len(chunk) ELSE testRuns
  /\ passes' = [t \in DOMAIN passes |->
                  IF t \in ToSet(chunk) THEN passes[t] + 1 ELSE passes[t]]
  /\ IF RepeatedEnough
       THEN /\ left' = SubSeq(left, Len(chunk) + 1, Len(left))
            /\ gate' = IF left' = <<>> THEN "held" ELSE "choose"
            /\ UNCHANGED runNumber
       ELSE runNumber' = runNumber + 1 /\ UNCHANGED <<left, gate>>
  /\ UNCHANGED <<fork, base, tip, commits, changedIds, parts, capped, share, chunk>>

(* A test that fails even once refuses the branch. *)
ChunkFails ==
  /\ gate = "run" /\ ~WouldEndLate
  /\ gate' = "refused"
  /\ UNCHANGED <<fork, base, tip, commits, changedIds, parts, capped, share, left,
                 chunk, runNumber, clock, spent, testRuns, passes>>

FlakesNext ==
  \/ Commits \/ MainCommits \/ Deals \/ TakesChunk \/ StopsShort \/ IsCutShort
  \/ ChunkPasses \/ ChunkFails

FlakesSpec == FlakesInit /\ [][FlakesNext]_flakeVars

(***************************************************************************)
(* Properties.                                                             *)
(***************************************************************************)

(* The names a test reaches: in every set that has what it mentions, and
   what is mentioned by what it has.                                      *)
Reaches(file, t, n) ==
  \A names \in SUBSET Definitions :
    /\ file.tests[t].says \subseteq names
    /\ \A m \in names : file.defined[m] # Undefined => file.defined[m].says \subseteq names
    => n \in names
MeansTheSame(t) ==
  /\ base.tests[t] = tip.tests[t] /\ base.around = tip.around
  /\ base.imports => tip.imports
  /\ \A n \in Definitions :
       /\ Reaches(base, t, n) <=> Reaches(tip, t, n)
       /\ Reaches(tip, t, n) => base.defined[n] = tip.defined[n]

(* In a file the branch touched a test is named if and only if it means
   something else at HEAD than at the tip of main, by whatever it reaches
   and however often each of that moved; of the others none is.  So a test
   only main changed is named too, beside one of the branch's, and one that
   both changed alike is not.  (changed_test_ids)                         *)
TheChangedAreNamed ==
  [][gate = "out" /\ gate' # "out" =>
       \A t \in OldTests : tip.tests[t] # Undefined =>
         (t \in ToSet(changedIds') <=> tip # fork /\ ~MeansTheSame(t))]_flakeVars

(* Of a share that held up, each test passed every repeat or is named as
   left, wherever the cap fell; and no changed test is in two shares or in
   none.                                                                  *)
EachIsRepeatedOrNamed ==
  /\ gate = "held" =>
       /\ \A t \in ToSet(share) \ ToSet(left) : passes[t] >= Repeats
       /\ capped \/ left = <<>>
  /\ gate # "out" =>
       \A t \in ToSet(changedIds) :
         Cardinality({part \in 1..parts :
                        t \in ToSet(ShareOf(changedIds, part, parts))}) = 1
=============================================================================
