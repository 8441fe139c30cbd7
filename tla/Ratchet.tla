------------------------------- MODULE Ratchet -------------------------------
(***************************************************************************)
(* The quality baseline (gates/baseline.py): a section of it holds an      *)
(* entry for each file that is over nothing, the gate of a branch compares *)
(* the entries with what is counted and with the entries where it left     *)
(* main, and a tool writes them anew.  Entries follow files that are       *)
(* renamed, by what git detects and by what a file in the repository says. *)
(* Here is one section, which main has.                                    *)
(***************************************************************************)
EXTENDS Integers, FiniteSets

CONSTANTS
  Keys,      \* paths, numbered
  Most,      \* bound: what a file holds
  AtFirst,   \* by path: what main holds at first
  MaxWork    \* bound: edits and renames of a branch

ASSUME RatchetAssumption ==
  /\ IsFiniteSet(Keys) /\ 0 \notin Keys /\ Most \in Nat /\ MaxWork \in Nat
  /\ AtFirst \in [Keys -> 0..Most]

VARIABLES
  merged,    \* main: [live, onFile, stated]
  live,      \* by path: what is counted on the branch, 0 where no file is
  onFile,    \* by path: the entry on the branch, 0 for none
  cameFrom,  \* by path: the path where it left main whose file this is
  stated,    \* STATED_RENAMES_PATH: path to path
  worked

ratchetVars == <<merged, live, onFile, cameFrom, stated, worked>>

(* What a count finds in a file, over code and tests; a file with nothing to
   count is in no section, like one that is not there.                    *)
Counts == 0..Most

Unmoved == [k \in Keys |-> k]

RatchetInit ==
  /\ merged = [live |-> AtFirst, onFile |-> AtFirst, stated |-> <<>>]
  /\ live = AtFirst /\ onFile = AtFirst
  /\ cameFrom = Unmoved /\ stated = <<>>
  /\ worked = 0

Works == worked < MaxWork /\ worked' = worked + 1

(* A little, or so much that git sees another file. *)
Edits(k) ==
  /\ Works
  /\ \E n \in Counts \ {live[k]} :
       /\ live' = [live EXCEPT ![k] = n]
       /\ \/ n # 0 /\ UNCHANGED cameFrom
          \/ cameFrom' = [cameFrom EXCEPT ![k] = k]
  /\ UNCHANGED <<merged, onFile, stated>>

(* Over what was at b. *)
Renames(a, b) ==
  /\ Works /\ a # b /\ live[a] # 0
  /\ live' = [live EXCEPT ![b] = live[a], ![a] = 0]
  /\ cameFrom' = [cameFrom EXCEPT ![b] = cameFrom[a], ![a] = a]
  /\ UNCHANGED <<merged, onFile, stated>>

(* A person's word, which nothing checks. *)
StatesRename(a, b) ==
  /\ Works /\ a # b
  /\ stated' = [k \in DOMAIN stated \cup {a} |-> IF k = a THEN b ELSE stated[k]]
  /\ UNCHANGED <<merged, live, onFile, cameFrom>>

StatesNone ==
  /\ Works /\ stated # <<>> /\ stated' = <<>>
  /\ UNCHANGED <<merged, live, onFile, cameFrom>>

SetsEntry(k) ==
  /\ Works
  /\ \E n \in Counts \ {onFile[k]} : onFile' = [onFile EXCEPT ![k] = n]
  /\ UNCHANGED <<merged, live, cameFrom, stated>>

(***************************************************************************)
(* The tool and the gate.                                                  *)
(***************************************************************************)

(* git detects a rename from a path that is gone to one that is new; what
   is stated goes first.                                                  *)
RenamedSinceMain ==
  {r \in Keys \X Keys :
     /\ r[1] # r[2] /\ cameFrom[r[2]] = r[1]
     /\ live[r[1]] = 0 /\ merged.live[r[2]] = 0 /\ live[r[2]] # 0}
RenamesSeen ==
  [a \in DOMAIN stated \cup {r[1] : r \in RenamedSinceMain} |->
     IF a \in DOMAIN stated THEN stated[a]
       ELSE CHOOSE b \in Keys : <<a, b>> \in RenamedSinceMain]

(* Of two that move to one path, either may be the later. *)
Movers(held, renames, k) == {a \in DOMAIN renames : renames[a] = k /\ held[a] # 0}
Moved(held, renames) ==
  {f \in [Keys -> Keys \cup {0}] :
     \A k \in Keys : LET from == Movers(held, renames, k)
                     IN f[k] \in (IF from = {} THEN {0} ELSE from)}

(* A fault: the entry stays where the file was as well. *)
CarriedAndKept(held, renames) ==
  {[k \in Keys |-> IF moved[k] # 0 THEN held[moved[k]] ELSE held[k]] :
     moved \in Moved(held, renames)}

Carried(held, renames) ==
  {[k \in Keys |-> IF moved[k] # 0 THEN held[moved[k]]
                   ELSE IF k \in DOMAIN renames THEN 0 ELSE held[k]] :
     moved \in Moved(held, renames)}

Lowered(held) == [k \in Keys |-> IF held[k] < live[k] THEN held[k] ELSE live[k]]

(* Whatever it refuses, it writes. *)
RunsTool ==
  /\ onFile' \in {Lowered(carried) : carried \in Carried(onFile, RenamesSeen)}
  /\ UNCHANGED <<merged, live, cameFrom, stated, worked>>

CountHolds == \A k \in Keys : live[k] = onFile[k]

NothingStandsAboveMain ==
  \E carried \in Carried(merged.onFile, RenamesSeen) :
    \A k \in Keys : onFile[k] <= carried[k]

(* The branch lands and the next one leaves main there, with what is
   stated still in the tree.                                              *)
LandsBranch ==
  /\ CountHolds /\ NothingStandsAboveMain
  /\ merged' = [live |-> live, onFile |-> onFile, stated |-> stated]
  /\ cameFrom' = Unmoved
  /\ worked' = 0
  /\ UNCHANGED <<live, onFile, stated>>

StartsAnew ==
  /\ live' = merged.live /\ onFile' = merged.onFile /\ stated' = merged.stated
  /\ cameFrom' = Unmoved /\ worked' = 0
  /\ UNCHANGED merged

RatchetNext ==
  \/ \E k \in Keys : Edits(k) \/ SetsEntry(k)
  \/ \E a, b \in Keys : Renames(a, b) \/ StatesRename(a, b)
  \/ StatesNone \/ RunsTool \/ LandsBranch \/ StartsAnew

RatchetSpec == RatchetInit /\ [][RatchetNext]_ratchetVars

(***************************************************************************)
(* Properties.                                                             *)
(***************************************************************************)

(* What main holds of it in all, each one counted, never rises, whatever is
   renamed, moved over another file or stated to have been, by whomever the
   entries are written and however often the tool is run.                 *)
EachCounted(held) == {c \in Keys \X (1..Most) : c[2] <= held[c[1]]}
NothingRisesOnMain ==
  [][merged' # merged =>
       Cardinality(EachCounted(merged'.live)) <= Cardinality(EachCounted(merged.live))
    ]_ratchetVars
=============================================================================
