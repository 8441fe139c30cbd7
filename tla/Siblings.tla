-------------------------------- MODULE Siblings --------------------------------
(***************************************************************************)
(* What a checkout says of the siblings it stands on (dependencies.py).    *)
(* Its gates compare the siblings it declares with the ones it imports and *)
(* the ones those declare in turn, as their checkouts beside it say, and   *)
(* with the pins pip installs.  How imports, plugins and requirements are  *)
(* spelled is left out.                                                    *)
(***************************************************************************)
EXTENDS FiniteSets

CONSTANTS
  FamilySiblings,  \* FAMILY_SIBLINGS
  RenamedSiblings, \* RENAMED_SIBLINGS: by an old name, the sibling
  Gated,           \* checkouts whose gates run, siblings and apps
  NoCheckout

ASSUME SiblingsAssumption ==
  /\ IsFiniteSet(FamilySiblings)
  /\ RenamedSiblings \in [DOMAIN RenamedSiblings -> FamilySiblings]

VARIABLES
  itself,     \* the checkout whose gates run
  beside,     \* by sibling: what its checkout declares, or NoCheckout
  needed,     \* sibling_imports
  written,    \* [tool.haglio] siblings, as they are written
  declared,   \* declared_siblings: the same, by the names they have now
  pinnedToo,  \* pinned_siblings
  askedFor,   \* those of them in dependencies, and not in an extra
  pending, inherited,  \* inherited_siblings
  gates       \* "out", "inherit", "pin", "hold", "undeclared", "unpinned"

siblingVars == <<itself, beside, needed, written, declared, pinnedToo,
                 askedFor, pending, inherited, gates>>

SiblingsInit ==
  /\ itself = NoCheckout
  /\ beside = [s \in FamilySiblings |-> NoCheckout]
  /\ needed = {} /\ written = {} /\ declared = {} /\ pinnedToo = {} /\ askedFor = {}
  /\ pending = {} /\ inherited = {}
  /\ gates = "out"

(* sibling_imports: whatever the sources of a checkout import of the family,
   and its tests as plugins; a checkout does not need itself.             *)
MayImport(c) == SUBSET (FamilySiblings \ {c})

(* A sibling may be named as it was before it was renamed. *)
MayBeNamed == FamilySiblings \cup DOMAIN RenamedSiblings
NamedNow(names) ==
  {IF n \in DOMAIN RenamedSiblings THEN RenamedSiblings[n] ELSE n : n \in names}

(* Anything anybody writes before the gates run. *)
WritesAnything ==
  /\ gates = "out" /\ itself' \in Gated
  /\ beside' \in [FamilySiblings -> (SUBSET FamilySiblings) \cup {NoCheckout}]
  /\ \A s \in FamilySiblings : beside'[s] # NoCheckout => s \notin beside'[s]
  /\ needed' \in MayImport(itself')
  /\ written' \in SUBSET MayBeNamed /\ declared' = NamedNow(written')
  /\ pending' = declared' /\ inherited' = {}
  /\ gates' = "inherit"
  /\ UNCHANGED <<pinnedToo, askedFor>>

(* _what_a_sibling_needs *)
DeclaredBy(s) == IF beside[s] = NoCheckout THEN {} ELSE beside[s]

(* A fault: a sibling whose checkout is missing passes for one that declares
   nothing.                                                               *)
PopsWhatIsMissing(name) ==
  /\ gates = "inherit" /\ name \in pending
  /\ inherited' = inherited \cup DeclaredBy(name)
  /\ pending' = (pending \ {name}) \cup (DeclaredBy(name) \ inherited)
  /\ UNCHANGED <<itself, beside, needed, written, declared, pinnedToo, askedFor,
                 gates>>

(* One turn of the loop of inherited_siblings. *)
Pops(name) ==
  /\ gates = "inherit" /\ name \in pending /\ beside[name] # NoCheckout
  /\ inherited' = inherited \cup DeclaredBy(name)
  /\ pending' = (pending \ {name}) \cup (DeclaredBy(name) \ inherited)
  /\ UNCHANGED <<itself, beside, needed, written, declared, pinnedToo, askedFor,
                 gates>>

Declared == needed \subseteq declared
NothingMissing == inherited \subseteq declared
NothingTooMuch == declared \subseteq needed \cup inherited

(* assert_every_sibling_is_declared.  Where a checkout is missing nothing is
   known of what is inherited.                                            *)
SaysWhatIsInherited ==
  /\ gates = "inherit" /\ pending = {}
  /\ gates' = IF Declared /\ NothingMissing /\ NothingTooMuch THEN "pin"
                                                              ELSE "undeclared"
  /\ UNCHANGED <<itself, beside, needed, written, declared, pinnedToo, askedFor,
                 pending, inherited>>

MissesACheckout ==
  /\ gates = "inherit"
  /\ \E name \in pending : beside[name] = NoCheckout
  /\ gates' = IF Declared THEN "pin" ELSE "undeclared"
  /\ pending' = {} /\ inherited' = {}
  /\ UNCHANGED <<itself, beside, needed, written, declared, pinnedToo, askedFor>>

(* assert_every_sibling_is_pinned, whatever is pinned.  It compares the
   names as they are written.                                             *)
SaysWhatIsPinned ==
  /\ gates = "pin"
  /\ pinnedToo' \in SUBSET MayBeNamed
  /\ askedFor' \in SUBSET pinnedToo'
  /\ gates' = IF pinnedToo' = written /\ (itself \in FamilySiblings => askedFor' = {})
                THEN "hold" ELSE "unpinned"
  /\ UNCHANGED <<itself, beside, needed, written, declared, pending, inherited>>

WritesAnew ==
  /\ gates \in {"hold", "undeclared", "unpinned"}
  /\ itself' = NoCheckout
  /\ beside' = [s \in FamilySiblings |-> NoCheckout]
  /\ needed' = {} /\ written' = {} /\ declared' = {} /\ pinnedToo' = {} /\ askedFor' = {}
  /\ pending' = {} /\ inherited' = {}
  /\ gates' = "out"

SiblingsNext ==
  \/ WritesAnything \/ MissesACheckout \/ SaysWhatIsInherited \/ SaysWhatIsPinned
  \/ WritesAnew
  \/ \E name \in FamilySiblings : Pops(name)

SiblingsSpec == SiblingsInit /\ [][SiblingsNext]_siblingVars

(***************************************************************************)
(* Properties.                                                             *)
(***************************************************************************)

(* The least set that holds all of names and what each of them declares. *)
ReachedFrom(names) ==
  LET whole == {some \in SUBSET FamilySiblings :
                  names \subseteq some /\ \A s \in some : DeclaredBy(s) \subseteq some}
  IN {s \in FamilySiblings : \A some \in whole : s \in some}

AllAreThere == \A s \in ReachedFrom(declared) : beside[s] # NoCheckout

(* No siblings that stand on each other, round about. *)
InOneOrder ==
  \A some \in SUBSET FamilySiblings :
    some # {} => \E s \in some : \A t \in some : s \notin DeclaredBy(t)

(* Where both gates hold, what pip installs of the family, by whatever name
   a sibling had, is what the imports reach over every checkout between, and
   nothing else, unless siblings stand on each other; and for what it
   declares they refuse no checkout that declares just that.              *)
PinsAreWhatImportsReach ==
  LET installed == NamedNow(pinnedToo) IN
  /\ gates = "hold" => needed \subseteq installed
  /\ gates = "hold" /\ AllAreThere => ReachedFrom(needed) \subseteq installed
  /\ gates = "hold" /\ AllAreThere /\ InOneOrder =>
       installed = ReachedFrom(needed)
  /\ gates = "undeclared" =>
       \/ ~ needed \subseteq declared
       \/ AllAreThere /\ declared # ReachedFrom(needed)
=============================================================================
