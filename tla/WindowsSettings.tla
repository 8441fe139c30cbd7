--------------------------- MODULE WindowsSettings ---------------------------
(***************************************************************************)
(* The shortcuts and scheduled tasks of the family (windows_settings.py,   *)
(* scheduled_tasks.py): each checkout lists what it relies on in its       *)
(* pyproject, a run looks at what differs on the machine, and makes the    *)
(* changes one after the other.  Lists and machine change meanwhile.       *)
(*                                                                         *)
(* A place is where one shortcut or task may be.  What is there says who   *)
(* keeps it and which checkout it starts; everything else that what_differs *)
(* compares follows from these two.                                        *)
(***************************************************************************)
EXTENDS Integers, FiniteSets

CONSTANTS
  Checkouts,   \* the checkouts of the workspace
  Pin, Menu,   \* a place on the taskbar, one in the start menu
  Task,        \* a scheduled task
  Nobodys,     \* nothing, or what no list keeps
  MaxChanges   \* bound: what people and Windows change

ASSUME SettingsAssumption ==
  /\ Nobodys \notin Checkouts /\ Cardinality({Pin, Menu, Task}) = 3
  /\ MaxChanges \in Nat

VARIABLES
  lists,     \* by checkout: the places it lists
  here,      \* the checkouts that are there
  machine,   \* by place: [by, starts], or Nobodys
  todo,      \* the changes a run found and has yet to make: [at, put]
  running,   \* a run with --write is underway
  undisturbed, \* history: nothing changed or failed since it began
  theirs,    \* history: places of someone's own when the last run began
  changed

settingsVars == <<lists, here, machine, todo, running, undisturbed, theirs, changed>>

(* A shortcut kept in a checkout is at a place of its own. *)
Home(c) == c
Places == {Pin, Menu, Task} \cup {Home(c) : c \in Checkouts}
MayList(c) == {Pin, Menu, Task, Home(c)}

SettingsInit ==
  /\ lists = [c \in Checkouts |-> {}]
  /\ here = Checkouts
  /\ machine = [p \in Places |-> Nobodys]
  /\ todo = {} /\ running = FALSE
  /\ undisturbed = FALSE /\ theirs = {}
  /\ changed = 0

(***************************************************************************)
(* What differs.                                                           *)
(***************************************************************************)

Listing(p) == {c \in here : p \in lists[c]}

(* Two lists that name one place are refused, and nothing is changed. *)
Refused == \E p \in Places : Cardinality(Listing(p)) > 1

ShortcutFor(c) == [by |-> c, starts |-> c]
TaskFor(c) == [by |-> c, starts |-> c]
Wanted(p) ==
  LET c == CHOOSE c \in Listing(p) : TRUE
  IN IF p = Task THEN TaskFor(c) ELSE ShortcutFor(c)

(* Added when missing; elsewhere only he decides that there is one. *)
AddedWhenMissing == {Task} \cup {Home(c) : c \in Checkouts}

(* Read back from the .lnk. *)
ShortcutAt(p) == machine[p]

(* schtasks that does not answer lists no task. *)
TaskThere(answers) == IF answers THEN machine[Task] ELSE Nobodys

Found(p, answers) == IF p = Task THEN TaskThere(answers) ELSE ShortcutAt(p)

(* A fault: who keeps it is not compared. *)
StartsAnother(p, found) ==
  IF found = Nobodys THEN p \in AddedWhenMissing
                     ELSE found.starts # Wanted(p).starts

Differs(p, found) ==
  IF found = Nobodys THEN p \in AddedWhenMissing ELSE found # Wanted(p)

(* Kept by a checkout that is there to ask, which lists it no longer. *)
NoLongerListed(found) == found # Nobodys /\ found.by \in here

(* What to write ... *)
ToWrite(answers) ==
  {[at |-> p, put |-> Wanted(p)] :
     p \in {q \in Places : Listing(q) # {} /\ Differs(q, Found(q, answers))}}

(* ... and to remove.  Windows lets no program unpin, and what starts
   nothing any more is named for a person as well.                        *)
ToRemove(answers) ==
  {[at |-> p, put |-> Nobodys] :
     p \in {q \in Places \ {Pin} :
             Listing(q) = {} /\ NoLongerListed(Found(q, answers))}}

Looks ==
  /\ ~running /\ ~Refused
  /\ \E answers \in BOOLEAN :
       /\ todo' = ToWrite(answers) \cup ToRemove(answers)
       /\ undisturbed' = answers
  /\ running' = TRUE
  /\ theirs' = {p \in Places : /\ Listing(p) = {} /\ machine[p] # Nobodys
                               /\ machine[p].by = Nobodys}
  /\ UNCHANGED <<lists, here, machine, changed>>

(***************************************************************************)
(* Making the changes.                                                     *)
(***************************************************************************)

(* write_shortcut, over what is there, or unlink. *)
MakesShortcut(change) ==
  /\ change.at # Task
  /\ change.at \in Checkouts => change.at \in here
  /\ machine' = [machine EXCEPT ![change.at] = change.put]

(* schtasks /create /f, or /delete. *)
MakesTask(change) ==
  change.at = Task /\ machine' = [machine EXCEPT ![Task] = change.put]

Makes(change) ==
  /\ running /\ change \in todo
  /\ MakesShortcut(change) \/ MakesTask(change)
  /\ todo' = todo \ {change}
  /\ UNCHANGED <<lists, here, running, undisturbed, theirs, changed>>

(* OSError: said, and on to the next. *)
IsRefused(change) ==
  /\ running /\ change \in todo
  /\ todo' = todo \ {change} /\ undisturbed' = FALSE
  /\ UNCHANGED <<lists, here, machine, running, theirs, changed>>

RunEnds ==
  /\ running /\ todo = {}
  /\ running' = FALSE
  /\ UNCHANGED <<lists, here, machine, todo, undisturbed, theirs, changed>>

(***************************************************************************)
(* Around it.                                                              *)
(***************************************************************************)

Changes == changed < MaxChanges /\ changed' = changed + 1 /\ undisturbed' = FALSE

ListChanges(c, p) ==
  /\ c \in here /\ p \in MayList(c) /\ Changes
  /\ lists' = [lists EXCEPT ![c] = (@ \cup {p}) \ (@ \cap {p})]
  /\ UNCHANGED <<here, machine, todo, running, theirs>>

(* He pins, drags, edits or removes one, or makes his own. *)
HeChanges(p) ==
  /\ p \in Checkouts => p \in here
  /\ Changes
  /\ \E thing \in [by : Checkouts \cup {Nobodys}, starts : Checkouts] \cup {Nobodys} :
       /\ thing # machine[p]
       /\ machine' = [machine EXCEPT ![p] = thing]
  /\ UNCHANGED <<lists, here, todo, running, theirs>>

CheckoutGoes(c) ==
  /\ c \in here /\ Changes
  /\ here' = here \ {c}
  /\ machine' = [machine EXCEPT ![Home(c)] = Nobodys]
  /\ UNCHANGED <<lists, todo, running, theirs>>

SettingsNext ==
  \/ Looks \/ RunEnds
  \/ \E change \in todo : Makes(change) \/ IsRefused(change)
  \/ \E c \in Checkouts : CheckoutGoes(c) \/ \E p \in Places : ListChanges(c, p)
  \/ \E p \in Places : HeChanges(p)

SettingsSpec == SettingsInit /\ [][SettingsNext]_settingsVars

(***************************************************************************)
(* Properties.                                                             *)
(***************************************************************************)

(* A run through which nothing fails or changes leaves each place as its
   list has it, and nothing a list gave up but a pin, whatever moved from
   list to list or was changed by hand before; and at no step of it does
   it touch what someone made for himself (windows_settings.py:200).      *)
ARunSettles ==
  undisturbed =>
    /\ \A p \in theirs : machine[p] # Nobodys /\ machine[p].by = Nobodys
    /\ ~running =>
         \A p \in Places :
           IF Listing(p) # {}
             THEN machine[p] = Wanted(p) \/ (machine[p] = Nobodys /\ p \in {Pin, Menu})
             ELSE machine[p] = Nobodys \/ p = Pin \/ machine[p].by \notin here
=============================================================================
