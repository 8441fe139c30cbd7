------------------------------ MODULE JsonStore ------------------------------
(***************************************************************************)
(* json_store.locked_update: several applications edit one JSON document,  *)
(* each holding <document>.lock beside it for the read, the change and the *)
(* write.  The lock is a file made with O_CREAT | O_EXCL; its maker keeps  *)
(* it open while it works, and Windows refuses to unlink a file that is    *)
(* open.  A lock older than Stale is taken to be abandoned and unlinked by *)
(* whoever meets it.                                                       *)
(*                                                                         *)
(* Time is the age of the lock file, which stops counting just past Stale, *)
(* and how long a writer has been waiting, which stops at its Wait.  The   *)
(* document is how many edits of each writer it holds.                     *)
(***************************************************************************)
EXTENDS Integers

CONSTANTS
  Writers,     \* the applications that edit the document
  NoOne,       \* not a writer: no file at the lock's name
  Deleting,    \* not a writer: an unlinked file still has the lock's name
  Wait,        \* WAIT_S, in ticks
  Stale,       \* STALE_S, in ticks
  MaxCalls,    \* bound: how often a writer calls locked_update
  MaxCrashes   \* bound: how many writers die in the middle of a call

ASSUME NoOneAssumption ==
  NoOne \notin Writers /\ Deleting \notin Writers /\ NoOne # Deleting
ASSUME TimesAssumption == Wait \in Nat \ {0} /\ Stale \in Nat /\ Stale > Wait
ASSUME BoundsAssumption == MaxCalls \in Nat /\ MaxCrashes \in Nat

VARIABLES
  document,    \* what is on disk at path: edits held, by writer
  lock,        \* the maker of the file at <path>.lock, NoOne or Deleting
  open,        \* the writers whose handle on a lock of their own is open
  age,         \* time.time() - st_mtime of the lock
  pc,          \* where each writer is in locked_update
  waited,      \* ticks since the writer's deadline was set
  read,        \* the document as each writer read it
  calls,       \* calls each writer has begun
  crashes,
  made         \* history: the edits each writer has replaced the document with

disk == <<document, lock, open, age>>
vars == <<document, lock, open, age, pc, waited, read, calls,
          crashes, made>>

Atomic == INSTANCE AtomicDocument WITH Writers <- Writers, document <- document

(* "claim" opens the lock, "look" asks whether the one it met is abandoned,
   "take over" unlinks it, "read" to "write" hold it, "close" and "unlink"
   are the two steps of the finally clause.                               *)
Steps == {"out", "claim", "look", "take over", "read", "write", "close",
          "unlink"}
Holding == {"read", "write", "close"}

TypeOK ==
  /\ document \in [Writers -> Nat]
  /\ lock \in Writers \cup {NoOne, Deleting}
  /\ open \subseteq Writers
  /\ age \in 0..Stale + 1
  /\ pc \in [Writers -> Steps]
  /\ waited \in [Writers -> 0..Wait]
  /\ read \in [Writers -> [Writers -> Nat]]
  /\ calls \in [Writers -> Nat]
  /\ crashes \in Nat
  /\ made \in [Writers -> Nat]

Init ==
  /\ document = Atomic!NoEdits
  /\ lock = NoOne
  /\ open = {}
  /\ age = 0
  /\ pc = [w \in Writers |-> "out"]
  /\ waited = [w \in Writers |-> 0]
  /\ read = [w \in Writers |-> Atomic!NoEdits]
  /\ calls = [w \in Writers |-> 0]
  /\ crashes = 0
  /\ made = Atomic!NoEdits

(***************************************************************************)
(* The lock file.                                                          *)
(***************************************************************************)

Goto(w, step) == pc' = [pc EXCEPT ![w] = step]

(* A fault: unlinking as POSIX does, open or not. *)
UnlinkableThoughOpen == lock # Deleting

(* lock.unlink(missing_ok=True) goes through: nothing is there, or nobody
   has it open.  Otherwise Windows raises a PermissionError.              *)
Unlinkable == lock \notin open \cup {Deleting}

(* The name of an unlinked file is free at once, or only when the last
   handle another program looks through is closed.                        *)
Unlink == lock' \in IF lock = NoOne THEN {NoOne} ELSE {NoOne, Deleting}

Abandoned == lock \in Writers /\ age > Stale

OutOfTime(w) == waited[w] >= Wait

(***************************************************************************)
(* One writer's call.                                                      *)
(***************************************************************************)

Begin(w) ==
  /\ pc[w] = "out"
  /\ calls[w] < MaxCalls
  /\ calls' = [calls EXCEPT ![w] = @ + 1]
  /\ waited' = [waited EXCEPT ![w] = 0]
  /\ Goto(w, "claim")
  /\ UNCHANGED <<disk, read, crashes, made>>

(* A fault: os.open without O_EXCL. *)
ClaimWithoutExcl(w) ==
  /\ pc[w] = "claim"
  /\ lock # Deleting
  /\ lock' = w
  /\ open' = open \cup {w}
  /\ age' = 0
  /\ Goto(w, "read")
  /\ UNCHANGED <<document, waited, read, calls, crashes, made>>

(* os.open(lock, O_CREAT | O_EXCL) makes the file ... *)
ClaimMade(w) ==
  /\ pc[w] = "claim"
  /\ lock = NoOne
  /\ lock' = w
  /\ open' = open \cup {w}
  /\ age' = 0
  /\ Goto(w, "read")
  /\ UNCHANGED <<document, waited, read, calls, crashes, made>>

(* ... or meets one: FileExistsError ... *)
ClaimMet(w) ==
  /\ pc[w] = "claim"
  /\ lock \in Writers
  /\ Goto(w, "look")
  /\ UNCHANGED <<disk, waited, read, calls, crashes, made>>

(* ... or meets a name still being deleted: PermissionError, waited out
   until the deadline and then raised.                                    *)
ClaimDenied(w) ==
  /\ pc[w] = "claim"
  /\ lock = Deleting
  /\ OutOfTime(w)
  /\ Goto(w, "out")
  /\ UNCHANGED <<disk, waited, read, calls, crashes, made>>

LookAbandoned(w) ==
  /\ pc[w] = "look"
  /\ Abandoned
  /\ Goto(w, "take over")
  /\ UNCHANGED <<disk, waited, read, calls, crashes, made>>

LookHeld(w) ==
  /\ pc[w] = "look"
  /\ ~Abandoned
  /\ Goto(w, IF OutOfTime(w) THEN "out" ELSE "claim")
  /\ UNCHANGED <<disk, waited, read, calls, crashes, made>>

(* A fault: a PermissionError of the unlink is met by trying again. *)
TakeOverAgain(w) ==
  /\ pc[w] = "take over"
  /\ IF Unlinkable THEN Unlink ELSE UNCHANGED lock
  /\ Goto(w, "claim")
  /\ UNCHANGED <<document, open, age, waited, read, calls, crashes, made>>

(* The look may be old by now: the lock there can be another writer's, and
   the PermissionError of unlinking one that is open leaves _claim.       *)
TakeOver(w) ==
  /\ pc[w] = "take over"
  /\ IF Unlinkable
       THEN Unlink /\ Goto(w, "claim")
       ELSE Goto(w, "out") /\ UNCHANGED lock
  /\ UNCHANGED <<document, open, age, waited, read, calls, crashes, made>>

(* A fault: a writer keeps the document it read the first time. *)
ReadOnce(w) ==
  /\ pc[w] = "read"
  /\ read' = IF calls[w] > 1 THEN read ELSE [read EXCEPT ![w] = document]
  /\ \E next \in {"write", "close"} : Goto(w, next)
  /\ UNCHANGED <<disk, waited, calls, crashes, made>>

(* mutate(read_json(path)): a document to write, or nothing to write, or
   an error, which both go straight to the finally clause.                *)
Read(w) ==
  /\ pc[w] = "read"
  /\ read' = [read EXCEPT ![w] = document]
  /\ \E next \in {"write", "close"} : Goto(w, next)
  /\ UNCHANGED <<disk, waited, calls, crashes, made>>

(* write_whole replaces the document in one rename ... *)
Write(w) ==
  /\ pc[w] = "write"
  /\ document' = Atomic!With(read[w], w)
  /\ made' = Atomic!With(made, w)
  /\ Goto(w, "close")
  /\ UNCHANGED <<lock, open, age, waited, read, calls, crashes>>

(* ... or raises OSError with the document as it was. *)
WriteFails(w) ==
  /\ pc[w] = "write"
  /\ Goto(w, "close")
  /\ UNCHANGED <<disk, waited, read, calls, crashes, made>>

Close(w) ==
  /\ pc[w] = "close"
  /\ open' = open \ {w}
  /\ Goto(w, "unlink")
  /\ UNCHANGED <<document, lock, age, waited, read, calls, crashes,
                 made>>

(* Between close and unlink another writer may have taken the lock over:
   unlinking the one it holds open raises, and the call ends either way.  *)
Release(w) ==
  /\ pc[w] = "unlink"
  /\ IF Unlinkable THEN Unlink ELSE UNCHANGED lock
  /\ Goto(w, "out")
  /\ UNCHANGED <<document, open, age, waited, read, calls, crashes, made>>

(* The writer's process dies: Windows closes its handle and the lock file
   stays.                                                                 *)
Crash(w) ==
  /\ pc[w] # "out"
  /\ crashes < MaxCrashes
  /\ crashes' = crashes + 1
  /\ open' = open \ {w}
  /\ Goto(w, "out")
  /\ UNCHANGED <<document, lock, age, waited, read, calls, made>>

(***************************************************************************)
(* Time, and the file system.                                              *)
(***************************************************************************)

(* pc "out" keeps no clock. *)
Tick ==
  /\ age' = IF age > Stale THEN age ELSE age + 1
  /\ waited' = [w \in Writers |->
                  IF pc[w] = "out" \/ OutOfTime(w) THEN waited[w]
                                                   ELSE waited[w] + 1]
  /\ UNCHANGED <<document, lock, open, pc, read, calls, crashes, made>>

DeleteSettles ==
  /\ lock = Deleting
  /\ lock' = NoOne
  /\ UNCHANGED <<document, open, age, pc, waited, read, calls, crashes, made>>

(* What a writer does while it waits for the lock ... *)
AwaitLock(w) ==
  \/ ClaimMade(w) \/ ClaimMet(w) \/ ClaimDenied(w)
  \/ LookAbandoned(w) \/ LookHeld(w) \/ TakeOver(w)

(* ... and once it has the lock: the caller's change, and letting go. *)
Change(w) == Read(w) \/ Write(w) \/ WriteFails(w)
LetGo(w) == Close(w) \/ Release(w)

Next ==
  \/ \E w \in Writers :
       Begin(w) \/ AwaitLock(w) \/ Change(w) \/ LetGo(w) \/ Crash(w)
  \/ Tick
  \/ DeleteSettles

Spec == Init /\ [][Next]_vars

(* Time passes, a delete settles, and _claim polls.  Nothing is assumed of
   the caller's change, which may hang, nor of a caller coming again.     *)
Fairness ==
  /\ WF_vars(Tick)
  /\ WF_vars(DeleteSettles)
  /\ \A w \in Writers : WF_vars(AwaitLock(w))

FairSpec == Spec /\ Fairness

(***************************************************************************)
(* Properties.                                                             *)
(***************************************************************************)

(* No writer hands back a document it read before another writer's edit:
   the document holds every edit that was ever written to it, whatever
   crashes, stale looks and take-overs come between.  (locked_update)     *)
NoEditIsLost == document = made

(* Two calls of locked_update are never both between their claim and the
   close of their handle, a taken-over lock included.                     *)
OneHolder ==
  \A v, w \in Writers : pc[v] \in Holding /\ pc[w] \in Holding => v = w

(* Whoever reads the document sees it change by one whole edit at a time:
   locked_update implements an atomic edit.                               *)
EditsAreAtomic == Atomic!Spec

(* A wait for the lock ends, with the lock or with an error said aloud,
   even when its holder hangs with the lock open or died and left it.     *)
EveryWaitEnds ==
  \A w \in Writers : pc[w] = "claim" ~> pc[w] \in Holding \cup {"out"}
=============================================================================
