------------------------------- MODULE Handoff -------------------------------
(***************************************************************************)
(* The meeting place of Origenerator and Fun Time (origenerator_handoff.   *)
(* py): an open copy offers itself by its pid and start time, a session    *)
(* that finds the offered copy running hands over what it is to take, and  *)
(* the copy takes it.  Processes end without a word, and their pids are    *)
(* handed on.                                                              *)
(***************************************************************************)
EXTENDS Integers

CONSTANTS
  CopyPids,     \* the pids copies may get
  NoOffer,      \* no file, or no process
  MaxTakeovers, \* bound: takeovers handed over
  MaxCopyBirths \* bound: processes that start

ASSUME HandoffAssumption == MaxTakeovers \in Nat /\ MaxCopyBirths \in Nat

VARIABLES
  process,   \* by pid: [born, opens] or NoOffer
  started,   \* processes started
  offer,     \* OFFER: [pid, born, starting] or NoOffer
  session,   \* the session: "idle", "offered" or "staged"
  waits,     \* TAKEOVER: its number, or 0
  given,      \* takeovers handed over
  taker,     \* by pid: the takeover it read but has not unlinked, or 0
  taken,     \* takeovers copies took
  replaced,  \* history: takeovers another was put over
  crossing   \* history: takeovers handed over in the middle of a take

handoffVars == <<process, started, offer, session, waits, given, taker, taken,
                 replaced, crossing>>

HandoffInit ==
  /\ process = [p \in CopyPids |-> NoOffer] /\ started = 0
  /\ offer = NoOffer
  /\ session = "idle" /\ waits = 0 /\ given = 0
  /\ taker = [p \in CopyPids |-> 0] /\ taken = {}
  /\ replaced = {} /\ crossing = {}

IsCopy(p) == process[p] # NoOffer /\ process[p].opens

(***************************************************************************)
(* Processes, and copies among them.                                       *)
(***************************************************************************)

ProcessBegins(p) ==
  /\ process[p] = NoOffer /\ started < MaxCopyBirths
  /\ started' = started + 1
  /\ \E copy \in BOOLEAN : process' = [process EXCEPT ![p] = [born |-> started', opens |-> copy]]
  /\ UNCHANGED <<offer, session, waits, given, taker, taken, replaced, crossing>>

(* A copy that ends in the middle of a take leaves the file. *)
ProcessDies(p) ==
  /\ process[p] # NoOffer
  /\ process' = [process EXCEPT ![p] = NoOffer]
  /\ taker' = [taker EXCEPT ![p] = 0]
  /\ UNCHANGED <<started, offer, session, waits, given, taken, replaced, crossing>>

(* While it is built, and again when it is open. *)
OffersItself(p, starting) ==
  /\ IsCopy(p)
  /\ offer' = [pid |-> p, born |-> process[p].born, starting |-> starting]
  /\ UNCHANGED <<process, started, session, waits, given, taker, taken, replaced, crossing>>

Withdraws(p) ==
  /\ IsCopy(p) /\ offer # NoOffer
  /\ offer' = NoOffer
  /\ UNCHANGED <<process, started, session, waits, given, taker, taken, replaced, crossing>>

(* Exists, read ... *)
ReadsTakeover(p) ==
  /\ IsCopy(p) /\ taker[p] = 0 /\ waits # 0
  /\ \A q \in CopyPids : taker[q] = 0
  /\ taker' = [taker EXCEPT ![p] = waits]
  /\ taken' = taken \cup {waits}
  /\ UNCHANGED <<process, started, offer, session, waits, given, replaced, crossing>>

(* ... and unlinked, whatever is there by now. *)
UnlinksTakeover(p) ==
  /\ taker[p] # 0
  /\ waits' = 0
  /\ taker' = [taker EXCEPT ![p] = 0]
  /\ UNCHANGED <<process, started, offer, session, given, taken, replaced, crossing>>

(***************************************************************************)
(* A session of Fun Time.                                                  *)
(***************************************************************************)

IsRunning(o) == process[o.pid] # NoOffer /\ process[o.pid].born = o.born

(* the_offer_in.  What a session asks of a copy still starting is its own. *)
FindsACopy ==
  /\ session = "idle" /\ given < MaxTakeovers
  /\ offer # NoOffer /\ IsRunning(offer)
  /\ session' = "offered"
  /\ UNCHANGED <<process, started, offer, waits, given, taker, taken, replaced, crossing>>

StagesTakeover ==
  /\ session = "offered"
  /\ session' = "staged"
  /\ UNCHANGED <<process, started, offer, waits, given, taker, taken, replaced, crossing>>

HandedOver(file) ==
  /\ session = "staged" /\ session' = "idle"
  /\ given' = given + 1
  /\ waits' = file
  /\ replaced' = replaced \cup ({waits} \ {0})
  /\ crossing' = IF \E p \in CopyPids : taker[p] # 0
                   THEN crossing \cup {given'} ELSE crossing
  /\ UNCHANGED <<process, started, offer, taker, taken>>

(* A fault: a copy that looks in the middle of the write refuses what is
   there, and it is gone.                                                 *)
HandsOverInPlace == HandedOver(given + 1) \/ HandedOver(0)

(* os.replace of what is staged: one file for whoever hands over. *)
HandsOver == HandedOver(given + 1)

CopyActs(p) ==
  \/ ProcessBegins(p) \/ ProcessDies(p) \/ Withdraws(p)
  \/ \E starting \in BOOLEAN : OffersItself(p, starting)
  \/ ReadsTakeover(p) \/ UnlinksTakeover(p)

HandoffNext ==
  \/ \E p \in CopyPids : CopyActs(p)
  \/ FindsACopy \/ StagesTakeover \/ HandsOver

HandoffSpec == HandoffInit /\ [][HandoffNext]_handoffVars

(***************************************************************************)
(* Property.                                                               *)
(***************************************************************************)

(* A takeover handed over is taken or still waits, over the deaths of
   copies at any point of a take and before one: unless a later one took
   its place, or it came in the middle of the take of another.            *)
TakeoversArrive ==
  1..given \subseteq taken \cup replaced \cup crossing \cup {waits}
=============================================================================
