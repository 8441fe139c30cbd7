------------------------------ MODULE Osr2Slot ------------------------------
(***************************************************************************)
(* The broker's side of the OSR2's slot (osr2_slot.py, Osr2Slot): one      *)
(* thread per connection serves it, the newest that says hello takes the   *)
(* slot, and a hold (kick) or the end of the broker (close) takes it away. *)
(*                                                                         *)
(* A connection is the n-th a sender dials. What goes up it is a count of  *)
(* lines nobody handed on yet, the hello being the first; what comes down  *)
(* it is one word at most.                                                 *)
(***************************************************************************)
EXTENDS Integers, FiniteSets

CONSTANTS Senders,      \* the programs that drive the device
          NoOne,        \* None, of a connection
          Hold, Stop,   \* the callers of kick and of close
          Dials,        \* bound: how often each sender dials
          MaxFailures,  \* bound: late hellos, writers that raise, full buffers
          MaxKicks,     \* bound: holds
          MayEnd        \* bound: what may end: a sender's wish, or the slot (Stop)

ASSUME NoOneAssumption == {NoOne, Hold, Stop} \cap (Senders \X Nat) = {} /\ Hold # Stop
ASSUME BoundsAssumption ==
  Dials \in [Senders -> Nat] /\ MaxFailures \in Nat /\ MaxKicks \in Nat

VARIABLES
  slot,      \* "open", "closing", "refusing" (the accepting thread ended), "closed"
  holder,    \* the connection that holds the slot
  previous,  \* whom each caller of _swap_holder has taken it from and not told
  serve,     \* where the thread of each connection is
  unread,    \* lines sent up a connection that its thread has not taken
  word,      \* what its sender has to read on it
  hungUp,    \* the connections their sender closed
  shut,      \* the connections the broker's hang_up closed
  fate,      \* history: how each connection lost the slot
  late,      \* history: lines handed on for a connection that had lost the slot
  failures, kicks

slotVars == <<slot, holder, previous, serve, unread, word, hungUp, shut, fate, late,
              failures, kicks>>

Connections == UNION {{s} \X (1..Dials[s]) : s \in Senders}
Callers == Connections \cup {Hold, Stop}

(***************************************************************************)
(* Accepting.                                                              *)
(***************************************************************************)

(* The loop looks at _closed before each accept. Windows fails an accept for *)
(* a connection its sender dropped before.                                   *)
Accept(c) ==
  /\ slot \in {"open", "closing"} /\ serve[c] = "backlog"
  /\ \E next \in {"hello"} \cup (IF c \in hungUp THEN {"gone"} ELSE {}) :
       serve' = [serve EXCEPT ![c] = next]
  /\ slot' = IF slot = "closing" THEN "refusing" ELSE slot
  /\ UNCHANGED <<holder, previous, unread, word, hungUp, shut, fate, late, failures, kicks>>

(***************************************************************************)
(* Taking the slot. The swap is under the lock, the telling is not.        *)
(***************************************************************************)

SwapHolder(caller, new, how) ==
  /\ holder' = new
  /\ previous' = [previous EXCEPT ![caller] = holder]
  /\ fate' = IF holder # NoOne /\ fate[holder] = "open" /\ serve[holder] # "leave"
               THEN [fate EXCEPT ![holder] = how] ELSE fate

(* The hello is read, and its sender takes the slot. *)
Take(c) ==
  /\ serve[c] = "hello" /\ unread[c] > 0
  /\ unread' = [unread EXCEPT ![c] = @ - 1]
  /\ serve' = [serve EXCEPT ![c] = "tell"]
  /\ SwapHolder(c, c, "taken")
  /\ UNCHANGED <<slot, word, hungUp, shut, late, failures, kicks>>

(* With no holder it changes nothing. *)
Kick ==
  /\ kicks < MaxKicks /\ previous[Hold] = NoOne /\ holder # NoOne
  /\ SwapHolder(Hold, NoOne, "kicked")
  /\ kicks' = kicks + 1
  /\ UNCHANGED <<slot, serve, unread, word, hungUp, shut, late, failures>>

(* A fault: the slot is taken and nobody says so. *)
TakenInSilence(p) == word' = word

(* taken_from: an OSError on a connection that is closed is left alone. *)
TakenFrom(p) ==
  word' = IF p # NoOne /\ word[p] = "nothing" THEN [word EXCEPT ![p] = "taken"] ELSE word

TellTaken(c) ==
  /\ serve[c] = "tell"
  /\ TakenFrom(previous[c])
  /\ previous' = [previous EXCEPT ![c] = NoOne]
  /\ serve' = [serve EXCEPT ![c] = "relay"]
  /\ UNCHANGED <<slot, holder, unread, hungUp, shut, fate, late, failures, kicks>>

TellKicked ==
  /\ previous[Hold] # NoOne
  /\ TakenFrom(previous[Hold])
  /\ previous' = [previous EXCEPT ![Hold] = NoOne]
  /\ UNCHANGED <<slot, holder, serve, unread, hungUp, shut, fate, late, failures, kicks>>

Close ==
  /\ Stop \in MayEnd /\ slot = "open"
  /\ slot' = "closing"
  /\ SwapHolder(Stop, NoOne, "excused")
  /\ UNCHANGED <<serve, unread, word, hungUp, shut, late, failures, kicks>>

(* hang_up, and the listener is closed with those that wait at it. *)
FinishClose ==
  LET p == {previous[Stop]} \ {NoOne}
      waiting == {c \in Connections : serve[c] = "backlog"}
  IN
  /\ slot \in {"closing", "refusing"}
  /\ slot' = "closed"
  /\ shut' = shut \cup p
  /\ word' = [c \in Connections |-> IF c \in p \cup waiting THEN "hung up" ELSE word[c]]
  /\ serve' = [c \in Connections |-> IF c \in waiting THEN "gone" ELSE serve[c]]
  /\ previous' = [previous EXCEPT ![Stop] = NoOne]
  /\ UNCHANGED <<holder, unread, hungUp, fate, late, failures, kicks>>

(***************************************************************************)
(* Relaying. A line is checked under the lock and handed on outside of it. *)
(***************************************************************************)

HasLine(c) == unread[c] > 0 /\ c \notin shut

(* A fault: what is read is handed on without a look at who holds the slot. *)
AnythingGoes(c) == TRUE

MayHandOn(c) == holder = c

(* In _hear_out lines go unheard until the sender hangs up. *)
ReadLine(c) ==
  /\ serve[c] \in {"relay", "hear out"} /\ HasLine(c)
  /\ unread' = [unread EXCEPT ![c] = @ - 1]
  /\ serve' = [serve EXCEPT ![c] =
                 IF serve[c] = "relay" /\ MayHandOn(c) THEN "hand on" ELSE "hear out"]
  /\ UNCHANGED <<slot, holder, previous, word, hungUp, shut, fate, late, failures, kicks>>

(* The writer, which drops the line when no session is up, and may raise. *)
HandOn(c) ==
  /\ serve[c] = "hand on"
  /\ late' = IF holder = c THEN late ELSE [late EXCEPT ![c] = @ + 1]
  /\ \/ /\ serve' = [serve EXCEPT ![c] = "relay"]
        /\ UNCHANGED <<fate, failures>>
     \/ /\ failures < MaxFailures
        /\ failures' = failures + 1
        /\ serve' = [serve EXCEPT ![c] = "leave"]
        /\ fate' = [fate EXCEPT ![c] = "excused"]
  /\ UNCHANGED <<slot, holder, previous, unread, word, hungUp, shut, kicks>>

(***************************************************************************)
(* Leaving.                                                                *)
(***************************************************************************)

(* A fault: a thread whose connection lost the slot does not hear it out. *)
NoHearingOut(c) ==
  \/ serve[c] \in {"leave", "hear out"}
  \/ serve[c] = "relay" /\ (c \in shut \/ (c \in hungUp /\ unread[c] = 0))

(* The writer raised, or recv finds the end or fails. *)
Leaves(c) ==
  \/ serve[c] = "leave"
  \/ serve[c] \in {"relay", "hear out"} /\ (c \in shut \/ (c \in hungUp /\ unread[c] = 0))

(* A fault: whoever leaves empties the slot. *)
NobodysAfter(c) == NoOne

(* A fault: a thread that ends leaves the slot as it is. *)
UnchangedAfter(c) == holder

HolderAfter(c) == IF holder = c THEN NoOne ELSE holder

(* Closing a connection with lines unread resets it, and a word nobody read *)
(* yet may go with it.                                                      *)
CloseConnection(c) ==
  /\ serve' = [serve EXCEPT ![c] = "gone"]
  /\ \E said \in IF word[c] # "taken" THEN {"hung up"}
                 ELSE IF unread[c] > 0 THEN {"hung up", "taken"} ELSE {"taken"} :
       word' = [word EXCEPT ![c] = said]
  /\ unread' = [unread EXCEPT ![c] = 0]

(* No name within its second, or the sender hung up before it. *)
NoHello(c) ==
  /\ serve[c] = "hello"
  /\ \/ c \in hungUp /\ unread[c] = 0 /\ UNCHANGED failures
     \/ failures < MaxFailures /\ failures' = failures + 1
  /\ CloseConnection(c)
  /\ UNCHANGED <<slot, holder, previous, hungUp, shut, fate, late, kicks>>

LetGo(c) ==
  /\ Leaves(c)
  /\ holder' = HolderAfter(c)
  /\ CloseConnection(c)
  /\ UNCHANGED <<slot, previous, hungUp, shut, fate, late, failures, kicks>>

Serve(c) ==
  \/ Accept(c) \/ NoHello(c) \/ Take(c) \/ TellTaken(c)
  \/ ReadLine(c) \/ HandOn(c) \/ LetGo(c)

Broker == Kick \/ TellKicked \/ Close \/ FinishClose

SlotInit ==
  /\ slot = "open"
  /\ holder = NoOne
  /\ previous = [caller \in Callers |-> NoOne]
  /\ serve = [c \in Connections |-> "none"]
  /\ unread = [c \in Connections |-> 0]
  /\ word = [c \in Connections |-> "nothing"]
  /\ hungUp = {} /\ shut = {}
  /\ fate = [c \in Connections |-> "open"]
  /\ late = [c \in Connections |-> 0]
  /\ failures = 0 /\ kicks = 0
=============================================================================
