---------------------------- MODULE Osr2Senders ----------------------------
(***************************************************************************)
(* The senders' side of the OSR2's slot (osr2_slot.py, Osr2Sender) over    *)
(* Osr2Slot. A sender's calls exclude each other (its lock), but between   *)
(* its look at what the broker said and its write the broker goes on.      *)
(***************************************************************************)
EXTENDS Osr2Slot

CONSTANTS Room,      \* lines a connection takes before a send would block
          MaxWants   \* bound: how often each sender comes to want the OSR2

ASSUME RoomAssumption == Room \in Nat \ {0} /\ MaxWants \in Nat

VARIABLES
  wish,   \* "none", "wanted", "taken" (wanted, but it was told) or "closed"
  lane,   \* what each sender has of a connection: "none"; "later" (none, and
          \* _dial_again_at to come); "dialed"; "greeted"; "writing" (greeted,
          \* has looked, found nothing and is about to write)
  dials,  \* how many connections each sender has dialed
  wants

senderVars == <<wish, lane, dials, wants>>
vars == <<slotVars, senderVars>>

brokersOwn == <<slot, holder, previous, shut, late, failures, kicks>>

Current(s) == <<s, dials[s]>>

(***************************************************************************)
(* The helpers.                                                            *)
(***************************************************************************)

(* A fault: a connection that failed is not let go of. *)
StillConnected(s, next) == lane[s]

Without(s, next) == next

(* Closing with the word unread resets the connection: lines may be lost. *)
HangUp(s, next) ==
  LET c == Current(s) IN
  /\ lane' = [lane EXCEPT ![s] = Without(s, next)]
  /\ hungUp' = hungUp \cup {c}
  /\ word' = [word EXCEPT ![c] = "hung up"]
  /\ \E kept \in IF word[c] = "taken" THEN {0, unread[c]} ELSE {unread[c]} :
       unread' = [unread EXCEPT ![c] = kept]

HangUpIfConnected(s) ==
  IF lane[s] \in {"dialed", "greeted"} THEN HangUp(s, "none")
                                       ELSE UNCHANGED <<lane, hungUp, word, unread>>

(* From here on it is not the broker's taking it that keeps the sender away. *)
Excuse(s) ==
  fate' = IF dials[s] = 0 THEN fate ELSE [fate EXCEPT ![Current(s)] = "excused"]

(***************************************************************************)
(* send: one step towards a connection, or a line down it.                 *)
(***************************************************************************)

(* A connection to a port nobody listens at fails a moment later. *)
Dial(s) ==
  LET c == <<s, dials[s] + 1>> IN
  /\ wish[s] = "wanted" /\ lane[s] = "none" /\ dials[s] < Dials[s]
  /\ dials' = [dials EXCEPT ![s] = @ + 1]
  /\ lane' = [lane EXCEPT ![s] = "dialed"]
  /\ serve' = [serve EXCEPT ![c] = IF slot = "closed" THEN "gone" ELSE "backlog"]
  /\ word' = [word EXCEPT ![c] = IF slot = "closed" THEN "refused" ELSE "nothing"]
  /\ UNCHANGED <<brokersOwn, unread, hungUp, fate, wish, wants>>

Greet(s) ==
  /\ wish[s] = "wanted" /\ lane[s] = "dialed" /\ word[Current(s)] # "refused"
  /\ lane' = [lane EXCEPT ![s] = "greeted"]
  /\ unread' = [unread EXCEPT ![Current(s)] = IF serve[Current(s)] = "gone" THEN @ ELSE @ + 1]
  /\ UNCHANGED <<brokersOwn, serve, word, hungUp, fate, wish, dials, wants>>

(* The connection failed, or ended without the word. *)
FindsTheEnd(s) ==
  /\ wish[s] = "wanted"
  /\ \/ lane[s] = "dialed" /\ word[Current(s)] \in {"refused", "hung up"}
     \/ lane[s] = "greeted" /\ word[Current(s)] = "hung up"
  /\ HangUp(s, "later")
  /\ UNCHANGED <<brokersOwn, serve, fate, wish, dials, wants>>

(* _the_broker_hung_up *)
LookFindsNothing(s) ==
  /\ wish[s] = "wanted" /\ lane[s] = "greeted" /\ word[Current(s)] = "nothing"
  /\ lane' = [lane EXCEPT ![s] = "writing"]
  /\ UNCHANGED <<slotVars, wish, dials, wants>>

LookFindsTaken(s) ==
  /\ wish[s] = "wanted" /\ lane[s] = "greeted" /\ word[Current(s)] = "taken"
  /\ wish' = [wish EXCEPT ![s] = "taken"]
  /\ lane' = [lane EXCEPT ![s] = "none"]
  /\ hungUp' = hungUp \cup {Current(s)}
  /\ word' = [word EXCEPT ![Current(s)] = "hung up"]
  /\ UNCHANGED <<brokersOwn, serve, unread, fate, dials, wants>>

Alive(c) == serve[c] # "gone" /\ c \notin shut

Write(s) ==
  LET c == Current(s) IN
  /\ lane[s] = "writing" /\ Alive(c) /\ unread[c] < Room
  /\ lane' = [lane EXCEPT ![s] = "greeted"]
  /\ unread' = [unread EXCEPT ![c] = @ + 1]
  /\ UNCHANGED <<brokersOwn, serve, word, hungUp, fate, wish, dials, wants>>

(* A line to a thread that is gone resets the connection. *)
WriteIsLost(s) ==
  /\ lane[s] = "writing" /\ ~Alive(Current(s))
  /\ lane' = [lane EXCEPT ![s] = "greeted"]
  /\ word' = [word EXCEPT ![Current(s)] = "hung up"]
  /\ UNCHANGED <<brokersOwn, serve, unread, hungUp, fate, wish, dials, wants>>

(* The connection was reset, or its buffer is full. *)
WriteFails(s) ==
  /\ lane[s] = "writing"
  /\ \/ ~Alive(Current(s)) /\ UNCHANGED failures
     \/ /\ unread[Current(s)] >= Room
        /\ failures < MaxFailures /\ failures' = failures + 1
  /\ HangUp(s, "later")
  /\ Excuse(s)
  /\ UNCHANGED <<slot, holder, previous, shut, late, kicks, serve, wish, dials, wants>>

DialAgainDue(s) ==
  /\ lane[s] = "later"
  /\ lane' = [lane EXCEPT ![s] = "none"]
  /\ UNCHANGED <<slotVars, wish, dials, wants>>

(***************************************************************************)
(* want and close.                                                         *)
(***************************************************************************)

Want(s) ==
  /\ wish[s] = "none" /\ wants[s] < MaxWants
  /\ wants' = [wants EXCEPT ![s] = @ + 1]
  /\ wish' = [wish EXCEPT ![s] = "wanted"]
  /\ UNCHANGED <<slotVars, lane, dials>>

WantNoMore(s) ==
  /\ s \in MayEnd /\ wish[s] \in {"wanted", "taken"} /\ lane[s] # "writing"
  /\ wish' = [wish EXCEPT ![s] = "none"]
  /\ HangUpIfConnected(s)
  /\ Excuse(s)
  /\ UNCHANGED <<brokersOwn, serve, dials, wants>>

CloseSender(s) ==
  /\ s \in MayEnd /\ wish[s] # "closed" /\ lane[s] # "writing"
  /\ wish' = [wish EXCEPT ![s] = "closed"]
  /\ HangUpIfConnected(s)
  /\ UNCHANGED <<brokersOwn, serve, fate, dials, wants>>

(***************************************************************************)
(* The whole.                                                              *)
(***************************************************************************)

Send(s) ==
  \/ Dial(s) \/ Greet(s) \/ FindsTheEnd(s)
  \/ LookFindsNothing(s) \/ LookFindsTaken(s)
  \/ Write(s) \/ WriteIsLost(s) \/ WriteFails(s)

Init ==
  /\ SlotInit
  /\ wish = [s \in Senders |-> "none"]
  /\ lane = [s \in Senders |-> "none"]
  /\ dials = [s \in Senders |-> 0]
  /\ wants = [s \in Senders |-> 0]

Serving(c) == Serve(c) /\ UNCHANGED senderVars

Next ==
  \/ \E c \in Connections : Serving(c)
  \/ Broker /\ UNCHANGED senderVars
  \/ \E s \in Senders :
       Send(s) \/ DialAgainDue(s) \/ Want(s) \/ WantNoMore(s) \/ CloseSender(s)

Spec == Init /\ [][Next]_vars

(* Threads run on, a broker that began to take the slot away says so, and a *)
(* sender's loop goes on sending. Nobody has to want, kick or close.        *)
FairSpec ==
  /\ Spec
  /\ \A c \in Connections : WF_vars(Serving(c))
  /\ WF_vars((TellKicked \/ FinishClose) /\ UNCHANGED senderVars)
  /\ \A s \in Senders : WF_vars(Send(s)) /\ WF_vars(DialAgainDue(s))

(***************************************************************************)
(* What it promises.                                                       *)
(***************************************************************************)

Places == {"none", "backlog", "hello", "tell", "relay", "hand on", "hear out",
           "leave", "gone"}
MayBeNoOne == Connections \cup {NoOne}

(* The types of all that the slot and the senders keep (osr2_slot.py:49-57, *)
(* 204-215).                                                                *)
TypeOK ==
  /\ slot \in {"open", "closing", "refusing", "closed"}
  /\ holder \in MayBeNoOne /\ previous \in [Callers -> MayBeNoOne]
  /\ serve \in [Connections -> Places]
  /\ unread \in [Connections -> 0..Room]
  /\ word \in [Connections -> {"nothing", "taken", "hung up", "refused"}]
  /\ hungUp \subseteq Connections /\ shut \subseteq Connections
  /\ fate \in [Connections -> {"open", "taken", "kicked", "excused"}]
  /\ late \in [Connections -> Nat]
  /\ failures \in 0..MaxFailures /\ kicks \in 0..MaxKicks
  /\ wish \in [Senders -> {"none", "wanted", "taken", "closed"}]
  /\ lane \in [Senders -> {"none", "later", "dialed", "greeted", "writing"}]
  /\ dials \in [Senders -> Nat]
  /\ wants \in [Senders -> 0..MaxWants]

(* The slot is never a connection's whose thread has ended or no longer     *)
(* reads it, whatever its writer raised: it would be held by nobody         *)
(* (osr2_slot.py:113-117).                                                  *)
HolderIsServed ==
  holder # NoOne => serve[holder] \in {"tell", "relay", "hand on", "leave"}

(* A connection that took the slot keeps it until a newer one, a hold or    *)
(* the end of the broker takes it: an older thread that leaves late does    *)
(* not empty it (osr2_slot.py:187-191).                                     *)
NobodyLosesItForNothing ==
  \A c \in Connections :
    serve[c] \in {"tell", "relay", "hand on"} /\ fate[c] = "open" /\ slot = "open" =>
      holder = c

(* At most the one line that had been looked at is handed on for a          *)
(* connection after it lost the slot, however many it had sent              *)
(* (osr2_slot.py:158-162, 178-185).                                         *)
OneLineLate == \A c \in Connections : late[c] <= 1

(* A sender it was taken from does not dial again until it wants the OSR2   *)
(* afresh, so that two do not take it from each other for ever: it gets to  *)
(* read the word, whatever it was sending (osr2_slot.py:160-162, 172-176,   *)
(* 252-262). Excused is one whose writer raised or whose buffer was full.   *)
OlderStaysAway ==
  [][\A s \in Senders :
       dials[s] > 0 /\ fate[Current(s)] \in {"taken", "kicked"} =>
         dials'[s] = dials[s]]_vars

(* The thread of a connection that lost the slot comes to its end: none is  *)
(* left waiting for a sender that waits for nothing (osr2_slot.py:163-176). *)
NoRelayIsLeftBehind ==
  \A c \in Connections :
    (serve[c] \in {"relay", "hear out"} /\ holder # c) ~> (serve[c] = "gone")

(* While the broker listens, a sender that wants the OSR2 gets it or hears  *)
(* that another took it, whatever failed before; enough dials are left for  *)
(* every failure still to come (osr2_slot.py:225-285).                      *)
AWishIsAnswered ==
  \A s \in Senders :
    (wish[s] = "wanted" /\ lane[s] = "none" /\ dials[s] + (MaxFailures - failures) < Dials[s]) ~>
      \/ holder # NoOne /\ holder[1] = s
      \/ wish[s] # "wanted"
      \/ slot # "open"

=============================================================================
