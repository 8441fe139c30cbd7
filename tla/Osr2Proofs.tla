----------------------------- MODULE Osr2Proofs -----------------------------
(***************************************************************************)
(* That the OSR2's slot is held by a connection somebody serves, is lost   *)
(* for no other reason than being taken, that no more than one line is     *)
(* handed on after that, and that a sender it was taken from stays away:   *)
(* for any senders, any bounds and any buffer.                             *)
(***************************************************************************)
EXTENDS Osr2Senders, TLAPS

(* A connection that was not dialed yet is nowhere. *)
Undialed ==
  \A c \in Connections : c[2] > dials[c[1]] => serve[c] = "none" /\ unread[c] = 0

(* A sender's connection is one it dialed, with nothing sent before hello. *)
Connected ==
  \A s \in Senders :
    /\ dials[s] <= Dials[s]
    /\ lane[s] \in {"dialed", "greeted", "writing"} => dials[s] > 0
    /\ lane[s] = "dialed" => unread[Current(s)] = 0

(* The line that comes late is the last: its connection has no way back.    *)
LateOnes ==
  \A c \in Connections :
    \/ late[c] = 0
    \/ /\ late[c] = 1 /\ holder # c
       /\ serve[c] \in {"relay", "hear out", "leave", "gone"}

IInv ==
  /\ TypeOK /\ Undialed /\ Connected
  /\ HolderIsServed /\ NobodyLosesItForNothing /\ LateOnes

(***************************************************************************)
(* Connections and the few actions that touch each variable.               *)
(***************************************************************************)

LEMMA AConnection ==
  /\ \A c \in Connections :
       /\ c = <<c[1], c[2]>> /\ c[1] \in Senders /\ c[2] \in Nat /\ c[2] > 0
       /\ c # NoOne /\ c # Hold /\ c # Stop
  /\ NoOne \notin Connections /\ Hold # Stop
  /\ \A s \in Senders, n \in Nat : n > 0 /\ n <= Dials[s] => <<s, n>> \in Connections
  <1> USE NoOneAssumption, BoundsAssumption
  <1>1. \A c \in Connections : c \in Senders \X Nat /\ c[2] > 0
    BY DEF Connections
  <1>2. ASSUME NEW s \in Senders, NEW n \in Nat, n > 0, n <= Dials[s]
        PROVE  <<s, n>> \in Connections
    BY <1>2 DEF Connections
  <1> QED
    BY <1>1, <1>2

(* The steps of a sender, but for Dial: they leave the slot alone. *)
Elsewhere(s) ==
  \/ Greet(s) \/ FindsTheEnd(s) \/ LookFindsNothing(s) \/ LookFindsTaken(s)
  \/ Write(s) \/ WriteIsLost(s) \/ WriteFails(s)
  \/ DialAgainDue(s) \/ Want(s) \/ WantNoMore(s) \/ CloseSender(s)

LEMMA SendersSteps ==
  ASSUME NEW s \in Senders, Elsewhere(s)
  PROVE  /\ UNCHANGED <<slot, holder, previous, serve, shut, late, kicks, dials>>
         /\ fate' = fate \/ fate' = [fate EXCEPT ![Current(s)] = "excused"]
  BY DEF Elsewhere, Greet, FindsTheEnd, LookFindsNothing, LookFindsTaken, Write,
         WriteIsLost, WriteFails, DialAgainDue, Want, WantNoMore, CloseSender,
         Excuse, brokersOwn, slotVars

LEMMA Steps ==
  ASSUME [Next]_vars
  PROVE  \/ \E c \in Connections : Serving(c)
         \/ Broker /\ UNCHANGED senderVars
         \/ \E s \in Senders : Dial(s) \/ Elsewhere(s)
         \/ UNCHANGED vars
  BY DEF Next, Send, Elsewhere

LEMMA InitIInv == Init => IInv
  <1> SUFFICES ASSUME Init PROVE IInv
    OBVIOUS
  <1> USE AConnection, BoundsAssumption, RoomAssumption DEF Init, SlotInit
  <1>1. TypeOK
    BY DEF TypeOK, Callers, MayBeNoOne, Places
  <1>2. Undialed /\ Connected /\ LateOnes
    BY DEF Undialed, Connected, LateOnes
  <1>3. HolderIsServed /\ NobodyLosesItForNothing
    BY DEF HolderIsServed, NobodyLosesItForNothing
  <1> QED
    BY <1>1, <1>2, <1>3 DEF IInv

(***************************************************************************)
(* Types.                                                                  *)
(***************************************************************************)

(* What the leaves about numbers need, and no more. *)
LEMMA Numbers ==
  ASSUME TypeOK
  PROVE  /\ unread \in [Connections -> 0..Room] /\ late \in [Connections -> Nat]
         /\ failures \in 0..MaxFailures /\ kicks \in 0..MaxKicks
         /\ wants \in [Senders -> 0..MaxWants] /\ dials \in [Senders -> Nat]
         /\ Room \in Nat /\ Room > 0 /\ MaxWants \in Nat
         /\ MaxFailures \in Nat /\ MaxKicks \in Nat
  <1>1. /\ unread \in [Connections -> 0..Room] /\ late \in [Connections -> Nat]
        /\ failures \in 0..MaxFailures /\ kicks \in 0..MaxKicks
    BY DEF TypeOK
  <1>2. wants \in [Senders -> 0..MaxWants] /\ dials \in [Senders -> Nat]
    BY DEF TypeOK
  <1>3. Room \in Nat /\ Room > 0 /\ MaxWants \in Nat
    BY RoomAssumption
  <1>4. MaxFailures \in Nat /\ MaxKicks \in Nat
    BY BoundsAssumption
  <1> QED
    BY <1>1, <1>2, <1>3, <1>4

LEMMA Recount ==
  ASSUME TypeOK, NEW c \in Connections, NEW n \in 0..Room,
         unread' = [unread EXCEPT ![c] = n]
  PROVE  unread' \in [Connections -> 0..Room]
  BY Numbers

Words == {"nothing", "taken", "hung up", "refused"}

LEMMA CloseTypes ==
  ASSUME TypeOK, NEW c \in Connections, CloseConnection(c)
  PROVE  /\ serve' \in [Connections -> Places]
         /\ word' \in [Connections -> Words]
         /\ unread' \in [Connections -> 0..Room]
  <1>1. serve' \in [Connections -> Places]
    BY DEF CloseConnection, TypeOK, Places
  <1>2. word' \in [Connections -> Words]
    BY DEF CloseConnection, TypeOK, Words
  <1>3. unread' \in [Connections -> 0..Room]
    <2>1. unread' = [unread EXCEPT ![c] = 0]
      BY DEF CloseConnection
    <2>2. 0 \in 0..Room
      BY Numbers
    <2> QED
      BY <2>1, <2>2, Recount
  <1> QED
    BY <1>1, <1>2, <1>3

LEMMA SwapTypes ==
  ASSUME TypeOK, NEW caller \in Callers, NEW new \in MayBeNoOne,
         NEW how \in {"taken", "kicked", "excused"}, SwapHolder(caller, new, how)
  PROVE  /\ holder' \in MayBeNoOne
         /\ previous' \in [Callers -> MayBeNoOne]
         /\ fate' \in [Connections -> {"open", "taken", "kicked", "excused"}]
  <1>1. holder' \in MayBeNoOne
    BY DEF SwapHolder
  <1>2. previous' \in [Callers -> MayBeNoOne]
    BY DEF SwapHolder, TypeOK
  <1>3. fate' \in [Connections -> {"open", "taken", "kicked", "excused"}]
    BY DEF SwapHolder, TypeOK
  <1> QED
    BY <1>1, <1>2, <1>3

LEMMA TellTypes ==
  ASSUME TypeOK, NEW p \in MayBeNoOne, TakenFrom(p)
  PROVE  word' \in [Connections -> Words]
  BY DEF TakenFrom, TypeOK, MayBeNoOne, Words

LEMMA SlotTypes ==
  ASSUME TypeOK, NEW c \in Connections, Serve(c), UNCHANGED senderVars
  PROVE  TypeOK'
  <1> USE BoundsAssumption, RoomAssumption
  <1>0. UNCHANGED <<wish, lane, dials, wants>>
    BY DEF senderVars
  <1>1. CASE Accept(c)
    BY <1>0, <1>1 DEF Accept, TypeOK, Places
  <1>2. CASE NoHello(c)
    <2>1. failures' \in 0..MaxFailures
      BY <1>2, Numbers DEF NoHello
    <2> QED
      BY <1>0, <1>2, <2>1, CloseTypes DEF NoHello, TypeOK, Words
  <1>3. CASE Take(c)
    <2>1. serve' \in [Connections -> Places]
      BY <1>3 DEF Take, TypeOK, Places
    <2>2. unread' \in [Connections -> 0..Room]
      BY <1>3, Numbers DEF Take
    <2>3. SwapHolder(c, c, "taken") /\ c \in Callers /\ c \in MayBeNoOne
      BY <1>3 DEF Take, Callers, MayBeNoOne
    <2> QED
      BY <1>0, <1>3, <2>1, <2>2, <2>3, SwapTypes DEF Take, TypeOK
  <1>4. CASE TellTaken(c)
    <2>1. serve' \in [Connections -> Places]
      BY <1>4 DEF TellTaken, TypeOK, Places
    <2>2. previous' \in [Callers -> MayBeNoOne] /\ previous[c] \in MayBeNoOne
      BY <1>4 DEF TellTaken, TypeOK, MayBeNoOne, Callers
    <2> QED
      BY <1>0, <1>4, <2>1, <2>2, TellTypes DEF TellTaken, TypeOK, Words
  <1>5. CASE ReadLine(c)
    <2>1. serve' \in [Connections -> Places]
      BY <1>5 DEF ReadLine, TypeOK, Places
    <2>2. unread' \in [Connections -> 0..Room]
      <3>1. unread' = [unread EXCEPT ![c] = unread[c] - 1]
        BY <1>5 DEF ReadLine
      <3>2. unread[c] - 1 \in 0..Room
        <4>1. unread[c] > 0
          BY <1>5 DEF ReadLine, HasLine
        <4> QED
          BY <4>1, Numbers
      <3> QED
        BY <3>1, <3>2, Recount
    <2> QED
      BY <1>0, <1>5, <2>1, <2>2 DEF ReadLine, TypeOK
  <1>6. CASE HandOn(c)
    <2>1. serve' \in [Connections -> Places]
      <3>1. serve \in [Connections -> Places] /\ {"relay", "leave"} \subseteq Places
        BY DEF TypeOK, Places
      <3> QED
        BY <1>6, <3>1 DEF HandOn
    <2>2. late' \in [Connections -> Nat]
      <3>1. late' = late \/ late' = [late EXCEPT ![c] = late[c] + 1]
        BY <1>6 DEF HandOn
      <3> QED
        BY <3>1, Numbers
    <2>3. fate' \in [Connections -> {"open", "taken", "kicked", "excused"}]
      BY <1>6 DEF HandOn, TypeOK
    <2>4. failures' \in 0..MaxFailures
      <3>1. \/ UNCHANGED <<fate, failures>>
            \/ failures < MaxFailures /\ failures' = failures + 1
        BY <1>6, Zenon DEF HandOn
      <3> QED
        BY <3>1, Numbers
    <2> QED
      BY <1>0, <1>6, <2>1, <2>2, <2>3, <2>4 DEF HandOn, TypeOK
  <1>7. CASE LetGo(c)
    <2>1. holder' \in MayBeNoOne
      BY <1>7 DEF LetGo, HolderAfter, TypeOK, MayBeNoOne
    <2> QED
      BY <1>0, <1>7, <2>1, CloseTypes DEF LetGo, TypeOK, Words
  <1> QED
    BY <1>1, <1>2, <1>3, <1>4, <1>5, <1>6, <1>7 DEF Serve

LEMMA BrokerTypes ==
  ASSUME TypeOK, Broker, UNCHANGED senderVars
  PROVE  TypeOK'
  <1> USE BoundsAssumption
  <1>0. /\ UNCHANGED <<wish, lane, dials, wants>>
        /\ Hold \in Callers /\ Stop \in Callers /\ NoOne \in MayBeNoOne
    BY DEF senderVars, Callers, MayBeNoOne
  <1>1. CASE Kick
    <2>1. SwapHolder(Hold, NoOne, "kicked") /\ kicks' \in 0..MaxKicks
      BY <1>1, Numbers DEF Kick
    <2> QED
      BY <1>0, <1>1, <2>1, SwapTypes DEF Kick, TypeOK
  <1>2. CASE TellKicked
    <2>1. previous' \in [Callers -> MayBeNoOne] /\ previous[Hold] \in MayBeNoOne
      BY <1>0, <1>2 DEF TellKicked, TypeOK
    <2> QED
      BY <1>0, <1>2, <2>1, TellTypes DEF TellKicked, TypeOK, Words
  <1>3. CASE Close
    <2>1. SwapHolder(Stop, NoOne, "excused")
      BY <1>3 DEF Close
    <2> QED
      BY <1>0, <1>3, <2>1, SwapTypes DEF Close, TypeOK
  <1>4. CASE FinishClose
    <2>1. previous' \in [Callers -> MayBeNoOne] /\ previous[Stop] \in MayBeNoOne
      BY <1>0, <1>4 DEF FinishClose, TypeOK
    <2>2. shut' \subseteq Connections
      BY <1>4, <2>1 DEF FinishClose, TypeOK, MayBeNoOne
    <2>3. word' \in [Connections -> Words]
      BY <1>4 DEF FinishClose, TypeOK, Words
    <2>4. serve' \in [Connections -> Places]
      BY <1>4 DEF FinishClose, TypeOK, Places
    <2> QED
      BY <1>0, <1>4, <2>1, <2>2, <2>3, <2>4 DEF FinishClose, TypeOK, Words
  <1> QED
    BY <1>1, <1>2, <1>3, <1>4 DEF Broker

(* The connection a sender is on is one. *)
LEMMA OnAConnection ==
  ASSUME TypeOK, Connected, NEW s \in Senders,
         lane[s] \in {"dialed", "greeted", "writing"}
  PROVE  Current(s) \in Connections
  BY AConnection DEF TypeOK, Connected, Current

LEMMA HangUpTypes ==
  ASSUME TypeOK, NEW s \in Senders, Current(s) \in Connections,
         NEW next \in {"none", "later"}, HangUp(s, next)
  PROVE  /\ lane' = [lane EXCEPT ![s] = next]
         /\ hungUp' \subseteq Connections
         /\ word' \in [Connections -> Words]
         /\ unread' \in [Connections -> 0..Room]
  <1>1. lane' = [lane EXCEPT ![s] = next]
    BY DEF HangUp, Without
  <1>2. hungUp' \subseteq Connections
    BY DEF HangUp, TypeOK
  <1>3. word' \in [Connections -> Words]
    BY DEF HangUp, TypeOK, Words
  <1>4. unread' \in [Connections -> 0..Room]
    <2>1. PICK kept \in {0, unread[Current(s)]} :
            unread' = [unread EXCEPT ![Current(s)] = kept]
      BY DEF HangUp
    <2>2. kept \in 0..Room
      BY Numbers
    <2> QED
      BY <2>1, <2>2, Recount
  <1> QED
    BY <1>1, <1>2, <1>3, <1>4

Lanes == {"none", "later", "dialed", "greeted", "writing"}
Wishes == {"none", "wanted", "taken", "closed"}

LEMMA ExcuseTypes ==
  ASSUME TypeOK, NEW s \in Senders, Excuse(s)
  PROVE  fate' \in [Connections -> {"open", "taken", "kicked", "excused"}]
  BY DEF Excuse, TypeOK

LEMMA SenderTypes ==
  ASSUME TypeOK, Undialed, Connected, NEW s \in Senders, Dial(s) \/ Elsewhere(s)
  PROVE  TypeOK'
  <1> USE BoundsAssumption, RoomAssumption
  <1>1. CASE Dial(s)
    <2>1. serve' \in [Connections -> Places]
      BY <1>1 DEF Dial, TypeOK, Places
    <2>2. word' \in [Connections -> Words]
      BY <1>1 DEF Dial, TypeOK, Words
    <2>3. lane' \in [Senders -> Lanes]
      BY <1>1 DEF Dial, TypeOK, Lanes
    <2>4. dials' \in [Senders -> Nat]
      BY <1>1, Numbers DEF Dial
    <2> QED
      BY <1>1, <2>1, <2>2, <2>3, <2>4 DEF Dial, brokersOwn, TypeOK, Words, Lanes
  <1>2. CASE Greet(s)
    <2>1. Current(s) \in Connections /\ unread[Current(s)] = 0
      BY <1>2, OnAConnection DEF Greet, Connected
    <2>2. unread' \in [Connections -> 0..Room]
      BY <1>2, <2>1, Numbers DEF Greet
    <2>3. lane' \in [Senders -> Lanes]
      BY <1>2 DEF Greet, TypeOK, Lanes
    <2> QED
      BY <1>2, <2>2, <2>3 DEF Greet, brokersOwn, TypeOK, Lanes
  <1>3. CASE FindsTheEnd(s)
    <2>1. HangUp(s, "later") /\ Current(s) \in Connections
      BY <1>3, OnAConnection DEF FindsTheEnd
    <2> QED
      BY <1>3, <2>1, HangUpTypes DEF FindsTheEnd, brokersOwn, TypeOK, Words
  <1>4. CASE LookFindsNothing(s)
    BY <1>4 DEF LookFindsNothing, slotVars, TypeOK
  <1>5. CASE LookFindsTaken(s)
    <2>1. Current(s) \in Connections
      BY <1>5, OnAConnection DEF LookFindsTaken
    <2>2. word' \in [Connections -> Words] /\ hungUp' \subseteq Connections
      BY <1>5, <2>1 DEF LookFindsTaken, TypeOK, Words
    <2>3. lane' \in [Senders -> Lanes] /\ wish' \in [Senders -> Wishes]
      BY <1>5 DEF LookFindsTaken, TypeOK, Lanes, Wishes
    <2> QED
      BY <1>5, <2>2, <2>3 DEF LookFindsTaken, brokersOwn, TypeOK, Words, Lanes, Wishes
  <1>6. CASE Write(s) \/ WriteIsLost(s)
    <2>1. Current(s) \in Connections
      BY <1>6, OnAConnection DEF Write, WriteIsLost
    <2>2. unread' \in [Connections -> 0..Room]
      <3>1. CASE Write(s)
        <4>1. unread' = [unread EXCEPT ![Current(s)] = unread[Current(s)] + 1]
          BY <3>1 DEF Write
        <4>2. unread[Current(s)] + 1 \in 0..Room
          BY <2>1, <3>1, Numbers DEF Write
        <4> QED
          BY <2>1, <4>1, <4>2, Recount
      <3>2. CASE WriteIsLost(s)
        BY <3>2, Numbers DEF WriteIsLost
      <3> QED
        BY <1>6, <3>1, <3>2
    <2>3. word' \in [Connections -> Words]
      BY <1>6, <2>1 DEF Write, WriteIsLost, TypeOK, Words
    <2>4. lane' \in [Senders -> Lanes]
      BY <1>6 DEF Write, WriteIsLost, TypeOK, Lanes
    <2>5. UNCHANGED <<brokersOwn, serve, hungUp, fate, wish, dials, wants>>
      BY <1>6 DEF Write, WriteIsLost
    <2> QED
      BY <2>2, <2>3, <2>4, <2>5 DEF brokersOwn, TypeOK, Words, Lanes
  <1>7. CASE WriteFails(s)
    <2>1. HangUp(s, "later") /\ Current(s) \in Connections /\ Excuse(s)
      BY <1>7, OnAConnection DEF WriteFails
    <2>2. failures' \in 0..MaxFailures
      BY <1>7, Numbers DEF WriteFails
    <2>3. lane' \in [Senders -> Lanes]
      BY <2>1, HangUpTypes DEF TypeOK, Lanes
    <2> QED
      BY <1>7, <2>1, <2>2, <2>3, HangUpTypes, ExcuseTypes DEF WriteFails, TypeOK, Words, Lanes
  <1>8. CASE DialAgainDue(s)
    BY <1>8 DEF DialAgainDue, slotVars, TypeOK
  <1>9. CASE Want(s)
    <2>1. wish' \in [Senders -> Wishes]
      BY <1>9 DEF Want, TypeOK, Wishes
    <2>2. wants' \in [Senders -> 0..MaxWants]
      BY <1>9, Numbers DEF Want
    <2> QED
      BY <1>9, <2>1, <2>2 DEF Want, slotVars, TypeOK, Wishes
  <1>10. CASE WantNoMore(s) \/ CloseSender(s)
    <2>1. /\ lane' \in [Senders -> Lanes]
          /\ hungUp' \subseteq Connections
          /\ word' \in [Connections -> Words]
          /\ unread' \in [Connections -> 0..Room]
      <3>1. HangUpIfConnected(s)
        BY <1>10 DEF WantNoMore, CloseSender
      <3>2. CASE lane[s] \in {"dialed", "greeted"}
        <4>1. HangUp(s, "none") /\ Current(s) \in Connections
          BY <3>1, <3>2, OnAConnection DEF HangUpIfConnected
        <4> QED
          BY <4>1, HangUpTypes DEF TypeOK, Lanes
      <3>3. CASE lane[s] \notin {"dialed", "greeted"}
        BY <3>1, <3>3 DEF HangUpIfConnected, TypeOK, Lanes, Words
      <3> QED
        BY <3>2, <3>3
    <2>2. wish' \in [Senders -> Wishes]
      BY <1>10 DEF WantNoMore, CloseSender, TypeOK, Wishes
    <2>3. fate' \in [Connections -> {"open", "taken", "kicked", "excused"}]
      BY <1>10, ExcuseTypes DEF WantNoMore, CloseSender, TypeOK
    <2>4. UNCHANGED <<brokersOwn, serve, dials, wants>>
      BY <1>10 DEF WantNoMore, CloseSender
    <2> QED
      BY <2>1, <2>2, <2>3, <2>4 DEF brokersOwn, TypeOK, Words, Lanes, Wishes
  <1> QED
    BY <1>1, <1>2, <1>3, <1>4, <1>5, <1>6, <1>7, <1>8, <1>9, <1>10 DEF Elsewhere

LEMMA TypeStep ==
  ASSUME TypeOK, Undialed, Connected, [Next]_vars
  PROVE  TypeOK'
  <1>1. CASE UNCHANGED vars
    BY <1>1 DEF vars, slotVars, senderVars, TypeOK
  <1> QED
    BY <1>1, Steps, SlotTypes, BrokerTypes, SenderTypes DEF Serving

(***************************************************************************)
(* Which connections are dialed.                                           *)
(***************************************************************************)

(* The broker's threads only move connections that are somewhere. *)
LEMMA ThreadsStayOnTheirs ==
  ASSUME TypeOK, NEW c \in Connections, Serve(c)
  PROVE  /\ serve[c] # "none"
         /\ \A d \in Connections : d # c => serve'[d] = serve[d] /\ unread'[d] = unread[d]
         /\ unread[c] = 0 => unread'[c] = 0
  <1>1. CASE Accept(c)
    BY <1>1 DEF Accept, TypeOK
  <1>2. CASE NoHello(c)
    BY <1>2 DEF NoHello, CloseConnection, TypeOK
  <1>3. CASE Take(c)
    <2>1. unread[c] # 0
      <3>1. unread[c] > 0
        BY <1>3 DEF Take
      <3> QED
        BY <3>1, Numbers
    <2> QED
      BY <1>3, <2>1 DEF Take, TypeOK
  <1>4. CASE TellTaken(c)
    BY <1>4 DEF TellTaken, TypeOK
  <1>5. CASE ReadLine(c)
    <2>1. unread[c] # 0
      <3>1. unread[c] > 0
        BY <1>5 DEF ReadLine, HasLine
      <3> QED
        BY <3>1, Numbers
    <2> QED
      BY <1>5, <2>1 DEF ReadLine, TypeOK
  <1>6. CASE HandOn(c)
    <2>1. \E next \in {"relay", "leave"} : serve' = [serve EXCEPT ![c] = next]
      BY <1>6 DEF HandOn
    <2> QED
      BY <1>6, <2>1 DEF HandOn, TypeOK
  <1>7. CASE LetGo(c)
    BY <1>7 DEF LetGo, Leaves, CloseConnection, TypeOK
  <1> QED
    BY <1>1, <1>2, <1>3, <1>4, <1>5, <1>6, <1>7 DEF Serve

LEMMA BrokerStaysOff ==
  ASSUME TypeOK, Broker
  PROVE  /\ unread' = unread
         /\ \A c \in Connections :
              serve'[c] = serve[c] \/ (serve[c] = "backlog" /\ serve'[c] = "gone")
  <1>1. CASE Kick \/ TellKicked \/ Close
    BY <1>1 DEF Kick, TellKicked, Close
  <1>2. CASE FinishClose
    BY <1>2 DEF FinishClose
  <1> QED
    BY <1>1, <1>2 DEF Broker

(* Only the sender's own connection is touched by what it does. *)
LEMMA SendersStayOnTheirs ==
  ASSUME TypeOK, Connected, NEW s \in Senders, Elsewhere(s)
  PROVE  /\ \A c \in Connections : c # Current(s) => unread'[c] = unread[c]
         /\ lane'[s] = "dialed" => lane[s] = "dialed" /\ unread'[Current(s)] = unread[Current(s)]
         /\ lane'[s] \in {"greeted", "writing"} => lane[s] \in {"dialed", "greeted", "writing"}
         /\ lane[s] \notin {"dialed", "greeted", "writing"} => unread' = unread
         /\ \A t \in Senders : t # s => lane'[t] = lane[t]
  <1>1. CASE Greet(s)
    BY <1>1 DEF Greet, TypeOK
  <1>2. CASE FindsTheEnd(s)
    BY <1>2 DEF FindsTheEnd, HangUp, Without, TypeOK
  <1>3. CASE LookFindsNothing(s)
    BY <1>3 DEF LookFindsNothing, slotVars, TypeOK
  <1>4. CASE LookFindsTaken(s)
    BY <1>4 DEF LookFindsTaken, TypeOK
  <1>5. CASE Write(s)
    BY <1>5 DEF Write, TypeOK
  <1>6. CASE WriteIsLost(s)
    BY <1>6 DEF WriteIsLost, TypeOK
  <1>7. CASE WriteFails(s)
    BY <1>7 DEF WriteFails, HangUp, Without, TypeOK
  <1>8. CASE DialAgainDue(s)
    BY <1>8 DEF DialAgainDue, slotVars, TypeOK
  <1>9. CASE Want(s)
    BY <1>9 DEF Want, slotVars, TypeOK
  <1>10. CASE WantNoMore(s)
    BY <1>10 DEF WantNoMore, HangUpIfConnected, HangUp, Without, TypeOK
  <1>11. CASE CloseSender(s)
    BY <1>11 DEF CloseSender, HangUpIfConnected, HangUp, Without, TypeOK
  <1> QED
    BY <1>1, <1>2, <1>3, <1>4, <1>5, <1>6, <1>7, <1>8, <1>9, <1>10, <1>11 DEF Elsewhere

LEMMA DialedStep ==
  ASSUME TypeOK, Undialed, Connected, [Next]_vars
  PROVE  Undialed' /\ Connected'
  <1>1. ASSUME NEW c \in Connections, Serving(c) PROVE Undialed' /\ Connected'
    <2>1. UNCHANGED <<lane, dials>> /\ Serve(c)
      BY <1>1 DEF Serving, senderVars
    <2>2. \A d \in Connections : unread[d] = 0 => unread'[d] = 0
      BY <2>1, ThreadsStayOnTheirs
    <2>3. Undialed'
      BY <2>1, <2>2, ThreadsStayOnTheirs DEF Undialed
    <2>4. Connected'
      BY <2>1, <2>2, OnAConnection DEF Connected, Current
    <2> QED
      BY <2>3, <2>4
  <1>2. ASSUME Broker, UNCHANGED senderVars PROVE Undialed' /\ Connected'
    BY <1>2, BrokerStaysOff DEF senderVars, Undialed, Connected, Current
  <1>3. ASSUME NEW s \in Senders, Dial(s) PROVE Undialed' /\ Connected'
    <2> DEFINE new == <<s, dials[s] + 1>>
    <2>1. /\ dials' = [dials EXCEPT ![s] = dials[s] + 1]
          /\ lane' = [lane EXCEPT ![s] = "dialed"]
          /\ unread' = unread /\ dials[s] < Dials[s]
          /\ \A c \in Connections : c # new => serve'[c] = serve[c]
      BY <1>3 DEF Dial, TypeOK
    <2>2. new \in Connections /\ unread[new] = 0
      BY <2>1, AConnection, BoundsAssumption, Numbers DEF Undialed
    <2>3. Undialed'
      BY <2>1, <2>2, AConnection, Numbers DEF Undialed
    <2>4. Connected'
      <3>1. dials'[s] = dials[s] + 1 /\ lane'[s] = "dialed" /\ Current(s)' = new
        BY <2>1, Numbers DEF Current, TypeOK
      <3>2. dials[s] \in Nat /\ Dials[s] \in Nat
        BY BoundsAssumption, Numbers
      <3>3. dials'[s] <= Dials[s] /\ dials'[s] > 0 /\ unread'[Current(s)'] = 0
        BY <2>1, <2>2, <3>1, <3>2
      <3>4. \A t \in Senders : t # s =>
              dials'[t] = dials[t] /\ lane'[t] = lane[t] /\ Current(t)' = Current(t)
        BY <2>1, Numbers DEF Current, TypeOK
      <3> QED
        BY <2>1, <3>1, <3>3, <3>4 DEF Connected
    <2> QED
      BY <2>3, <2>4
  <1>4. ASSUME NEW s \in Senders, Elsewhere(s) PROVE Undialed' /\ Connected'
    <2>1. UNCHANGED <<serve, dials>>
      BY <1>4, SendersSteps
    <2>2. Undialed'
      <3>1. SUFFICES ASSUME NEW c \in Connections, c[2] > dials[c[1]]
                     PROVE  serve[c] = "none" /\ unread'[c] = 0
        BY <2>1 DEF Undialed
      <3>2. c # Current(s)
        BY <3>1, AConnection, Numbers DEF Current
      <3> QED
        BY <1>4, <3>1, <3>2, SendersStayOnTheirs DEF Undialed
    <2>3. Connected'
      BY <1>4, <2>1, SendersStayOnTheirs, OnAConnection, Numbers DEF Connected, Current
    <2> QED
      BY <2>2, <2>3
  <1>5. CASE UNCHANGED vars
    BY <1>5 DEF vars, slotVars, senderVars, Undialed, Connected, Current
  <1> QED
    BY <1>1, <1>2, <1>3, <1>4, <1>5, Steps

(***************************************************************************)
(* Who holds the slot.                                                     *)
(***************************************************************************)

Kept == HolderIsServed /\ NobodyLosesItForNothing /\ LateOnes

(* A connection that is dialed was nowhere before. *)
LEMMA DialedIsNew ==
  ASSUME TypeOK, Undialed, NEW s \in Senders, Dial(s)
  PROVE  /\ <<s, dials[s] + 1>> \in Connections
         /\ serve[<<s, dials[s] + 1>>] = "none"
         /\ serve'[<<s, dials[s] + 1>>] \in {"backlog", "gone"}
         /\ \A c \in Connections : c # <<s, dials[s] + 1>> => serve'[c] = serve[c]
         /\ UNCHANGED <<slot, holder, fate, late>>
  <1>1. <<s, dials[s] + 1>> \in Connections
    BY AConnection, BoundsAssumption, Numbers DEF Dial
  <1>2. serve[<<s, dials[s] + 1>>] = "none"
    BY <1>1, Numbers DEF Undialed
  <1>3. /\ serve'[<<s, dials[s] + 1>>] \in {"backlog", "gone"}
        /\ \A c \in Connections : c # <<s, dials[s] + 1>> => serve'[c] = serve[c]
        /\ UNCHANGED <<slot, holder, fate, late>>
    BY <1>1 DEF Dial, brokersOwn, TypeOK
  <1> QED
    BY <1>1, <1>2, <1>3

LEMMA KeptBySenders ==
  ASSUME IInv, NEW s \in Senders, Dial(s) \/ Elsewhere(s)
  PROVE  Kept'
  <1>0. TypeOK /\ Undialed /\ Kept
    BY DEF IInv, Kept
  <1>1. CASE Dial(s)
    <2>1. HolderIsServed'
      BY <1>0, <1>1, DialedIsNew DEF Kept, HolderIsServed, TypeOK, MayBeNoOne
    <2>2. NobodyLosesItForNothing'
      <3>1. ASSUME NEW c \in Connections,
                   serve'[c] \in {"tell", "relay", "hand on"}, fate'[c] = "open", slot' = "open"
            PROVE  holder' = c
        <4>1. c # <<s, dials[s] + 1>>
          BY <1>0, <1>1, <3>1, DialedIsNew
        <4>2. serve'[c] = serve[c] /\ UNCHANGED <<slot, holder, fate>>
          BY <1>0, <1>1, <4>1, DialedIsNew
        <4> QED
          BY <1>0, <3>1, <4>2 DEF Kept, NobodyLosesItForNothing
      <3> QED
        BY <3>1 DEF NobodyLosesItForNothing
    <2>3. LateOnes'
      BY <1>0, <1>1, DialedIsNew DEF Kept, LateOnes
    <2> QED
      BY <2>1, <2>2, <2>3 DEF Kept
  <1>2. CASE Elsewhere(s)
    <2>1. UNCHANGED <<slot, holder, serve, late>>
      BY <1>2, SendersSteps
            DEF Elsewhere, Greet, FindsTheEnd, LookFindsNothing, LookFindsTaken, Write,
                WriteIsLost, WriteFails, DialAgainDue, Want, WantNoMore, CloseSender,
                brokersOwn, slotVars
    <2>2. \A c \in Connections : fate'[c] = "open" => fate[c] = "open"
      BY <1>0, <1>2, SendersSteps DEF TypeOK
    <2> QED
      BY <1>0, <2>1, <2>2 DEF Kept, HolderIsServed, NobodyLosesItForNothing, LateOnes
  <1> QED
    BY <1>1, <1>2

(* Who swaps the holder out marks it, unless it is about to let go itself. *)
LEMMA SwapMarks ==
  ASSUME TypeOK, Kept, NEW caller, NEW new, NEW how \in {"taken", "kicked", "excused"},
         SwapHolder(caller, new, how)
  PROVE  /\ holder' = new
         /\ \A c \in Connections : fate'[c] = "open" => fate[c] = "open"
         /\ holder # NoOne /\ serve[holder] # "leave" => fate'[holder] # "open"
  BY DEF SwapHolder, TypeOK, MayBeNoOne

(* With nobody in the slot nobody has a holder's place unmarked. *)
LEMMA KeptBySwap ==
  ASSUME TypeOK, Kept, NEW caller, NEW how \in {"taken", "kicked", "excused"},
         SwapHolder(caller, NoOne, how), UNCHANGED <<serve, late>>,
         slot' = "open" => slot = "open"
  PROVE  Kept'
  <1>1. HolderIsServed'
    BY DEF SwapHolder, HolderIsServed
  <1>2. ASSUME NEW c \in Connections,
               serve[c] \in {"tell", "relay", "hand on"}, fate'[c] = "open", slot' = "open"
        PROVE  FALSE
    <2>1. holder = c
      BY <1>2, SwapMarks DEF Kept, NobodyLosesItForNothing
    <2> QED
      BY <1>2, <2>1, SwapMarks, AConnection
  <1>3. NobodyLosesItForNothing'
    BY <1>2 DEF NobodyLosesItForNothing
  <1>4. LateOnes'
    BY AConnection DEF SwapHolder, Kept, LateOnes
  <1> QED
    BY <1>1, <1>3, <1>4 DEF Kept

LEMMA KeptByBroker ==
  ASSUME IInv, Broker
  PROVE  Kept'
  <1>0. TypeOK /\ Kept
    BY DEF IInv, Kept
  <1>1. CASE Kick
    <2>1. SwapHolder(Hold, NoOne, "kicked") /\ UNCHANGED <<slot, serve, late>>
      BY <1>1 DEF Kick
    <2> QED
      BY <1>0, <2>1, KeptBySwap
  <1>2. CASE TellKicked
    BY <1>0, <1>2 DEF TellKicked, Kept, HolderIsServed, NobodyLosesItForNothing, LateOnes
  <1>3. CASE Close
    <2>1. SwapHolder(Stop, NoOne, "excused") /\ slot' = "closing" /\ UNCHANGED <<serve, late>>
      BY <1>3 DEF Close
    <2> QED
      BY <1>0, <2>1, KeptBySwap
  <1>4. CASE FinishClose
    <2>1. UNCHANGED <<holder, fate, late>> /\ slot' = "closed"
      BY <1>4 DEF FinishClose
    <2> QED
      BY <1>0, <1>4, <2>1, BrokerStaysOff
      DEF Kept, HolderIsServed, NobodyLosesItForNothing, LateOnes, TypeOK, MayBeNoOne
  <1> QED
    BY <1>1, <1>2, <1>3, <1>4 DEF Broker

LEMMA KeptByThreads ==
  ASSUME IInv, NEW c \in Connections, Serve(c)
  PROVE  Kept'
  <1> USE DEF Kept, HolderIsServed, NobodyLosesItForNothing, LateOnes
  <1>0. TypeOK /\ Kept
    BY DEF IInv
  <1>t. \A d \in Connections : d # c => serve'[d] = serve[d]
    BY <1>0, ThreadsStayOnTheirs
  <1>h. holder # NoOne => holder \in Connections
    BY <1>0 DEF TypeOK, MayBeNoOne
  <1>1. CASE Accept(c)
    <2>1. /\ serve[c] = "backlog" /\ serve'[c] \in {"hello", "gone"}
          /\ UNCHANGED <<holder, fate, late>>
          /\ slot' = "open" => slot = "open"
      BY <1>0, <1>1 DEF Accept, TypeOK
    <2> QED
      BY <1>0, <1>t, <1>h, <2>1
  <1>2. CASE NoHello(c)
    <2>1. /\ serve[c] = "hello" /\ serve'[c] = "gone"
          /\ UNCHANGED <<slot, holder, fate, late>>
      BY <1>0, <1>2 DEF NoHello, CloseConnection, TypeOK
    <2> QED
      BY <1>0, <1>t, <1>h, <2>1
  <1>3. CASE Take(c)
    <2>1. /\ serve[c] = "hello" /\ serve'[c] = "tell" /\ SwapHolder(c, c, "taken")
          /\ UNCHANGED <<slot, late>>
      BY <1>0, <1>3 DEF Take, TypeOK
    <2>2. holder' = c /\ c # NoOne /\ late[c] = 0
      BY <1>0, <2>1, AConnection DEF SwapHolder
    <2>3. HolderIsServed'
      BY <2>1, <2>2
    <2>4. NobodyLosesItForNothing'
      (* Whoever else has a holder's place was the holder, and is marked. *)
      <3>1. ASSUME NEW d \in Connections, d # c, serve[d] \in {"tell", "relay", "hand on"},
                   fate'[d] = "open", slot = "open"
            PROVE  FALSE
        <4>1. holder = d
          BY <1>0, <2>1, <3>1, SwapMarks
        <4> QED
          BY <1>0, <2>1, <3>1, <4>1, SwapMarks, AConnection
      <3> QED
        BY <1>t, <2>1, <2>2, <3>1
    <2>5. LateOnes'
      BY <1>0, <1>t, <2>1, <2>2
    <2> QED
      BY <2>3, <2>4, <2>5
  <1>4. CASE TellTaken(c)
    <2>1. /\ serve[c] = "tell" /\ serve'[c] = "relay"
          /\ UNCHANGED <<slot, holder, fate, late>>
      BY <1>0, <1>4 DEF TellTaken, TypeOK
    <2> QED
      BY <1>0, <1>t, <1>h, <2>1
  <1>5. CASE ReadLine(c)
    <2>1. /\ serve[c] \in {"relay", "hear out"}
          /\ serve'[c] = IF serve[c] = "relay" /\ holder = c THEN "hand on" ELSE "hear out"
          /\ UNCHANGED <<slot, holder, fate, late>>
      BY <1>0, <1>5 DEF ReadLine, MayHandOn, TypeOK
    <2> QED
      BY <1>0, <1>t, <1>h, <2>1
  <1>6. CASE HandOn(c)
    <2>1. /\ serve[c] = "hand on" /\ UNCHANGED <<slot, holder>>
          /\ \/ serve'[c] = "relay" /\ fate' = fate
             \/ serve'[c] = "leave" /\ fate' = [fate EXCEPT ![c] = "excused"]
      BY <1>0, <1>6 DEF HandOn, TypeOK
    <2>2. late' = IF holder = c THEN late ELSE [late EXCEPT ![c] = late[c] + 1]
      BY <1>6 DEF HandOn
    <2>3. HolderIsServed' /\ NobodyLosesItForNothing'
      BY <1>0, <1>t, <1>h, <2>1 DEF TypeOK
    <2>4. LateOnes'
      <3>1. late[c] = 0 /\ (holder # c => late'[c] = 1)
        <4>1. late[c] = 0
          BY <1>0, <2>1
        <4>2. holder # c => late'[c] = late[c] + 1
          BY <1>0, <2>2, Numbers
        <4> QED
          BY <4>1, <4>2
      <3>2. \A d \in Connections : d # c => late'[d] = late[d]
        BY <1>0, <2>2, Numbers
      <3>3. holder = c => late' = late
        BY <2>2
      <3> QED
        BY <1>0, <1>t, <2>1, <3>1, <3>2, <3>3
    <2> QED
      BY <2>3, <2>4
  <1>7. CASE LetGo(c)
    <2>1. /\ serve[c] \in {"leave", "relay", "hear out"} /\ serve'[c] = "gone"
          /\ holder' = IF holder = c THEN NoOne ELSE holder
          /\ UNCHANGED <<slot, fate, late>>
      BY <1>0, <1>7 DEF LetGo, Leaves, HolderAfter, CloseConnection, TypeOK
    <2> QED
      BY <1>0, <1>t, <1>h, <2>1, AConnection
  <1> QED
    BY <1>1, <1>2, <1>3, <1>4, <1>5, <1>6, <1>7 DEF Serve

LEMMA StepIInv == IInv /\ [Next]_vars => IInv'
  <1> SUFFICES ASSUME IInv, [Next]_vars PROVE IInv'
    OBVIOUS
  <1>1. TypeOK' /\ Undialed' /\ Connected'
    BY TypeStep, DialedStep DEF IInv
  <1>2. CASE UNCHANGED vars
    BY <1>1, <1>2 DEF vars, slotVars, IInv, HolderIsServed, NobodyLosesItForNothing, LateOnes
  <1>3. CASE ~UNCHANGED vars
    BY <1>1, <1>3, Steps, KeptBySenders, KeptByBroker, KeptByThreads DEF Serving, Kept, IInv
  <1> QED
    BY <1>2, <1>3

THEOREM Invariance == Spec => []IInv
  BY InitIInv, StepIInv, PTL DEF Spec

(* Whatever threads, senders and holds do, the types are right. *)
THEOREM TypeCorrect == Spec => []TypeOK
  <1>1. IInv => TypeOK
    BY DEF IInv
  <1> QED
    BY <1>1, Invariance, PTL

(* The slot is never held for a thread that has ended. *)
THEOREM SlotIsServed == Spec => []HolderIsServed
  <1>1. IInv => HolderIsServed
    BY DEF IInv
  <1> QED
    BY <1>1, Invariance, PTL

(* Who took the slot has it until somebody takes it. *)
THEOREM SlotIsKept == Spec => []NobodyLosesItForNothing
  <1>1. IInv => NobodyLosesItForNothing
    BY DEF IInv
  <1> QED
    BY <1>1, Invariance, PTL

(* However many lines it sent and however often the slot changed hands, a  *)
(* connection has no more than one line handed on after it lost the slot.   *)
THEOREM OneLateLine == Spec => []OneLineLate
  <1>1. IInv => OneLineLate
    <2>1. \A c \in Connections : (late[c] = 0 \/ late[c] = 1) => late[c] <= 1
      OBVIOUS
    <2>2. IInv => \A c \in Connections : late[c] = 0 \/ late[c] = 1
      BY DEF IInv, LateOnes
    <2> QED
      BY <2>1, <2>2 DEF OneLineLate
  <1> QED
    BY <1>1, Invariance, PTL

(***************************************************************************)
(* Whom the slot was taken from.  Such a connection is still heard or was  *)
(* hung up by its sender, so the word can have been lost on no other: its  *)
(* sender has it to read, has read it, or excused itself before it dials.  *)
(***************************************************************************)

Lost == {"taken", "kicked"}

(* What the broker's threads see to. *)
LostAreHeard ==
  /\ \A c \in Connections : fate[c] \in Lost =>
       serve[c] \in {"tell", "relay", "hand on", "hear out"} \/ (serve[c] = "gone" /\ c \in hungUp)
  /\ holder # NoOne => fate[holder] \notin Lost

(* A writer that raised or the end of the broker is an excuse. *)
LeavingIsExcused ==
  /\ \A c \in Connections : serve[c] = "leave" \/ c \in shut => fate[c] = "excused"
  /\ previous[Stop] # NoOne => fate[previous[Stop]] = "excused"

(* A connection that came to nothing never had the slot to lose. *)
CameToNothing(c) == fate[c] = "excused" \/ (fate[c] = "open" /\ serve[c] = "gone")

(* What a sender that dialed before has of its last connection. *)
Knows(s) ==
  /\ wish[s] # "wanted" => lane[s] \in {"none", "later"}
  /\ dials[s] > 0 =>
       /\ wish[s] = "none" => fate[Current(s)] = "excused"
       /\ wish[s] = "wanted" /\ lane[s] \in {"none", "later"} => CameToNothing(Current(s))
       /\ lane[s] \in {"dialed", "greeted", "writing"} =>
            /\ Current(s) \notin hungUp
            /\ word[Current(s)] \in {"refused", "hung up"} => CameToNothing(Current(s))

SendersKnow ==
  /\ \A c \in Connections : c[2] > dials[c[1]] => c \notin hungUp
  /\ \A s \in Senders : Knows(s)

AwayInv == LostAreHeard /\ LeavingIsExcused /\ SendersKnow

LEMMA AwayInitially == Init => AwayInv
  BY AConnection
  DEF Init, SlotInit, AwayInv, LostAreHeard, LeavingIsExcused, SendersKnow, Knows, Lost, Callers

(* The last connection of a sender that dialed is one. *)
LEMMA LastIsAConnection ==
  ASSUME TypeOK, Connected, NEW s \in Senders, dials[s] > 0
  PROVE  Current(s) \in Connections
  <1>1. dials[s] \in Nat /\ dials[s] <= Dials[s]
    BY Numbers DEF Connected
  <1> QED
    BY <1>1, AConnection DEF Current

(* What the broker does takes no sender's excuse away, nor does it end a    *)
(* connection that had the slot before its sender does.                     *)
LEMMA KnowAsBefore ==
  ASSUME TypeOK, Connected, SendersKnow,
         UNCHANGED <<wish, lane, dials, hungUp>>,
         \A d \in Connections : CameToNothing(d) => CameToNothing(d)',
         \A d \in Connections : fate[d] = "excused" => fate'[d] = "excused",
         \A d \in Connections : word'[d] \in {"refused", "hung up"} /\ d \notin hungUp =>
           word[d] \in {"refused", "hung up"} \/ CameToNothing(d)'
  PROVE  SendersKnow'
  <1>1. \A s \in Senders : Current(s)' = Current(s)
    BY DEF Current
  <1> HIDE DEF CameToNothing
  <1> QED
    BY <1>1, LastIsAConnection DEF SendersKnow, Knows

(* Whoever had the slot and was not about to leave lost it. *)
LEMMA SwapLoses ==
  ASSUME TypeOK, HolderIsServed, LeavingIsExcused,
         NEW caller \in Callers, NEW new,
         NEW how \in {"taken", "kicked", "excused"}, SwapHolder(caller, new, how)
  PROVE  /\ holder' = new
         /\ \A d \in Connections :
              \/ fate'[d] = fate[d]
              \/ /\ d = holder /\ fate[d] = "open" /\ fate'[d] = how
                 /\ serve[d] \in {"tell", "relay", "hand on"}
         /\ \A d \in Connections : d = holder => fate'[d] # "open"
         /\ previous'[Stop] = IF caller = Stop THEN holder ELSE previous[Stop]
  <1>1. holder' = new /\ previous'[Stop] = IF caller = Stop THEN holder ELSE previous[Stop]
    BY DEF SwapHolder, TypeOK, Callers
  <1>2. ASSUME NEW d \in Connections
        PROVE  /\ \/ fate'[d] = fate[d]
                  \/ /\ d = holder /\ fate[d] = "open" /\ fate'[d] = how
                     /\ serve[d] \in {"tell", "relay", "hand on"}
               /\ d = holder => fate'[d] # "open"
    <2>1. d # NoOne
      BY AConnection
    <2>2. serve[d] = "leave" => fate[d] = "excused"
      BY DEF LeavingIsExcused
    <2> QED
      BY <2>1, <2>2 DEF SwapHolder, TypeOK, HolderIsServed
  <1> QED
    BY <1>1, <1>2

LEMMA AwayByBroker ==
  ASSUME IInv, AwayInv, Broker, UNCHANGED senderVars
  PROVE  AwayInv'
  <1>0. /\ TypeOK /\ Connected /\ HolderIsServed
        /\ LostAreHeard /\ LeavingIsExcused /\ SendersKnow
        /\ UNCHANGED <<wish, lane, dials>>
    BY DEF IInv, AwayInv, senderVars
  <1>h. /\ holder # NoOne => holder \in Connections
        /\ previous[Stop] # NoOne => previous[Stop] \in Connections
        /\ Hold \in Callers /\ Stop \in Callers /\ Hold # Stop
    BY <1>0, AConnection DEF TypeOK, MayBeNoOne, Callers
  <1>1. CASE Kick
    <2>1. /\ SwapHolder(Hold, NoOne, "kicked")
          /\ UNCHANGED <<serve, word, hungUp, shut>>
      BY <1>1 DEF Kick
    <2>2. /\ holder' = NoOne /\ previous'[Stop] = previous[Stop]
          /\ \A d \in Connections :
               \/ fate'[d] = fate[d]
               \/ fate[d] = "open" /\ serve[d] \in {"tell", "relay", "hand on"}
      BY <1>0, <1>h, <2>1, SwapLoses
    <2>3. LostAreHeard'
      BY <1>0, <2>1, <2>2 DEF LostAreHeard, Lost
    <2>4. LeavingIsExcused'
      BY <1>0, <1>h, <2>1, <2>2 DEF LeavingIsExcused
    <2>5. SendersKnow'
      BY <1>0, <2>1, <2>2, KnowAsBefore DEF CameToNothing
    <2> QED
      BY <2>3, <2>4, <2>5 DEF AwayInv
  <1>2. CASE TellKicked
    <2>1. UNCHANGED <<holder, serve, hungUp, shut, fate>> /\ previous'[Stop] = previous[Stop]
      BY <1>0, <1>2, <1>h DEF TellKicked, TypeOK
    <2>2. \A d \in Connections : word'[d] = word[d] \/ word'[d] = "taken"
      BY <1>0, <1>2 DEF TellKicked, TakenFrom, TypeOK
    <2>3. LostAreHeard' /\ LeavingIsExcused'
      BY <1>0, <2>1 DEF LostAreHeard, LeavingIsExcused
    <2>4. SendersKnow'
      BY <1>0, <2>1, <2>2, KnowAsBefore DEF CameToNothing
    <2> QED
      BY <2>3, <2>4 DEF AwayInv
  <1>3. CASE Close
    <2>1. /\ SwapHolder(Stop, NoOne, "excused")
          /\ UNCHANGED <<serve, word, hungUp, shut>>
      BY <1>3 DEF Close
    <2>2. /\ holder' = NoOne /\ previous'[Stop] = holder
          /\ \A d \in Connections :
               \/ fate'[d] = fate[d]
               \/ /\ fate[d] = "open" /\ fate'[d] = "excused"
                  /\ serve[d] \in {"tell", "relay", "hand on"}
          /\ \A d \in Connections : d = holder => fate'[d] # "open"
      BY <1>0, <1>h, <2>1, SwapLoses
    <2>3. LostAreHeard'
      BY <1>0, <2>1, <2>2 DEF LostAreHeard, Lost
    <2>4. LeavingIsExcused'
      <3>1. holder # NoOne => fate'[holder] = "excused"
        <4>1. ASSUME holder # NoOne PROVE fate[holder] \in {"open", "excused"}
          BY <1>0, <1>h, <4>1 DEF LostAreHeard, Lost, TypeOK
        <4> QED
          BY <1>h, <2>2, <4>1
      <3> QED
        BY <1>0, <2>1, <2>2, <3>1 DEF LeavingIsExcused
    <2>5. SendersKnow'
      BY <1>0, <2>1, <2>2, KnowAsBefore DEF CameToNothing
    <2> QED
      BY <2>3, <2>4, <2>5 DEF AwayInv
  <1>4. CASE FinishClose
    <2>1. /\ UNCHANGED <<holder, fate, hungUp>>
          /\ shut' = shut \cup ({previous[Stop]} \ {NoOne})
          /\ previous'[Stop] = NoOne
      BY <1>0, <1>4, <1>h DEF FinishClose, TypeOK
    <2>2. \A d \in Connections :
            \/ serve'[d] = serve[d] /\ (word'[d] = word[d] \/ d = previous[Stop])
            \/ serve[d] = "backlog" /\ serve'[d] = "gone"
      BY <1>4 DEF FinishClose
    <2>3. LostAreHeard'
      BY <1>0, <2>1, <2>2 DEF LostAreHeard, Lost
    <2>4. LeavingIsExcused'
      BY <1>0, <2>1, <2>2 DEF LeavingIsExcused
    <2>5. \A d \in Connections : CameToNothing(d) => CameToNothing(d)'
      BY <2>1, <2>2 DEF CameToNothing
    <2>6. \A d \in Connections : word'[d] \in {"refused", "hung up"} /\ d \notin hungUp =>
            word[d] \in {"refused", "hung up"} \/ CameToNothing(d)'
      <3>1. \A d \in Connections : d # NoOne /\ fate[d] \in Lost \cup {"open", "excused"}
        BY <1>0, AConnection DEF Lost, TypeOK
      <3>2. \A d \in Connections : d = previous[Stop] => CameToNothing(d)'
        BY <1>0, <2>1, <3>1 DEF LeavingIsExcused, CameToNothing
      <3>3. \A d \in Connections :
              serve[d] = "backlog" /\ serve'[d] = "gone" => CameToNothing(d)'
        BY <1>0, <2>1, <3>1 DEF LostAreHeard, CameToNothing
      <3> QED
        BY <2>2, <3>2, <3>3
    <2>7. SendersKnow'
      BY <1>0, <2>1, <2>5, <2>6, KnowAsBefore
    <2> QED
      BY <2>3, <2>4, <2>7 DEF AwayInv
  <1> QED
    BY <1>1, <1>2, <1>3, <1>4 DEF Broker

LEMMA AwayByThreads ==
  ASSUME IInv, AwayInv, NEW c \in Connections, Serving(c)
  PROVE  AwayInv'
  <1>0. /\ TypeOK /\ Connected /\ HolderIsServed
        /\ LostAreHeard /\ LeavingIsExcused /\ SendersKnow
        /\ UNCHANGED <<wish, lane, dials>> /\ Serve(c)
    BY DEF IInv, AwayInv, Serving, senderVars
  <1>t. \A d \in Connections : d # c => serve'[d] = serve[d]
    BY <1>0, ThreadsStayOnTheirs
  <1>h. /\ holder # NoOne => holder \in Connections
        /\ previous[Stop] # NoOne => previous[Stop] \in Connections
        /\ c \in Callers /\ Stop \in Callers /\ c # Stop /\ c # NoOne
    BY <1>0, AConnection DEF TypeOK, MayBeNoOne, Callers
  <1> USE DEF CameToNothing, Lost
  <1>1. CASE Accept(c)
    <2>1. /\ serve[c] = "backlog" /\ serve'[c] \in {"hello", "gone"}
          /\ UNCHANGED <<holder, previous, word, hungUp, shut, fate>>
      BY <1>0, <1>1 DEF Accept, TypeOK
    <2>2. LostAreHeard' /\ LeavingIsExcused'
      BY <1>0, <1>t, <2>1 DEF LostAreHeard, LeavingIsExcused
    <2>3. SendersKnow'
      BY <1>0, <1>t, <2>1, KnowAsBefore
    <2> QED
      BY <2>2, <2>3 DEF AwayInv
  <1>2. CASE NoHello(c)
    <2>1. /\ serve[c] = "hello" /\ serve'[c] = "gone"
          /\ UNCHANGED <<holder, previous, hungUp, shut, fate>>
          /\ \A d \in Connections : d # c => word'[d] = word[d]
      BY <1>0, <1>2 DEF NoHello, CloseConnection, TypeOK
    <2>2. LostAreHeard' /\ LeavingIsExcused'
      BY <1>0, <1>t, <2>1 DEF LostAreHeard, LeavingIsExcused
    <2>3. CameToNothing(c)'
      BY <1>0, <2>1 DEF LostAreHeard, TypeOK
    <2>4. SendersKnow'
      BY <1>0, <1>t, <2>1, <2>3, KnowAsBefore
    <2> QED
      BY <2>2, <2>4 DEF AwayInv
  <1>3. CASE Take(c)
    <2>1. /\ serve[c] = "hello" /\ serve'[c] = "tell" /\ SwapHolder(c, c, "taken")
          /\ UNCHANGED <<word, hungUp, shut>>
      BY <1>0, <1>3 DEF Take, TypeOK
    <2>2. /\ holder' = c /\ previous'[Stop] = previous[Stop]
          /\ \A d \in Connections :
               \/ fate'[d] = fate[d]
               \/ fate[d] = "open" /\ serve[d] \in {"tell", "relay", "hand on"}
      BY <1>0, <1>h, <2>1, SwapLoses
    <2>3. fate'[c] = fate[c] /\ fate[c] \notin Lost
      BY <1>0, <2>1, <2>2 DEF LostAreHeard
    <2>4. LostAreHeard'
      BY <1>0, <1>t, <2>1, <2>2, <2>3 DEF LostAreHeard
    <2>5. LeavingIsExcused'
      BY <1>0, <1>h, <1>t, <2>1, <2>2 DEF LeavingIsExcused
    <2>6. SendersKnow'
      BY <1>0, <1>t, <2>1, <2>2, KnowAsBefore
    <2> QED
      BY <2>4, <2>5, <2>6 DEF AwayInv
  <1>4. CASE TellTaken(c)
    <2>1. /\ serve[c] = "tell" /\ serve'[c] = "relay"
          /\ UNCHANGED <<holder, hungUp, shut, fate>> /\ previous'[Stop] = previous[Stop]
          /\ \A d \in Connections : word'[d] = word[d] \/ word'[d] = "taken"
      BY <1>0, <1>4, <1>h DEF TellTaken, TakenFrom, TypeOK
    <2>2. LostAreHeard' /\ LeavingIsExcused'
      BY <1>0, <1>t, <2>1 DEF LostAreHeard, LeavingIsExcused
    <2>3. SendersKnow'
      BY <1>0, <1>t, <2>1, KnowAsBefore
    <2> QED
      BY <2>2, <2>3 DEF AwayInv
  <1>5. CASE ReadLine(c)
    <2>1. /\ serve[c] \in {"relay", "hear out"} /\ serve'[c] \in {"hand on", "hear out"}
          /\ UNCHANGED <<holder, previous, word, hungUp, shut, fate>>
      BY <1>0, <1>5 DEF ReadLine, TypeOK
    <2>2. LostAreHeard' /\ LeavingIsExcused'
      BY <1>0, <1>t, <2>1 DEF LostAreHeard, LeavingIsExcused
    <2>3. SendersKnow'
      BY <1>0, <1>t, <2>1, KnowAsBefore
    <2> QED
      BY <2>2, <2>3 DEF AwayInv
  <1>6. CASE HandOn(c)
    <2>1. /\ serve[c] = "hand on"
          /\ UNCHANGED <<holder, previous, word, hungUp, shut>>
          /\ \/ serve'[c] = "relay" /\ fate' = fate
             \/ serve'[c] = "leave" /\ fate' = [fate EXCEPT ![c] = "excused"]
      BY <1>0, <1>6 DEF HandOn, TypeOK
    <2>2. \A d \in Connections :
            \/ fate'[d] = fate[d]
            \/ d = c /\ fate'[d] = "excused"
      BY <1>0, <2>1 DEF TypeOK
    <2>3. serve'[c] = "leave" => fate'[c] = "excused"
      BY <1>0, <2>1 DEF TypeOK
    <2>4. LostAreHeard'
      BY <1>0, <1>h, <1>t, <2>1, <2>2, <2>3 DEF LostAreHeard
    <2>5. LeavingIsExcused'
      BY <1>0, <1>h, <1>t, <2>1, <2>2, <2>3 DEF LeavingIsExcused
    <2>6. SendersKnow'
      BY <1>0, <1>t, <2>1, <2>2, KnowAsBefore
    <2> QED
      BY <2>4, <2>5, <2>6 DEF AwayInv
  <1>7. CASE LetGo(c)
    <2>1. /\ \/ serve[c] = "leave"
             \/ serve[c] \in {"relay", "hear out"} /\ (c \in shut \/ c \in hungUp)
          /\ serve'[c] = "gone" /\ holder' \in {holder, NoOne}
          /\ UNCHANGED <<previous, hungUp, shut, fate>>
          /\ \A d \in Connections : d # c => word'[d] = word[d]
      BY <1>0, <1>7 DEF LetGo, Leaves, HolderAfter, CloseConnection, TypeOK
    <2>2. c \in hungUp \/ fate[c] = "excused"
      BY <1>0, <2>1 DEF LeavingIsExcused
    <2>3. LostAreHeard' /\ LeavingIsExcused'
      BY <1>0, <1>t, <2>1, <2>2 DEF LostAreHeard, LeavingIsExcused
    <2>4. SendersKnow'
      BY <1>0, <1>t, <2>1, <2>2, KnowAsBefore
    <2> QED
      BY <2>3, <2>4 DEF AwayInv
  <1> QED
    BY <1>0, <1>1, <1>2, <1>3, <1>4, <1>5, <1>6, <1>7 DEF Serve

(* What a sender does says nothing of another's last connection. *)
LEMMA OthersKnow ==
  ASSUME TypeOK, Connected, SendersKnow, NEW s \in Senders,
         \A t \in Senders : t # s => /\ wish'[t] = wish[t] /\ lane'[t] = lane[t]
                                     /\ dials'[t] = dials[t],
         \A c \in Connections : c[1] # s => /\ fate'[c] = fate[c] /\ serve'[c] = serve[c]
                                            /\ word'[c] = word[c]
                                            /\ c \in hungUp' => c \in hungUp
  PROVE  \A t \in Senders : t # s => Knows(t)'
  <1> SUFFICES ASSUME NEW t \in Senders, t # s PROVE Knows(t)'
    OBVIOUS
  <1>1. Current(t)' = Current(t) /\ Current(t)[1] = t
    BY DEF Current
  <1>2. dials[t] > 0 => Current(t) \in Connections
    BY LastIsAConnection
  <1>3. Knows(t)
    BY DEF SendersKnow
  <1> QED
    BY <1>1, <1>2, <1>3 DEF Knows, CameToNothing

LEMMA AwayByDial ==
  ASSUME IInv, AwayInv, NEW s \in Senders, Dial(s)
  PROVE  AwayInv'
  <1>0. /\ TypeOK /\ Undialed /\ Connected
        /\ LostAreHeard /\ LeavingIsExcused /\ SendersKnow
    BY DEF IInv, AwayInv
  <1>n. PICK new \in Connections : new = <<s, dials[s] + 1>>
    BY <1>0, DialedIsNew
  <1>1. /\ serve[new] = "none"
        /\ serve'[new] \in {"backlog", "gone"}
        /\ \A c \in Connections : c # new => serve'[c] = serve[c]
        /\ UNCHANGED <<holder, fate>>
    BY <1>0, <1>n, DialedIsNew
  <1>2. /\ UNCHANGED <<previous, shut, hungUp, wish>>
        /\ dials' = [dials EXCEPT ![s] = dials[s] + 1]
        /\ lane' = [lane EXCEPT ![s] = "dialed"]
        /\ word'[new] \in {"refused", "nothing"}
        /\ word'[new] = "refused" => serve'[new] = "gone"
        /\ \A c \in Connections : c # new => word'[c] = word[c]
        /\ wish[s] = "wanted"
    BY <1>0, <1>n, <1>1 DEF Dial, brokersOwn, TypeOK
  <1>3. dials[s] \in Nat /\ dials'[s] = dials[s] + 1 /\ Current(s)' = new
        /\ \A t \in Senders : t # s => dials'[t] = dials[t]
    BY <1>0, <1>n, <1>2, Numbers DEF Current
  <1>4. fate[new] \in {"open", "excused"}
    BY <1>0, <1>1 DEF LostAreHeard, Lost, TypeOK
  <1>5. LostAreHeard'
    BY <1>0, <1>1, <1>2, <1>4 DEF LostAreHeard, Lost
  <1>6. LeavingIsExcused'
    BY <1>0, <1>1, <1>2 DEF LeavingIsExcused
  <1>7. new[1] = s /\ new[2] > dials[s] /\ new \notin hungUp
    <2>1. new[1] = s /\ new[2] > dials[s]
      BY <1>n, <1>3
    <2> QED
      BY <1>0, <1>1, <2>1 DEF SendersKnow
  <1>8. \A c \in Connections : c[2] > dials'[c[1]] => c \notin hungUp'
    <2> SUFFICES ASSUME NEW c \in Connections, c[2] > dials'[c[1]] PROVE c \notin hungUp
      BY <1>2
    <2>1. c[1] \in Senders /\ c[2] \in Nat /\ dials[c[1]] \in Nat
      BY <1>0, AConnection, Numbers
    <2>2. c[2] > dials[c[1]]
      BY <1>3, <2>1
    <2> QED
      BY <1>0, <2>2 DEF SendersKnow
  <1>9. \A t \in Senders : t # s => Knows(t)'
    <2>1. \A t \in Senders : t # s => /\ wish'[t] = wish[t] /\ lane'[t] = lane[t]
                                      /\ dials'[t] = dials[t]
      BY <1>0, <1>2, <1>3 DEF TypeOK
    <2>2. \A c \in Connections : c[1] # s => /\ fate'[c] = fate[c] /\ serve'[c] = serve[c]
                                             /\ word'[c] = word[c]
                                             /\ c \in hungUp' => c \in hungUp
      BY <1>1, <1>2, <1>7
    <2> QED
      BY <1>0, <2>1, <2>2, OthersKnow
  <1>10. Knows(s)'
    <2>1. lane'[s] = "dialed" /\ wish'[s] = "wanted"
      BY <1>0, <1>2 DEF TypeOK
    <2>2. new \notin hungUp' /\ (word'[new] \in {"refused", "hung up"} => CameToNothing(new)')
      BY <1>1, <1>2, <1>4, <1>7 DEF CameToNothing
    <2> QED
      BY <1>3, <2>1, <2>2 DEF Knows, CameToNothing
  <1> QED
    BY <1>5, <1>6, <1>8, <1>9, <1>10 DEF AwayInv, SendersKnow

(* Whatever else a sender does, it speaks of its own connection, and hangs  *)
(* up on none but that.                                                     *)
LEMMA OnItsOwn ==
  ASSUME TypeOK, Connected, NEW s \in Senders, Elsewhere(s)
  PROVE  /\ \A c \in Connections : c[1] # s =>
              fate'[c] = fate[c] /\ word'[c] = word[c]
         /\ hungUp \subseteq hungUp' /\ hungUp' \subseteq hungUp \cup {Current(s)}
         /\ hungUp' # hungUp => lane[s] \in {"dialed", "greeted", "writing"}
         /\ \A t \in Senders : t # s => wish'[t] = wish[t] /\ lane'[t] = lane[t]
  <1> DEFINE own == Current(s)
  <1>0. /\ fate \in [Connections -> {"open", "taken", "kicked", "excused"}]
        /\ word \in [Connections -> Words] /\ wish \in [Senders -> Wishes]
        /\ lane \in [Senders -> Lanes]
    BY DEF TypeOK, Words, Wishes, Lanes
  <1>c. \A c \in Connections : c[1] # s => c # own
    BY DEF Current
  <1> HIDE DEF own
  <1> USE <1>0, <1>c
  <1>1. CASE Greet(s)
    BY <1>1 DEF Greet
  <1>2. CASE FindsTheEnd(s)
    BY <1>2 DEF FindsTheEnd, HangUp, Without, own
  <1>3. CASE LookFindsNothing(s) \/ DialAgainDue(s)
    BY <1>3 DEF LookFindsNothing, DialAgainDue, slotVars
  <1>w. CASE Want(s)
    BY <1>w DEF Want, slotVars
  <1>4. CASE LookFindsTaken(s)
    BY <1>4 DEF LookFindsTaken, own
  <1>5. CASE Write(s) \/ WriteIsLost(s)
    BY <1>5 DEF Write, WriteIsLost, own
  <1>6. CASE WriteFails(s)
    BY <1>6 DEF WriteFails, HangUp, Without, Excuse, own
  <1>7. CASE WantNoMore(s)
    BY <1>7 DEF WantNoMore, HangUpIfConnected, HangUp, Without, Excuse, own
  <1>8. CASE CloseSender(s)
    BY <1>8 DEF CloseSender, HangUpIfConnected, HangUp, Without, own
  <1> QED
    BY <1>1, <1>2, <1>3, <1>w, <1>4, <1>5, <1>6, <1>7, <1>8 DEF Elsewhere

(* And it knows what became of its own. *)
LEMMA KnowsItsOwn ==
  ASSUME IInv, AwayInv, NEW s \in Senders, Elsewhere(s)
  PROVE  Knows(s)'
  <1> DEFINE c == Current(s)
  <1>0. /\ TypeOK /\ Connected /\ LostAreHeard /\ LeavingIsExcused /\ Knows(s)
        /\ dials[s] > 0 => c \in Connections
        /\ dials[s] # 0 <=> dials[s] > 0
    BY LastIsAConnection, Numbers DEF IInv, AwayInv, SendersKnow
  <1>1. UNCHANGED <<serve, dials>> /\ Current(s)' = c
    BY SendersSteps DEF Current
  <1>e. Excuse(s) => (dials[s] # 0 => fate'[c] = "excused")
    <2>1. fate \in [Connections -> {"open", "taken", "kicked", "excused"}]
      BY <1>0 DEF TypeOK
    <2>2. dials[s] # 0 => c \in Connections
      BY <1>0
    <2>3. Excuse(s) /\ dials[s] # 0 => fate' = [fate EXCEPT ![c] = "excused"]
      BY DEF Excuse
    <2> HIDE DEF c
    <2> QED
      BY <2>1, <2>2, <2>3
  <1> HIDE DEF c
  <1>2. CASE Greet(s)
    BY <1>0, <1>1, <1>2 DEF Greet, TypeOK, Knows, CameToNothing, c, brokersOwn
  <1>3. CASE FindsTheEnd(s)
    <2>1. lane'[s] = "later" /\ UNCHANGED <<wish, fate>>
          /\ lane[s] \in {"dialed", "greeted", "writing"}
          /\ word[c] \in {"refused", "hung up"}
      BY <1>0, <1>3 DEF FindsTheEnd, HangUp, Without, TypeOK, c
    <2> QED
      BY <1>0, <1>1, <2>1 DEF Knows, CameToNothing, c
  <1>4. CASE LookFindsNothing(s)
    BY <1>0, <1>1, <1>4 DEF LookFindsNothing, slotVars, TypeOK, Knows, CameToNothing, c
  <1>5. CASE LookFindsTaken(s)
    <2>1. wish'[s] = "taken" /\ lane'[s] = "none"
      BY <1>0, <1>5 DEF LookFindsTaken, TypeOK
    <2> QED
      BY <2>1 DEF Knows
  <1>6. CASE Write(s)
    BY <1>0, <1>1, <1>6 DEF Write, brokersOwn, TypeOK, Knows, CameToNothing, c
  <1>7. CASE WriteIsLost(s)
    <2>1. /\ lane[s] = "writing" /\ lane'[s] = "greeted" /\ UNCHANGED <<wish, fate, hungUp>>
          /\ serve[c] = "gone" \/ c \in shut
      BY <1>0, <1>7 DEF WriteIsLost, Alive, TypeOK, c
    <2>2. dials[s] > 0 /\ c \in Connections /\ c \notin hungUp
      BY <1>0, <2>1 DEF Connected, Knows, c
    <2>3. CameToNothing(c)
      BY <1>0, <2>1, <2>2 DEF LostAreHeard, LeavingIsExcused, Lost, CameToNothing, TypeOK
    <2>4. wish[s] = "wanted"
      BY <1>0, <2>1 DEF Knows
    <2> QED
      BY <1>1, <2>1, <2>2, <2>3, <2>4 DEF Knows, CameToNothing, c
  <1>8. CASE WriteFails(s)
    <2>1. lane'[s] = "later" /\ wish' = wish
      BY <1>0, <1>8 DEF WriteFails, HangUp, Without, TypeOK
    <2>2. dials[s] # 0 => fate'[c] = "excused"
      BY <1>0, <1>8, <1>e DEF WriteFails
    <2> QED
      BY <1>0, <1>1, <2>1, <2>2 DEF Knows, CameToNothing, c
  <1>9. CASE DialAgainDue(s)
    BY <1>0, <1>1, <1>9 DEF DialAgainDue, slotVars, TypeOK, Knows, CameToNothing, c
  <1>10. CASE Want(s)
    <2>1. wish[s] = "none" /\ wish'[s] = "wanted" /\ UNCHANGED <<lane, fate>>
      BY <1>0, <1>10 DEF Want, slotVars, TypeOK
    <2> QED
      BY <1>0, <1>1, <2>1 DEF Knows, CameToNothing, c
  <1>11. CASE WantNoMore(s) \/ CloseSender(s)
    <2>1. lane'[s] \in {"none", "later"}
      BY <1>0, <1>11
      DEF WantNoMore, CloseSender, HangUpIfConnected, HangUp, Without, TypeOK, Lanes
    <2>2. CASE WantNoMore(s)
      <3>1. wish'[s] = "none"
        BY <1>0, <2>2 DEF WantNoMore, TypeOK
      <3>2. dials[s] # 0 => fate'[c] = "excused"
        BY <2>2, <1>e DEF WantNoMore
      <3> QED
        BY <1>0, <1>1, <2>1, <3>1, <3>2 DEF Knows, c
    <2>3. CASE CloseSender(s)
      <3>1. wish'[s] = "closed"
        BY <1>0, <2>3 DEF CloseSender, TypeOK
      <3> QED
        BY <2>1, <3>1 DEF Knows
    <2> QED
      BY <1>11, <2>2, <2>3
  <1> QED
    BY <1>2, <1>3, <1>4, <1>5, <1>6, <1>7, <1>8, <1>9, <1>10, <1>11 DEF Elsewhere

LEMMA AwayElsewhere ==
  ASSUME IInv, AwayInv, NEW s \in Senders, Elsewhere(s)
  PROVE  AwayInv'
  <1>0. /\ TypeOK /\ Connected
        /\ LostAreHeard /\ LeavingIsExcused /\ SendersKnow
        /\ UNCHANGED <<holder, previous, serve, shut, dials>>
    BY SendersSteps DEF IInv, AwayInv
  <1>1. \A c \in Connections : fate'[c] = fate[c] \/ fate'[c] = "excused"
    BY <1>0, SendersSteps DEF TypeOK
  <1>h. /\ holder # NoOne => holder \in Connections
        /\ previous[Stop] # NoOne => previous[Stop] \in Connections
    BY <1>0 DEF TypeOK, MayBeNoOne, Callers
  <1>2. LostAreHeard'
    BY <1>0, <1>1, <1>h, OnItsOwn DEF LostAreHeard, Lost
  <1>3. LeavingIsExcused'
    BY <1>0, <1>1, <1>h DEF LeavingIsExcused
  <1>4. \A c \in Connections : c[2] > dials'[c[1]] => c \notin hungUp'
    <2> SUFFICES ASSUME NEW c \in Connections, c[2] > dials[c[1]] PROVE c \notin hungUp'
      BY <1>0
    <2>1. c \notin hungUp
      BY <1>0 DEF SendersKnow
    <2>2. c # Current(s)
      BY <1>0, Numbers DEF Current
    <2> QED
      BY <1>0, <2>1, <2>2, OnItsOwn
  <1>5. \A t \in Senders : t # s => Knows(t)'
    <2>1. \A c \in Connections : c[1] # s => /\ fate'[c] = fate[c] /\ serve'[c] = serve[c]
                                             /\ word'[c] = word[c]
                                             /\ c \in hungUp' => c \in hungUp
      <3>1. Current(s)[1] = s
        BY DEF Current
      <3> QED
        BY <1>0, <3>1, OnItsOwn
    <2>2. \A t \in Senders : t # s => /\ wish'[t] = wish[t] /\ lane'[t] = lane[t]
                                      /\ dials'[t] = dials[t]
      BY <1>0, OnItsOwn
    <2> QED
      BY <1>0, <2>1, <2>2, OthersKnow
  <1>6. Knows(s)'
    BY KnowsItsOwn
  <1> QED
    BY <1>2, <1>3, <1>4, <1>5, <1>6 DEF AwayInv, SendersKnow

LEMMA AwayKept == IInv /\ AwayInv /\ [Next]_vars => AwayInv'
  <1> SUFFICES ASSUME IInv, AwayInv, [Next]_vars PROVE AwayInv'
    OBVIOUS
  <1>1. CASE UNCHANGED vars
    BY <1>1 DEF vars, slotVars, senderVars, AwayInv, LostAreHeard, LeavingIsExcused,
                SendersKnow, Knows, CameToNothing, Current
  <1> QED
    BY <1>1, Steps, AwayByThreads, AwayByBroker, AwayByDial, AwayElsewhere

(* A sender it was taken from does not dial, whatever broke on the way: if  *)
(* its last connection lost the slot, it has the word to read or read it.   *)
THEOREM OlderOnesStayAway == Spec => OlderStaysAway
  <1>1. Init => IInv /\ AwayInv
    BY InitIInv, AwayInitially
  <1>2. IInv /\ AwayInv /\ [Next]_vars => IInv' /\ AwayInv'
    BY StepIInv, AwayKept
  <1>3. ASSUME IInv, AwayInv, [Next]_vars
        PROVE  \A s \in Senders :
                 dials[s] > 0 /\ fate[Current(s)] \in {"taken", "kicked"} =>
                   dials'[s] = dials[s]
    <2> SUFFICES ASSUME NEW s \in Senders, dials[s] > 0,
                        fate[Current(s)] \in {"taken", "kicked"}, dials'[s] # dials[s]
                 PROVE  FALSE
      OBVIOUS
    <2>1. TypeOK /\ Connected /\ Knows(s)
      BY <1>3 DEF IInv, AwayInv, SendersKnow
    <2>2. ~Dial(s)
      BY <2>1 DEF Dial, Knows, CameToNothing
    <2>3. \A c \in Connections : Serving(c) => dials' = dials
      BY DEF Serving, senderVars
    <2>4. \A t \in Senders : Elsewhere(t) => dials' = dials
      BY SendersSteps
    <2>5. \A t \in Senders : t # s /\ Dial(t) => dials'[s] = dials[s]
      BY <2>1 DEF Dial, TypeOK
    <2>6. UNCHANGED senderVars \/ UNCHANGED vars => dials' = dials
      BY DEF vars, senderVars
    <2> QED
      BY <1>3, <2>2, <2>3, <2>4, <2>5, <2>6, Steps
  <1> QED
    BY <1>1, <1>2, <1>3, PTL DEF Spec, OlderStaysAway
=============================================================================
