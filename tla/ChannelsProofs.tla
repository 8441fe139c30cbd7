---------------------------- MODULE ChannelsProofs ----------------------------
(***************************************************************************)
(* Proofs about the two channels: no verb is lost, no frame is in pieces.   *)
(***************************************************************************)
EXTENDS Channels, TLAPS

(***************************************************************************)
(* Lines.                                                                  *)
(***************************************************************************)

Sent == Writers \X Int
Lines == Seq(Seq(Sent))

(* A line of its own adds its verb and takes none away. *)
LEMMA VerbsOfAppend ==
  ASSUME NEW lines \in Lines, NEW verb \in Sent
  PROVE  /\ Append(lines, <<verb>>) \in Lines
         /\ VerbsOf(Append(lines, <<verb>>)) = VerbsOf(lines) \cup {verb}
  <1> DEFINE more == Append(lines, <<verb>>)
  <1>1. <<verb>> \in Seq(Sent)
    OBVIOUS
  <1>2. more \in Lines
    BY <1>1 DEF Lines
  <1>3. /\ Len(more) = Len(lines) + 1
        /\ DOMAIN more = 1..(Len(lines) + 1) /\ DOMAIN lines = 1..Len(lines)
        /\ \A i \in 1..Len(lines) : more[i] = lines[i]
        /\ more[Len(lines) + 1] = <<verb>> /\ Len(lines) \in Nat
    BY <1>1 DEF Lines
  <1> HIDE DEF more
  <1>4. \A v : v \in VerbsOf(more) <=> v \in VerbsOf(lines) \cup {verb}
    <2> TAKE v
    <2>1. ASSUME v \in VerbsOf(more) PROVE v \in VerbsOf(lines) \cup {verb}
      <3>1. PICK i \in DOMAIN more : v \in {more[i][j] : j \in DOMAIN more[i]}
        BY <2>1 DEF VerbsOf
      <3>2. CASE i \in 1..Len(lines)
        BY <1>3, <3>1, <3>2 DEF VerbsOf
      <3>3. CASE i = Len(lines) + 1
        BY <1>3, <3>1, <3>3
      <3> QED
        BY <1>3, <3>1, <3>2, <3>3
    <2>2. ASSUME v \in VerbsOf(lines) PROVE v \in VerbsOf(more)
      <3>1. PICK i \in DOMAIN lines : v \in {lines[i][j] : j \in DOMAIN lines[i]}
        BY <2>2 DEF VerbsOf
      <3>2. i \in DOMAIN more /\ more[i] = lines[i]
        BY <1>3, <3>1
      <3> QED
        BY <3>1, <3>2 DEF VerbsOf
    <2>3. verb \in VerbsOf(more)
      <3>1. Len(lines) + 1 \in DOMAIN more /\ more[Len(lines) + 1] = <<verb>>
        BY <1>3
      <3>2. 1 \in DOMAIN <<verb>> /\ <<verb>>[1] = verb
        OBVIOUS
      <3>3. verb \in {more[Len(lines) + 1][j] : j \in DOMAIN more[Len(lines) + 1]}
        BY <3>1, <3>2
      <3> QED
        BY <3>1, <3>3 DEF VerbsOf
    <2> QED
      BY <2>1, <2>2, <2>3
  <1> QED
    BY <1>2, <1>4 DEF more

(* What is handed on is added to what was. *)
LEMMA VerbsOfBoth ==
  ASSUME NEW early \in Lines, NEW late \in Lines
  PROVE  /\ early \o late \in Lines
         /\ VerbsOf(early \o late) = VerbsOf(early) \cup VerbsOf(late)
  <1> DEFINE both == early \o late
  <1>1. both \in Lines
    BY DEF Lines
  <1>2. /\ DOMAIN both = 1..(Len(early) + Len(late))
        /\ DOMAIN early = 1..Len(early) /\ DOMAIN late = 1..Len(late)
        /\ \A i \in 1..Len(early) : both[i] = early[i]
        /\ \A i \in 1..Len(late) : both[Len(early) + i] = late[i]
        /\ Len(early) \in Nat /\ Len(late) \in Nat
    BY DEF Lines
  <1> HIDE DEF both
  <1>3. \A v : v \in VerbsOf(both) <=> v \in VerbsOf(early) \cup VerbsOf(late)
    <2> TAKE v
    <2>1. ASSUME v \in VerbsOf(both) PROVE v \in VerbsOf(early) \cup VerbsOf(late)
      <3>1. PICK i \in DOMAIN both : v \in {both[i][j] : j \in DOMAIN both[i]}
        BY <2>1 DEF VerbsOf
      <3>2. CASE i \in 1..Len(early)
        BY <1>2, <3>1, <3>2 DEF VerbsOf
      <3>3. CASE i \notin 1..Len(early)
        <4>1. i - Len(early) \in DOMAIN late /\ i = Len(early) + (i - Len(early))
          BY <1>2, <3>1, <3>3
        <4>2. both[i] = late[i - Len(early)]
          BY <1>2, <4>1
        <4> QED
          BY <3>1, <4>1, <4>2 DEF VerbsOf
      <3> QED
        BY <3>2, <3>3
    <2>2. ASSUME v \in VerbsOf(early) PROVE v \in VerbsOf(both)
      <3>1. PICK i \in DOMAIN early : v \in {early[i][j] : j \in DOMAIN early[i]}
        BY <2>2 DEF VerbsOf
      <3>2. i \in DOMAIN both /\ both[i] = early[i]
        BY <1>2, <3>1
      <3> QED
        BY <3>1, <3>2 DEF VerbsOf
    <2>3. ASSUME v \in VerbsOf(late) PROVE v \in VerbsOf(both)
      <3>1. PICK i \in DOMAIN late : v \in {late[i][j] : j \in DOMAIN late[i]}
        BY <2>3 DEF VerbsOf
      <3>2. Len(early) + i \in DOMAIN both /\ both[Len(early) + i] = late[i]
        BY <1>2, <3>1
      <3> QED
        BY <3>1, <3>2 DEF VerbsOf
    <2> QED
      BY <2>1, <2>2, <2>3
  <1> QED
    BY <1>1, <1>3 DEF both

(***************************************************************************)
(* The command file.                                                       *)
(***************************************************************************)

FileTypes ==
  /\ file \in Lines /\ claimed \in Lines /\ inHand \in Lines /\ handed \in Lines
  /\ sent \in [Writers -> Int] /\ end \in [Writers -> Int]
  /\ sends \in [Writers -> {"idle", "open", "look", "write"}]

(* Who is between its open and its write is the one that has the file open; *)
(* what it found to be the end still is.                                    *)
HeldAlone ==
  \A w \in Writers :
    /\ sends[w] \in {"look", "write"} => heldBy = w
    /\ sends[w] = "write" => end[w] = Len(file)

ReadWhole == drain = "unlink" => inHand = claimed

FileInv == FileTypes /\ HeldAlone /\ ReadWhole /\ NoVerbIsLost

LEMMA FileStart == FileInit => FileInv
  <1> SUFFICES ASSUME FileInit PROVE FileInv
    OBVIOUS
  <1>1. <<>> \in Lines
    BY DEF Lines
  <1>2. FileTypes
    BY <1>1 DEF FileInit, FileTypes
  <1>3. HeldAlone /\ ReadWhole /\ NoVerbIsLost
    BY DEF FileInit, HeldAlone, ReadWhole, NoVerbIsLost
  <1> QED
    BY <1>2, <1>3 DEF FileInv

(* A writer's line leaves all that is in the file, as its end is the end.   *)
LEMMA WritingKeeps ==
  ASSUME FileInv, NEW w \in Writers, Writes(w)
  PROVE  FileInv'
  <1> DEFINE verb == <<w, sent[w]>>
  <1> USE DEF FileInv
  <1>1. verb \in Sent /\ file \in Lines
    BY DEF FileTypes, Sent
  <1>2. SubSeq(file, 1, end[w]) = file
    <2>1. end[w] = Len(file)
      BY DEF HeldAlone, Writes
    <2> QED
      BY <1>1, <2>1 DEF Lines
  <1>3. file' = Append(file, <<verb>>)
    BY <1>2 DEF Writes, OnALineOfItsOwn
  <1>4. file' \in Lines /\ VerbsOf(file') = VerbsOf(file) \cup {verb}
    BY <1>1, <1>3, VerbsOfAppend
  <1>5. FileTypes'
    BY <1>4 DEF FileTypes, Writes, readersOwn
  <1>6. HeldAlone'
    BY DEF HeldAlone, FileTypes, Writes
  <1>7. ReadWhole'
    BY DEF ReadWhole, Writes, readersOwn
  <1>8. NoVerbIsLost'
    BY <1>4 DEF NoVerbIsLost, Writes, readersOwn
  <1> QED
    BY <1>5, <1>6, <1>7, <1>8

(* What a tool writes it writes where there is nothing.                     *)
LEMMA ToolKeeps ==
  ASSUME FileInv, NEW w \in Writers, ToolWrites(w)
  PROVE  FileInv'
  <1> DEFINE verb == <<w, sent[w] + 1>>
  <1> USE DEF FileInv
  <1>1. verb \in Sent /\ <<>> \in Lines
    BY DEF FileTypes, Sent, Lines
  <1>2. file' = Append(<<>>, <<verb>>) /\ file = <<>>
    BY DEF ToolWrites
  <1>3. file' \in Lines /\ VerbsOf(file') = VerbsOf(file) \cup {verb}
    BY <1>1, <1>2, VerbsOfAppend
  <1>4. FileTypes'
    BY <1>3 DEF FileTypes, ToolWrites, readersOwn
  <1>5. HeldAlone'
    BY ChannelAssumption DEF HeldAlone, ToolWrites
  <1>6. ReadWhole'
    BY DEF ReadWhole, ToolWrites, readersOwn
  <1>7. NoVerbIsLost'
    BY <1>3 DEF NoVerbIsLost, ToolWrites, readersOwn
  <1> QED
    BY <1>4, <1>5, <1>6, <1>7

(* Every other step of a writer leaves what the file says. *)
LEMMA WritersKeep ==
  ASSUME FileInv, NEW w \in Writers,
         Sends(w) \/ Appends(w) \/ GivesUp(w) \/ WriterDies(w) \/ ToolWrites(w)
  PROVE  FileInv'
  <1> USE DEF FileInv
  <1>1. CASE Writes(w)
    BY <1>1, WritingKeeps
  <1>2. CASE ToolWrites(w)
    BY <1>2, ToolKeeps
  <1>3. CASE Sends(w) \/ Opens(w) \/ LooksAtTheEnd(w) \/ GivesUp(w) \/ WriterDies(w)
    <2>1. /\ UNCHANGED <<file, claimed, inHand, handed, drain, forsaken, accepted>>
          /\ sends' = [sends EXCEPT ![w] = sends'[w]]
          /\ sends'[w] \in {"idle", "open", "look", "write"}
      BY <1>3 DEF Sends, Opens, LooksAtTheEnd, GivesUp, WriterDies, readersOwn, FileTypes
    <2>2. sent' \in [Writers -> Int] /\ end' \in [Writers -> Int]
      <3>1. Len(file) \in Int
        BY DEF FileTypes, Lines
      <3> QED
        BY <1>3, <3>1 DEF Sends, Opens, LooksAtTheEnd, GivesUp, WriterDies, FileTypes
    <2>3. FileTypes'
      BY <2>1, <2>2 DEF FileTypes
    <2>4. HeldAlone'
      <3>1. CASE Sends(w) \/ GivesUp(w)
        BY <3>1 DEF Sends, GivesUp, HeldAlone, FileTypes
      <3>2. CASE Opens(w)
        BY <3>2, ChannelAssumption DEF Opens, MayOpen, HeldAlone, FileTypes
      <3>3. CASE LooksAtTheEnd(w)
        BY <3>3 DEF LooksAtTheEnd, HeldAlone, FileTypes
      <3>4. CASE WriterDies(w)
        BY <3>4 DEF WriterDies, HeldAlone, FileTypes
      <3> QED
        BY <1>3, <3>1, <3>2, <3>3, <3>4
    <2>5. ReadWhole' /\ NoVerbIsLost'
      BY <2>1 DEF ReadWhole, NoVerbIsLost
    <2> QED
      BY <2>3, <2>4, <2>5
  <1> QED
    BY <1>1, <1>2, <1>3 DEF Appends

(* The reader hands on what it claimed, or forsakes it. *)
LEMMA ReaderKeeps ==
  ASSUME FileInv, Drains \/ Claims \/ ReaderFails
  PROVE  FileInv'
  <1> USE DEF FileInv
  <1>1. CASE LooksForTheFile \/ ClaimFails
    <2>1. UNCHANGED <<file, claimed, inHand, handed, forsaken, accepted, sent, end, sends, heldBy>>
      BY <1>1 DEF LooksForTheFile, ClaimFails, writersOwn
    <2>2. drain \in {"look", "claim"} /\ drain' \in {"look", "claim"}
      BY <1>1 DEF LooksForTheFile, ClaimFails
    <2> QED
      BY <2>1, <2>2 DEF FileTypes, HeldAlone, ReadWhole, NoVerbIsLost
  <1>2. CASE Claims
    <2>1. <<>> \in Lines
      BY DEF Lines
    <2>2. FileTypes'
      BY <1>2, <2>1 DEF Claims, FileTypes, writersOwn
    <2>3. HeldAlone'
      BY <1>2, ChannelAssumption DEF Claims, HeldAlone, writersOwn
    <2>4. ReadWhole' /\ NoVerbIsLost'
      BY <1>2 DEF Claims, ReadWhole, NoVerbIsLost, writersOwn
    <2> QED
      BY <2>2, <2>3, <2>4
  <1>3. CASE Reads
    <2>1. UNCHANGED <<file, claimed, handed, forsaken, accepted, sent, end, sends, heldBy>>
      BY <1>3 DEF Reads, writersOwn
    <2>2. drain = "read" /\ drain' = "unlink" /\ inHand' = claimed
      BY <1>3 DEF Reads
    <2> QED
      BY <2>1, <2>2 DEF FileTypes, HeldAlone, ReadWhole, NoVerbIsLost
  <1>4. CASE Unlinks
    <2>1. inHand = claimed /\ drain = "unlink"
      BY <1>4 DEF Unlinks, ReadWhole
    <2>2. handed' \in Lines /\ VerbsOf(handed') = VerbsOf(handed) \cup VerbsOf(claimed)
      BY <1>4, <2>1, VerbsOfBoth DEF Unlinks, FileTypes
    <2>3. <<>> \in Lines
      BY DEF Lines
    <2>4. FileTypes'
      BY <1>4, <2>2, <2>3 DEF Unlinks, FileTypes, writersOwn
    <2>5. HeldAlone' /\ ReadWhole'
      BY <1>4 DEF Unlinks, HeldAlone, ReadWhole, writersOwn
    <2>6. NoVerbIsLost'
      BY <1>4, <2>1, <2>2 DEF Unlinks, NoVerbIsLost, writersOwn
    <2> QED
      BY <2>4, <2>5, <2>6
  <1>5. CASE ReaderFails
    <2>1. <<>> \in Lines
      BY DEF Lines
    <2>2. FileTypes'
      BY <1>5, <2>1 DEF ReaderFails, FileTypes, writersOwn
    <2>3. HeldAlone' /\ ReadWhole'
      BY <1>5 DEF ReaderFails, HeldAlone, ReadWhole, writersOwn
    <2>4. NoVerbIsLost'
      BY <1>5 DEF ReaderFails, NoVerbIsLost, writersOwn
    <2> QED
      BY <2>2, <2>3, <2>4
  <1> QED
    BY <1>1, <1>2, <1>3, <1>4, <1>5 DEF Drains

(* A step of frames leaves the command file. *)
LEMMA FramesLeaveIt == FileInv /\ UNCHANGED fileVars => FileInv'
  BY DEF FileInv, FileTypes, HeldAlone, ReadWhole, NoVerbIsLost, fileVars, readersOwn, writersOwn

(* A verb that append_command said is on its way is in the file, with the   *)
(* reader or handed on, for any writers: only a fault of the reader over    *)
(* what it claimed loses one (file_channel.py:79-134).                      *)
THEOREM NothingIsLost == ChannelsSafety => []NoVerbIsLost
  <1>1. ChannelsInit => FileInv
    BY FileStart DEF ChannelsInit
  <1>2. FileInv /\ [ChannelsNext]_channelVars => FileInv'
    <2> SUFFICES ASSUME FileInv, [ChannelsNext]_channelVars PROVE FileInv'
      OBVIOUS
    <2>1. CASE OfCommands(FileNext)
      BY <2>1, WritersKeep, ReaderKeeps DEF OfCommands, FileNext
    <2>2. CASE OfFrames(FrameNext) \/ UNCHANGED channelVars
      BY <2>2, FramesLeaveIt DEF OfFrames, channelVars
    <2> QED
      BY <2>1, <2>2 DEF ChannelsNext
  <1>3. FileInv => NoVerbIsLost
    BY DEF FileInv
  <1> QED
    BY <1>1, <1>2, <1>3, PTL DEF ChannelsSafety

(***************************************************************************)
(* The order of the verbs.  Every line is one verb; what was handed on was  *)
(* sent before what is claimed, that before what is in the file, and a verb *)
(* being sent is in neither yet.                                            *)
(***************************************************************************)

InOrder(lines) ==
  /\ \A i \in DOMAIN lines : Len(lines[i]) = 1
  /\ \A i, j \in DOMAIN lines :
       i < j /\ lines[i][1][1] = lines[j][1][1] => lines[i][1][2] < lines[j][1][2]

SentBefore(early, late) ==
  \A i \in DOMAIN early, j \in DOMAIN late :
    early[i][1][1] = late[j][1][1] => early[i][1][2] < late[j][1][2]

(* The last verb of each writer that may stand anywhere. *)
Latest == [w \in Writers |-> IF sends[w] = "idle" THEN sent[w] ELSE sent[w] - 1]

UpTo(lines, latest) ==
  \A i \in DOMAIN lines : lines[i][1][2] <= latest[lines[i][1][1]]

InFile == InOrder(file) /\ UpTo(file, Latest) /\ SentBefore(handed, file)
InHanded == InOrder(handed) /\ UpTo(handed, Latest)
InClaimed ==
  drain \in {"read", "unlink"} =>
    /\ InOrder(claimed) /\ UpTo(claimed, Latest)
    /\ SentBefore(handed, claimed) /\ SentBefore(claimed, file)
ToolsSendNothing == \A w \in Tools : sends[w] = "idle"

OrderInv == InFile /\ InHanded /\ InClaimed /\ ToolsSendNothing

(* A line with one verb in it is a verb of a writer. *)
LEMMA OneVerb ==
  ASSUME NEW lines \in Lines, InOrder(lines), NEW i \in DOMAIN lines
  PROVE  lines[i][1] \in Sent /\ lines[i][1][1] \in Writers /\ lines[i][1][2] \in Int
<1>1. lines[i] \in Seq(Sent) /\ Len(lines[i]) = 1
  BY DEF Lines, InOrder
<1>2. \A line \in Seq(Sent) : Len(line) = 1 => line[1] \in Sent
  OBVIOUS
<1>3. lines[i][1] \in Sent
  BY <1>1, <1>2
<1> QED BY <1>3 DEF Sent

(* A verb past all of its writer's keeps a sequence of lines in order. *)
LEMMA AppendInOrder ==
  ASSUME NEW lines \in Lines, InOrder(lines), NEW verb \in Sent,
         \A i \in DOMAIN lines : lines[i][1][1] = verb[1] => lines[i][1][2] < verb[2]
  PROVE  InOrder(Append(lines, <<verb>>))
<1> DEFINE more == Append(lines, <<verb>>)
<1>1. /\ DOMAIN more = 1..(Len(lines) + 1) /\ DOMAIN lines = 1..Len(lines)
      /\ \A i \in 1..Len(lines) : more[i] = lines[i]
      /\ more[Len(lines) + 1] = <<verb>> /\ Len(lines) \in Nat
  <2>1. <<verb>> \in Seq(Sent)
    OBVIOUS
  <2>2. more \in Lines
    BY <2>1 DEF Lines
  <2> QED BY <2>1, <2>2 DEF Lines
<1>2. Len(<<verb>>) = 1 /\ <<verb>>[1] = verb
  OBVIOUS
<1> HIDE DEF more
<1>3. ASSUME NEW i \in DOMAIN more PROVE Len(more[i]) = 1
  <2>1. CASE i \in DOMAIN lines
    BY <1>1, <2>1 DEF InOrder
  <2>2. CASE i = Len(lines) + 1
    BY <1>1, <1>2, <2>2
  <2> QED BY <1>1, <2>1, <2>2
<1>4. ASSUME NEW i \in DOMAIN more, NEW j \in DOMAIN more, i < j,
             more[i][1][1] = more[j][1][1]
      PROVE  more[i][1][2] < more[j][1][2]
  <2>1. i \in DOMAIN lines /\ more[i] = lines[i]
    BY <1>1, <1>4
  <2>2. CASE j \in DOMAIN lines
    BY <1>1, <1>4, <2>1, <2>2 DEF InOrder
  <2>3. CASE j = Len(lines) + 1
    BY <1>1, <1>2, <1>4, <2>1, <2>3
  <2> QED BY <1>1, <2>2, <2>3
<1> QED BY <1>3, <1>4 DEF InOrder, more

(* Such a verb was sent after what lies before the line. *)
LEMMA AppendSentBefore ==
  ASSUME NEW early \in Lines, NEW lines \in Lines, SentBefore(early, lines),
         NEW verb \in Sent,
         \A i \in DOMAIN early : early[i][1][1] = verb[1] => early[i][1][2] < verb[2]
  PROVE  SentBefore(early, Append(lines, <<verb>>))
<1> DEFINE more == Append(lines, <<verb>>)
<1>1. /\ DOMAIN more = 1..(Len(lines) + 1) /\ DOMAIN lines = 1..Len(lines)
      /\ \A i \in 1..Len(lines) : more[i] = lines[i]
      /\ more[Len(lines) + 1] = <<verb>> /\ Len(lines) \in Nat
  <2>1. <<verb>> \in Seq(Sent)
    OBVIOUS
  <2>2. more \in Lines
    BY <2>1 DEF Lines
  <2> QED BY <2>1, <2>2 DEF Lines
<1>2. <<verb>>[1] = verb
  OBVIOUS
<1> HIDE DEF more
<1>3. ASSUME NEW i \in DOMAIN early, NEW j \in DOMAIN more,
             early[i][1][1] = more[j][1][1]
      PROVE  early[i][1][2] < more[j][1][2]
  <2>1. CASE j \in DOMAIN lines
    BY <1>1, <1>3, <2>1 DEF SentBefore
  <2>2. CASE j = Len(lines) + 1
    BY <1>1, <1>2, <1>3, <2>2
  <2> QED BY <1>1, <2>1, <2>2
<1> QED BY <1>3 DEF SentBefore, more

(* What was handed on and what comes after it, one behind the other. *)
LEMMA JoinInOrder ==
  ASSUME NEW early \in Lines, NEW late \in Lines, InOrder(early), InOrder(late),
         SentBefore(early, late), NEW latest
  PROVE  /\ InOrder(early \o late)
         /\ UpTo(early, latest) /\ UpTo(late, latest) => UpTo(early \o late, latest)
         /\ \A more \in Lines : SentBefore(early, more) /\ SentBefore(late, more)
              => SentBefore(early \o late, more)
<1> DEFINE both == early \o late
<1>1. /\ DOMAIN both = 1..(Len(early) + Len(late))
      /\ DOMAIN early = 1..Len(early) /\ DOMAIN late = 1..Len(late)
      /\ \A i \in 1..Len(early) : both[i] = early[i]
      /\ \A i \in 1..Len(late) : both[Len(early) + i] = late[i]
      /\ Len(early) \in Nat /\ Len(late) \in Nat
  BY DEF Lines
<1> HIDE DEF both
<1>2. ASSUME NEW i \in DOMAIN both, i \notin DOMAIN early
      PROVE  i - Len(early) \in DOMAIN late /\ both[i] = late[i - Len(early)]
  <2>1. i - Len(early) \in 1..Len(late) /\ i = Len(early) + (i - Len(early))
    BY <1>1, <1>2
  <2> QED BY <1>1, <2>1
<1>3. \A i \in DOMAIN both : Len(both[i]) = 1
  BY <1>1, <1>2 DEF InOrder
<1>4. ASSUME NEW i \in DOMAIN both, NEW j \in DOMAIN both, i < j,
             both[i][1][1] = both[j][1][1]
      PROVE  both[i][1][2] < both[j][1][2]
  <2>1. CASE j \in DOMAIN early
    <3>1. i \in DOMAIN early /\ both[i] = early[i] /\ both[j] = early[j]
      BY <1>1, <1>4, <2>1
    <3> QED BY <1>4, <2>1, <3>1 DEF InOrder
  <2>2. CASE i \in DOMAIN early /\ j \notin DOMAIN early
    <3>1. both[i] = early[i]
      BY <1>1, <2>2
    <3> QED BY <1>2, <1>4, <2>2, <3>1 DEF SentBefore
  <2>3. CASE i \notin DOMAIN early /\ j \notin DOMAIN early
    <3>1. i - Len(early) < j - Len(early)
      BY <1>1, <1>4
    <3> QED BY <1>2, <1>4, <2>3, <3>1 DEF InOrder
  <2>4. j \notin DOMAIN early => i \in DOMAIN early \/ i \notin DOMAIN early
    OBVIOUS
  <2> QED BY <2>1, <2>2, <2>3
<1>5. UpTo(early, latest) /\ UpTo(late, latest) => UpTo(both, latest)
  BY <1>1, <1>2 DEF UpTo
<1>6. \A more \in Lines : SentBefore(early, more) /\ SentBefore(late, more)
        => SentBefore(both, more)
  BY <1>1, <1>2 DEF SentBefore
<1> QED BY <1>3, <1>4, <1>5, <1>6 DEF InOrder, both

(* Verbs that may stand anywhere now may do so later. *)
LEMMA UpToALater ==
  ASSUME NEW lines \in Lines, InOrder(lines),
         NEW before \in [Writers -> Int], NEW after \in [Writers -> Int],
         \A w \in Writers : before[w] <= after[w], UpTo(lines, before)
  PROVE  UpTo(lines, after)
<1> SUFFICES ASSUME NEW i \in DOMAIN lines
             PROVE  lines[i][1][2] <= after[lines[i][1][1]]
  BY DEF UpTo
<1>1. lines[i][1][1] \in Writers /\ lines[i][1][2] \in Int
  BY OneVerb
<1>2. lines[i][1][2] <= before[lines[i][1][1]]
  BY DEF UpTo
<1> QED BY <1>1, <1>2

(* A new verb may stand where the one before it did not yet. *)
LEMMA UpToANewOne ==
  ASSUME NEW lines \in Lines, InOrder(lines), NEW latest \in [Writers -> Int],
         UpTo(lines, latest), NEW w \in Writers, NEW n \in Int, n <= latest[w]
  PROVE  UpTo(Append(lines, <<<<w, n>>>>), latest)
<1> DEFINE verb == <<w, n>>
           more == Append(lines, <<verb>>)
<1>1. verb \in Sent /\ verb[1] = w /\ verb[2] = n
  BY DEF Sent
<1>2. <<verb>> \in Seq(Sent) /\ <<verb>>[1] = verb
  BY <1>1
<1> HIDE DEF verb
<1>3. more \in Lines
  BY <1>2 DEF Lines
<1>4. /\ DOMAIN more = 1..(Len(lines) + 1) /\ DOMAIN lines = 1..Len(lines)
      /\ \A i \in 1..Len(lines) : more[i] = lines[i]
      /\ more[Len(lines) + 1] = <<verb>> /\ Len(lines) \in Nat
  BY <1>2, <1>3 DEF Lines
<1> HIDE DEF more
<1>5. ASSUME NEW i \in DOMAIN more PROVE more[i][1][2] <= latest[more[i][1][1]]
  <2>1. CASE i \in DOMAIN lines
    BY <1>4, <2>1 DEF UpTo
  <2>2. CASE i = Len(lines) + 1
    BY <1>1, <1>2, <1>4, <2>2
  <2> QED BY <1>4, <2>1, <2>2
<1> QED BY <1>5 DEF UpTo, more, verb

(* At first nothing was sent. *)
LEMMA OrderStart == FileInit => OrderInv
BY ChannelAssumption DEF FileInit, OrderInv, InFile, InHanded, InClaimed, ToolsSendNothing,
   InOrder, UpTo, SentBefore

(* A step that leaves the files takes no verb back. *)
LEMMA OrderStays ==
  ASSUME FileInv, FileInv', OrderInv, UNCHANGED <<file, handed>>, ToolsSendNothing',
         drain' \in {"read", "unlink"} => drain \in {"read", "unlink"} /\ claimed' = claimed,
         \A w \in Writers : Latest[w] <= Latest'[w]
  PROVE  OrderInv'
<1>1. /\ Latest \in [Writers -> Int] /\ Latest' \in [Writers -> Int]
      /\ file \in Lines /\ handed \in Lines /\ claimed \in Lines
  BY DEF FileInv, FileTypes, Latest
<1>2. InOrder(file) /\ UpTo(file, Latest) /\ InOrder(handed) /\ UpTo(handed, Latest)
  BY DEF OrderInv, InFile, InHanded
<1>3. UpTo(file, Latest') /\ UpTo(handed, Latest')
  BY <1>1, <1>2, UpToALater
<1>4. ASSUME drain \in {"read", "unlink"} PROVE UpTo(claimed, Latest')
  <2>1. InOrder(claimed) /\ UpTo(claimed, Latest)
    BY <1>4 DEF OrderInv, InClaimed
  <2> QED BY <1>1, <2>1, UpToALater
<1> QED BY <1>3, <1>4 DEF OrderInv, InFile, InHanded, InClaimed

(* A line that is added carries a verb that stood nowhere. *)
LEMMA OrderGrows ==
  ASSUME FileInv, FileInv', OrderInv, ToolsSendNothing',
         NEW w \in Writers, NEW n \in Int, Latest[w] < n, n <= Latest'[w],
         \A v \in Writers : Latest[v] <= Latest'[v],
         file' = Append(file, <<<<w, n>>>>), UNCHANGED <<handed, claimed, drain>>
  PROVE  OrderInv'
<1> DEFINE verb == <<w, n>>
<1>1. /\ Latest \in [Writers -> Int] /\ Latest' \in [Writers -> Int]
      /\ file \in Lines /\ handed \in Lines /\ claimed \in Lines
  BY DEF FileInv, FileTypes, Latest
<1>2. verb \in Sent /\ verb[1] = w /\ verb[2] = n
  BY DEF Sent
<1>3. ASSUME NEW lines \in Lines, InOrder(lines), UpTo(lines, Latest)
      PROVE  /\ \A i \in DOMAIN lines : lines[i][1][1] = verb[1] => lines[i][1][2] < verb[2]
             /\ UpTo(lines, Latest')
  <2>1. UpTo(lines, Latest')
    BY <1>1, <1>3, UpToALater
  <2>2. ASSUME NEW i \in DOMAIN lines, lines[i][1][1] = verb[1]
        PROVE  lines[i][1][2] < verb[2]
    <3>1. lines[i][1][2] \in Int
      BY <1>3, OneVerb
    <3>2. lines[i][1][2] <= Latest[w]
      BY <1>2, <1>3, <2>2 DEF UpTo
    <3>3. Latest[w] \in Int
      BY <1>1
    <3> QED BY <1>2, <3>1, <3>2, <3>3
  <2> QED BY <2>1, <2>2
<1>4. InOrder(file) /\ UpTo(file, Latest) /\ InOrder(handed) /\ UpTo(handed, Latest)
      /\ SentBefore(handed, file)
  BY DEF OrderInv, InFile, InHanded
<1>5. InFile'
  <2>1. InOrder(file')
    BY <1>1, <1>2, <1>3, <1>4, AppendInOrder
  <2>2. UpTo(file', Latest')
    BY <1>1, <1>3, <1>4, UpToANewOne
  <2>3. SentBefore(handed, file')
    BY <1>1, <1>2, <1>3, <1>4, AppendSentBefore
  <2> QED BY <2>1, <2>2, <2>3 DEF InFile
<1>6. InHanded'
  BY <1>1, <1>3, <1>4 DEF InHanded
<1>7. InClaimed'
  <2> SUFFICES ASSUME drain \in {"read", "unlink"}
               PROVE  /\ InOrder(claimed) /\ UpTo(claimed, Latest')
                      /\ SentBefore(handed, claimed) /\ SentBefore(claimed, file')
    BY DEF InClaimed
  <2>1. /\ InOrder(claimed) /\ UpTo(claimed, Latest)
        /\ SentBefore(handed, claimed) /\ SentBefore(claimed, file)
    BY DEF OrderInv, InClaimed
  <2>2. SentBefore(claimed, file')
    BY <1>1, <1>2, <1>3, <2>1, AppendSentBefore
  <2> QED BY <1>1, <1>3, <2>1, <2>2
<1> QED BY <1>5, <1>6, <1>7 DEF OrderInv

(* What the writers do. *)
LEMMA WritersKeepOrder ==
  ASSUME FileInv, FileInv', OrderInv, NEW w \in Writers,
         Sends(w) \/ Appends(w) \/ GivesUp(w) \/ WriterDies(w) \/ ToolWrites(w)
  PROVE  OrderInv'
<1> USE DEF FileInv
<1>1. /\ sent \in [Writers -> Int] /\ sent' \in [Writers -> Int]
      /\ sends \in [Writers -> {"idle", "open", "look", "write"}]
      /\ sends' \in [Writers -> {"idle", "open", "look", "write"}]
  BY DEF FileTypes
<1>2. ToolsSendNothing
  BY DEF OrderInv
<1>3. CASE Writes(w)
  <2>1. ToolsSendNothing'
    BY <1>1, <1>2, <1>3, ChannelAssumption DEF ToolsSendNothing, Writes
  <2>2. sends[w] = "write" /\ sends' = [sends EXCEPT ![w] = "idle"] /\ sent' = sent
    BY <1>3 DEF Writes
  <2>3. Latest[w] < sent[w] /\ sent[w] <= Latest'[w] /\ sent[w] \in Int
    BY <1>1, <2>2 DEF Latest
  <2>4. \A v \in Writers : Latest[v] <= Latest'[v]
    BY <1>1, <2>2 DEF Latest
  <2>5. file' = Append(file, <<<<w, sent[w]>>>>)
    <3>1. file \in Lines /\ end[w] = Len(file)
      BY <1>3 DEF FileTypes, HeldAlone, Writes
    <3>2. SubSeq(file, 1, end[w]) = file
      BY <3>1 DEF Lines
    <3> QED BY <1>3, <3>2 DEF Writes, OnALineOfItsOwn
  <2>6. UNCHANGED <<handed, claimed, drain>>
    BY <1>3 DEF Writes, readersOwn
  <2> QED BY <2>1, <2>3, <2>4, <2>5, <2>6, OrderGrows
<1>4. CASE ToolWrites(w)
  <2>1. ToolsSendNothing' /\ sends' = sends
    BY <1>2, <1>4 DEF ToolsSendNothing, ToolWrites
  <2>2. sends[w] = "idle" /\ sent' = [sent EXCEPT ![w] = @ + 1]
    BY <1>2, <1>4 DEF ToolWrites, ToolsSendNothing
  <2>3. Latest[w] < sent[w] + 1 /\ sent[w] + 1 <= Latest'[w] /\ sent[w] + 1 \in Int
    BY <1>1, <2>1, <2>2 DEF Latest
  <2>4. \A v \in Writers : Latest[v] <= Latest'[v]
    BY <1>1, <2>1, <2>2 DEF Latest
  <2>5. file' = Append(file, <<<<w, sent[w] + 1>>>>)
    BY <1>4 DEF ToolWrites
  <2>6. UNCHANGED <<handed, claimed, drain>>
    BY <1>4 DEF ToolWrites, readersOwn
  <2> QED BY <2>1, <2>3, <2>4, <2>5, <2>6, OrderGrows
<1>5. CASE Sends(w) \/ Opens(w) \/ LooksAtTheEnd(w) \/ GivesUp(w) \/ WriterDies(w)
  <2>1. UNCHANGED <<file, handed, claimed, drain>>
    BY <1>5 DEF Sends, Opens, LooksAtTheEnd, GivesUp, WriterDies, readersOwn
  <2>2. ToolsSendNothing'
    BY <1>1, <1>2, <1>5, ChannelAssumption
       DEF ToolsSendNothing, Sends, Opens, LooksAtTheEnd, GivesUp, WriterDies
  <2>3. \A v \in Writers : Latest[v] <= Latest'[v]
    <3>1. CASE Sends(w)
      BY <1>1, <3>1 DEF Sends, Latest
    <3>2. CASE Opens(w)
      BY <1>1, <3>2 DEF Opens, Latest
    <3>3. CASE LooksAtTheEnd(w)
      BY <1>1, <3>3 DEF LooksAtTheEnd, Latest
    <3>4. CASE GivesUp(w)
      BY <1>1, <3>4 DEF GivesUp, Latest
    <3>5. CASE WriterDies(w)
      BY <1>1, <3>5 DEF WriterDies, Latest
    <3> QED BY <1>5, <3>1, <3>2, <3>3, <3>4, <3>5
  <2> QED BY <2>1, <2>2, <2>3, OrderStays
<1> QED BY <1>3, <1>4, <1>5 DEF Appends

(* What the reader does. *)
LEMMA ReaderKeepsOrder ==
  ASSUME FileInv, FileInv', OrderInv, Drains \/ Claims \/ ReaderFails
  PROVE  OrderInv'
<1>1. UNCHANGED <<sends, sent>> /\ ToolsSendNothing
  BY DEF Drains, LooksForTheFile, ClaimFails, Reads, Unlinks, Claims, ReaderFails, writersOwn,
         OrderInv
<1>2. ToolsSendNothing' /\ Latest' = Latest
  BY <1>1 DEF ToolsSendNothing, Latest
<1>3. file \in Lines /\ handed \in Lines /\ claimed \in Lines /\ Latest \in [Writers -> Int]
  BY DEF FileInv, FileTypes, Latest
<1>4. CASE LooksForTheFile \/ ClaimFails \/ Reads \/ ReaderFails
  <2>1. UNCHANGED <<file, handed>>
    BY <1>4 DEF LooksForTheFile, ClaimFails, Reads, ReaderFails
  <2>2. drain' \in {"read", "unlink"} => drain \in {"read", "unlink"} /\ claimed' = claimed
    BY <1>4 DEF LooksForTheFile, ClaimFails, Reads, ReaderFails
  <2>3. \A w \in Writers : Latest[w] <= Latest'[w]
    BY <1>2, <1>3
  <2> QED BY <1>2, <2>1, <2>2, <2>3, OrderStays
<1>5. CASE Claims
  <2>1. claimed' = file /\ file' = <<>> /\ handed' = handed
    BY <1>5 DEF Claims
  <2>2. InOrder(<<>>) /\ UpTo(<<>>, Latest) /\ SentBefore(handed, <<>>) /\ SentBefore(file, <<>>)
    BY DEF InOrder, UpTo, SentBefore
  <2> QED BY <1>2, <2>1, <2>2 DEF OrderInv, InFile, InHanded, InClaimed
<1>6. CASE Unlinks
  <2>1. drain = "unlink" /\ inHand = claimed
    BY <1>6 DEF Unlinks, FileInv, ReadWhole
  <2>2. handed' = handed \o claimed /\ file' = file /\ drain' = "look"
    BY <1>6, <2>1 DEF Unlinks
  <2>3. /\ InOrder(claimed) /\ UpTo(claimed, Latest)
        /\ SentBefore(handed, claimed) /\ SentBefore(claimed, file)
        /\ InOrder(handed) /\ UpTo(handed, Latest)
        /\ InOrder(file) /\ UpTo(file, Latest) /\ SentBefore(handed, file)
    BY <2>1 DEF OrderInv, InFile, InHanded, InClaimed
  <2>4. InOrder(handed') /\ UpTo(handed', Latest) /\ SentBefore(handed', file)
    BY <1>3, <2>2, <2>3, JoinInOrder
  <2> QED BY <1>2, <2>2, <2>3, <2>4 DEF OrderInv, InFile, InHanded, InClaimed
<1> QED BY <1>4, <1>5, <1>6 DEF Drains

(* Whatever is handed on is one verb, and those of a writer come in the     *)
(* order it sent them, once each, for any number of writers, verbs, deaths  *)
(* and failed readers (file_channel.py:79-134).                             *)
THEOREM InTheOrderSent == ChannelsSafety => []VerbsArriveInOrder
<1>1. ChannelsInit => FileInv /\ OrderInv
  BY FileStart, OrderStart DEF ChannelsInit
<1>2. FileInv /\ OrderInv /\ [ChannelsNext]_channelVars => FileInv' /\ OrderInv'
  <2> SUFFICES ASSUME FileInv, OrderInv, [ChannelsNext]_channelVars
               PROVE  FileInv' /\ OrderInv'
    OBVIOUS
  <2>1. CASE OfCommands(FileNext)
    <3>1. FileInv'
      BY <2>1, WritersKeep, ReaderKeeps DEF OfCommands, FileNext
    <3> QED BY <2>1, <3>1, WritersKeepOrder, ReaderKeepsOrder DEF OfCommands, FileNext
  <2>2. CASE OfFrames(FrameNext) \/ UNCHANGED channelVars
    <3>1. UNCHANGED fileVars
      BY <2>2 DEF OfFrames, channelVars
    <3>2. FileInv'
      BY <3>1, FramesLeaveIt
    <3>3. OrderInv'
      BY <3>1 DEF OrderInv, InFile, InHanded, InClaimed, ToolsSendNothing, Latest, fileVars,
                  readersOwn, writersOwn
    <3> QED BY <3>2, <3>3
  <2> QED BY <2>1, <2>2 DEF ChannelsNext
<1>3. OrderInv => VerbsArriveInOrder
  BY DEF OrderInv, InHanded, InOrder, VerbsArriveInOrder
<1> QED BY <1>1, <1>2, <1>3, PTL DEF ChannelsSafety

(***************************************************************************)
(* The mapped frame.                                                       *)
(***************************************************************************)

FrameTypes ==
  /\ sequence \in Int /\ counted \in Int /\ found \in Int /\ cell \in Int
  /\ frames \in Nat /\ foundHeader \in Int
  /\ header \in [token : Nat, frame : Nat]
  /\ pixels \in [1..Cells -> Int] /\ copied \in Seq(Int)
  /\ drawsFor \in Nat \ {0} /\ opening \in Nat \ {0}
  /\ draws \in {"off", "idle", "drawing", "stamp", "done"}
  /\ looks \in {"look", "header", "copy", "check"}

(* While it draws, the writer has the sequence at its own, odd, count.      *)
Marks ==
  /\ draws # "off" => sequence = counted
  /\ draws = "idle" => ~IsOdd(counted)
  /\ draws \in {"drawing", "stamp", "done"} => IsOdd(counted) /\ frames > 0

(* What it has drawn of a frame so far is of that frame. *)
Drawn ==
  /\ draws = "drawing" => \A k \in 1..Cells : k < cell => pixels[k] = frames
  /\ draws \in {"stamp", "done"} => \A k \in 1..Cells : pixels[k] = frames
  /\ draws = "done" => header.frame = frames

(* Under an even sequence lies one frame, or none since a writer started.   *)
Settled ==
  /\ header.token # 0 => header.frame # 0
  /\ ~IsOdd(sequence) /\ header.frame # 0 =>
       \A k \in 1..Cells : pixels[k] = header.frame

(* The sequence only grows past what the reader found; while it is the same *)
(* so is all that was copied.                                               *)
Copied ==
  looks # "look" /\ ~restarted =>
    /\ found <= sequence
    /\ looks \in {"copy", "check"} /\ sequence = found =>
         /\ ~IsOdd(found) /\ header.token # 0 /\ foundHeader = header.frame
         /\ \A k \in 1..Len(copied) : copied[k] = pixels[k]

Progress ==
  /\ looks = "copy" => Len(copied) < Cells
  /\ looks = "check" => Len(copied) = Cells

FrameInv == FrameTypes /\ Marks /\ Drawn /\ Settled /\ Copied /\ Progress

LEMMA FrameStart == FrameInit => FrameInv
  <1> SUFFICES ASSUME FrameInit PROVE FrameInv
    OBVIOUS
  <1>1. FrameTypes
    BY FrameAssumption DEF FrameInit, FrameTypes
  <1>2. Marks /\ Drawn /\ Settled /\ Copied /\ Progress
    BY DEF FrameInit, Marks, Drawn, Settled, Copied, Progress, IsOdd
  <1> QED
    BY <1>1, <1>2 DEF FrameInv

LEMMA Parity == ASSUME NEW n \in Int PROVE IsOdd(n + 1) <=> ~IsOdd(n)
  BY DEF IsOdd

(* A writer marks the sequence before it touches a pixel. *)
LEMMA DrawingKeeps ==
  ASSUME FrameInv, Begins \/ Draws \/ Stamps \/ Finishes
  PROVE  FrameInv'
  <1> USE DEF FrameInv
  <1> USE FrameAssumption
  <1>0. UNCHANGED readerOwn /\ UNCHANGED <<opening, restarted>>
    BY DEF Begins, Draws, Stamps, Finishes
  <1>p. IsOdd(counted + 1) <=> ~IsOdd(counted)
    BY Parity DEF FrameTypes
  <1>1. FrameTypes'
    <2>1. CASE Begins
      <3>1. drawsFor' \in Nat \ {0}
        BY <2>1 DEF Begins, FrameTypes
      <3> QED
        BY <1>0, <2>1, <3>1 DEF Begins, FrameTypes, readerOwn
    <2>2. CASE Draws
      <3>0. pixels \in [1..Cells -> Int] /\ frames \in Int
        BY DEF FrameTypes
      <3>5. pixels' = [pixels EXCEPT ![cell] = frames]
        BY <2>2 DEF Draws
      <3>1. pixels' \in [1..Cells -> Int]
        BY <3>0, <3>5
      <3>2. draws' \in {"stamp", "drawing"}
        BY <2>2 DEF Draws
      <3>3. cell' \in Int
        BY <2>2 DEF Draws, FrameTypes
      <3>4. UNCHANGED <<sequence, header, counted, frames, drawsFor>>
        BY <2>2 DEF Draws
      <3> QED
        BY <1>0, <3>1, <3>2, <3>3, <3>4 DEF FrameTypes, readerOwn
    <2>3. CASE Stamps
      BY <1>0, <2>3 DEF Stamps, FrameTypes, readerOwn
    <2>4. CASE Finishes
      BY <1>0, <2>4 DEF Finishes, FrameTypes, readerOwn
    <2> QED
      BY <2>1, <2>2, <2>3, <2>4
  <1>2. Marks'
    <2>1. CASE Begins
      BY <1>p, <2>1 DEF Begins, Marks, FrameTypes
    <2>2. CASE Draws
      BY <2>2 DEF Draws, Marks
    <2>3. CASE Stamps
      BY <2>3 DEF Stamps, Marks
    <2>4. CASE Finishes
      BY <1>p, <2>4 DEF Finishes, Marks, FrameTypes
    <2> QED
      BY <2>1, <2>2, <2>3, <2>4
  <1>3. Drawn'
    <2>1. CASE Begins
      BY <2>1 DEF Begins, Drawn, FrameTypes
    <2>2. CASE Draws
      <3>1. \A k \in 1..Cells : k < cell' => pixels'[k] = frames
        BY <2>2 DEF Draws, Drawn, FrameTypes
      <3>2. draws' = "stamp" => cell' = Cells + 1
        BY <2>2 DEF Draws
      <3>3. frames' = frames /\ draws' \in {"drawing", "stamp"}
        BY <2>2 DEF Draws
      <3> QED
        BY <3>1, <3>2, <3>3 DEF Drawn
    <2>3. CASE Stamps
      BY <2>3 DEF Stamps, Drawn
    <2>4. CASE Finishes
      BY <2>4 DEF Finishes, Drawn
    <2> QED
      BY <2>1, <2>2, <2>3, <2>4
  <1>4. Settled'
    <2>1. CASE Begins
      <3>1. IsOdd(sequence') /\ header' = header
        BY <1>p, <2>1 DEF Begins, Marks
      <3> QED
        BY <3>1 DEF Settled
    <2>2. CASE Draws
      <3>1. IsOdd(sequence') /\ header' = header
        BY <2>2 DEF Draws, Marks
      <3> QED
        BY <3>1 DEF Settled
    <2>3. CASE Stamps
      <3>1. IsOdd(sequence') /\ header'.frame = frames /\ frames > 0
        BY <2>3 DEF Stamps, Marks
      <3> QED
        BY <3>1 DEF Settled, FrameTypes
    <2>4. CASE Finishes
      <3>1. header' = header /\ pixels' = pixels /\ draws = "done"
        BY <2>4 DEF Finishes
      <3> QED
        BY <3>1 DEF Settled, Drawn
    <2> QED
      BY <2>1, <2>2, <2>3, <2>4
  <1>5. Copied'
    <2>1. CASE Begins \/ Finishes
      <3>1. sequence' > sequence
        BY <2>1 DEF Begins, Finishes, Marks, FrameTypes
      <3> QED
        BY <1>0, <3>1, <1>1 DEF Copied, FrameTypes, readerOwn
    <2>2. CASE Draws \/ Stamps
      <3>1. sequence' = sequence /\ IsOdd(sequence)
        BY <2>2 DEF Draws, Stamps, Marks
      <3> QED
        BY <1>0, <3>1 DEF Copied, FrameTypes, readerOwn
    <2> QED
      BY <2>1, <2>2
  <1>6. Progress'
    BY <1>0 DEF Progress, readerOwn
  <1> QED
    BY <1>1, <1>2, <1>3, <1>4, <1>5, <1>6

(* One that starts or stops says so to nobody: a start is what restarted is *)
(* for, a stop leaves the map.                                              *)
LEMMA StartingKeeps ==
  ASSUME FrameInv, Starts \/ Stops \/ OpensAgain
  PROVE  FrameInv'
  <1> USE DEF FrameInv
  <1>1. CASE Starts
    <2>1. FrameTypes'
      BY <1>1 DEF Starts, FrameTypes, readerOwn
    <2>2. Marks' /\ Drawn'
      BY <1>1 DEF Starts, Marks, Drawn, IsOdd
    <2>3. Settled' /\ Copied' /\ Progress'
      BY <1>1 DEF Starts, Settled, Copied, Progress, readerOwn
    <2> QED
      BY <2>1, <2>2, <2>3
  <1>2. CASE Stops
    BY <1>2 DEF Stops, FrameTypes, Marks, Drawn, Settled, Copied, Progress, map, readerOwn
  <1>3. CASE OpensAgain
    <2>1. UNCHANGED map /\ UNCHANGED writerOwn /\ UNCHANGED readerOwn
            /\ UNCHANGED restarted /\ opening' = opening + 1
      BY <1>3 DEF OpensAgain
    <2>2. FrameTypes'
      BY <2>1 DEF FrameTypes, map, writerOwn, readerOwn
    <2> QED
      BY <2>1, <2>2 DEF Marks, Drawn, Settled, Copied, Progress, map, writerOwn, readerOwn
  <1> QED
    BY <1>1, <1>2, <1>3

(* A reader copies what is there. *)
LEMMA LookingKeeps ==
  ASSUME FrameInv, LooksAtTheSequence \/ LooksAtTheHeader \/ Copies \/ Checks
  PROVE  FrameInv'
  <1> USE DEF FrameInv
  <1> USE FrameAssumption
  <1>0. UNCHANGED map /\ UNCHANGED writerOwn /\ UNCHANGED opening
    BY DEF LooksAtTheSequence, LooksAtTheHeader, Copies, Checks
  <1>1. Marks' /\ Drawn' /\ Settled'
    BY <1>0 DEF Marks, Drawn, Settled, map, writerOwn
  <1>2. CASE LooksAtTheSequence
    <2>1. FrameTypes'
      BY <1>0, <1>2 DEF LooksAtTheSequence, FrameTypes, map, writerOwn
    <2>2. Copied' /\ Progress'
      BY <1>0, <1>2 DEF LooksAtTheSequence, Copied, Progress, FrameTypes, map
    <2> QED
      BY <1>1, <2>1, <2>2
  <1>3. CASE LooksAtTheHeader
    <2>1. copied' = <<>> /\ copied' \in Seq(Int) /\ looks' \in {"copy", "look"}
      BY <1>3 DEF LooksAtTheHeader
    <2>2. FrameTypes'
      BY <1>0, <1>3, <2>1 DEF LooksAtTheHeader, FrameTypes, map, writerOwn
    <2>3. Progress'
      BY <1>3 DEF LooksAtTheHeader, Progress
    <2>4. Copied'
      BY <1>0, <1>3, <2>1 DEF LooksAtTheHeader, WorthCopying, Copied, FrameTypes, map
    <2> QED
      BY <1>1, <2>2, <2>3, <2>4
  <1>4. CASE Copies
    <2>1. Len(copied) + 1 \in 1..Cells
      BY <1>4 DEF Copies, Progress, FrameTypes
    <2>2. /\ copied' = Append(copied, pixels[Len(copied) + 1])
          /\ pixels[Len(copied) + 1] \in Int
      BY <1>4, <2>1 DEF Copies, FrameTypes
    <2>3. /\ copied' \in Seq(Int) /\ Len(copied') = Len(copied) + 1
          /\ \A k \in 1..Len(copied) : copied'[k] = copied[k]
          /\ copied'[Len(copied) + 1] = pixels[Len(copied) + 1]
      BY <2>2 DEF FrameTypes
    <2>4. FrameTypes'
      BY <1>0, <1>4, <2>3 DEF Copies, FrameTypes, map, writerOwn
    <2>5. Progress'
      BY <1>4, <2>1, <2>3 DEF Copies, Progress, FrameTypes
    <2>6. Copied'
      <3>1. UNCHANGED <<found, foundHeader, restarted, sequence, header, pixels>> /\ looks = "copy"
        BY <1>0, <1>4 DEF Copies, map
      <3>2. Len(copied) \in Nat
        BY DEF FrameTypes
      <3>3. (\A k \in 1..Len(copied) : copied[k] = pixels[k])
              => \A k \in 1..Len(copied') : copied'[k] = pixels[k]
        BY <2>3, <3>2
      <3> QED
        BY <3>1, <3>3 DEF Copied
    <2> QED
      BY <1>1, <2>4, <2>5, <2>6
  <1>5. CASE Checks
    <2>1. looks' = "look" /\ UNCHANGED <<found, foundHeader, copied, restarted>>
      BY <1>5 DEF Checks
    <2>2. FrameTypes'
      BY <1>0, <2>1 DEF FrameTypes, map, writerOwn
    <2> QED
      BY <1>1, <2>1, <2>2 DEF Copied, Progress
  <1> QED
    BY <1>2, <1>3, <1>4, <1>5

(* A step of commands leaves the frame. *)
LEMMA CommandsLeaveIt == FrameInv /\ UNCHANGED frameVars => FrameInv'
  BY DEF FrameInv, FrameTypes, Marks, Drawn, Settled, Copied, Progress, frameVars, map,
         readerOwn, writerOwn

(* What is handed on under the sequence found is the frame that lies there. *)
LEMMA WhatIsShown ==
  ASSUME FrameInv, FrameNext, shown' # shown, ~restarted
  PROVE  \A k \in 1..Cells : shown'[2][k] = shown'[1]
  <1> USE DEF FrameInv
  <1>1. Checks
    BY DEF FrameNext, Starts, Begins, Draws, Stamps, Finishes, Stops, LooksAtTheSequence,
           LooksAtTheHeader, Copies, OpensAgain, readerOwn
  <1>2. looks = "check" /\ sequence = found /\ shown' = <<foundHeader, copied>>
    BY <1>1 DEF Checks, NobodyDrew
  <1>3. /\ ~IsOdd(sequence) /\ header.token # 0 /\ foundHeader = header.frame
        /\ \A k \in 1..Len(copied) : copied[k] = pixels[k]
    BY <1>2 DEF Copied
  <1>4. \A k \in 1..Cells : pixels[k] = header.frame
    BY <1>3 DEF Settled
  <1>5. Len(copied) = Cells
    BY <1>2 DEF Progress
  <1> QED
    BY <1>2, <1>3, <1>4, <1>5

(* A frame handed on is one frame, for any number of cells, frames, stops   *)
(* and openings, but for one whose writer started while it was copied       *)
(* (frame_channel.py:31-46, 60-72).                                         *)
THEOREM WholeFrames == ChannelsSafety => FramesAreWhole
  <1>1. ChannelsInit => FrameInv
    BY FrameStart DEF ChannelsInit
  <1>2. FrameInv /\ [ChannelsNext]_channelVars => FrameInv'
    <2> SUFFICES ASSUME FrameInv, [ChannelsNext]_channelVars PROVE FrameInv'
      OBVIOUS
    <2>1. CASE OfFrames(FrameNext)
      BY <2>1, DrawingKeeps, StartingKeeps, LookingKeeps DEF OfFrames, FrameNext
    <2>2. CASE OfCommands(FileNext) \/ UNCHANGED channelVars
      BY <2>2, CommandsLeaveIt DEF OfCommands, channelVars
    <2> QED
      BY <2>1, <2>2 DEF ChannelsNext
  <1>3. FrameInv /\ [ChannelsNext]_channelVars =>
          [shown' # shown /\ ~restarted => \A k \in 1..Cells : shown'[2][k] = shown'[1]]_frameVars
    <2> SUFFICES ASSUME FrameInv, [ChannelsNext]_channelVars, shown' # shown, ~restarted
                 PROVE  \A k \in 1..Cells : shown'[2][k] = shown'[1]
      OBVIOUS
    <2>1. FrameNext
      BY DEF ChannelsNext, OfFrames, OfCommands, channelVars, frameVars, readerOwn
    <2> QED
      BY <2>1, WhatIsShown
  <1> QED
    BY <1>1, <1>2, <1>3, PTL DEF ChannelsSafety, FramesAreWhole

(***************************************************************************)
(* The order of the frames.  They are numbered as they are begun, and the   *)
(* header never goes back to one: it says the frame handed on last only     *)
(* under the sequence that the reader has of it.                            *)
(***************************************************************************)

FramesBegun ==
  /\ shown[1] \in Int /\ read \in Int
  /\ header.frame <= frames /\ shown[1] <= frames /\ foundHeader <= frames
  /\ draws \in {"drawing", "stamp"} =>
       header.frame < frames /\ foundHeader < frames
  /\ draws \in {"drawing", "stamp", "done"} => shown[1] < frames

HeaderOfTheLast ==
  header.frame # 0 =>
    /\ shown[1] <= header.frame
    /\ shown[1] = header.frame =>
         /\ IsOdd(sequence) \/ sequence = read
         /\ looks = "header" => IsOdd(found) \/ found = read

WorthIt ==
  looks \in {"copy", "check"} =>
    /\ shown[1] < foundHeader /\ found # read /\ ~IsOdd(found)
    /\ header.frame # 0 => foundHeader <= header.frame

OnceInv == FramesBegun /\ HeaderOfTheLast /\ WorthIt

(* Nothing is shown and nothing drawn. *)
LEMMA OnceStart == FrameInit => OnceInv
BY DEF FrameInit, OnceInv, FramesBegun, HeaderOfTheLast, WorthIt

(* A writer draws frames that no reader has. *)
LEMMA DrawingIsNew ==
  ASSUME FrameInv, OnceInv, Starts \/ Begins \/ Draws \/ Stamps \/ Finishes \/ Stops
  PROVE  OnceInv'
<1> USE DEF OnceInv
<1>1. UNCHANGED readerOwn
  BY DEF Starts, Begins, Draws, Stamps, Finishes, Stops
<1>2. /\ frames \in Nat /\ header \in [token : Nat, frame : Nat] /\ foundHeader \in Int
      /\ found \in Int /\ sequence \in Int /\ counted \in Int
      /\ shown[1] \in Int /\ read \in Int
  BY DEF FrameInv, FrameTypes, FramesBegun
<1>3. CASE Starts
  BY <1>1, <1>2, <1>3 DEF Starts, FramesBegun, HeaderOfTheLast, WorthIt, readerOwn
<1>4. CASE Begins
  <2>1. /\ frames' = frames + 1 /\ header' = header /\ draws' = "drawing"
        /\ sequence' = counted + 1 /\ draws = "idle"
    BY <1>4 DEF Begins
  <2>2. IsOdd(sequence')
    BY <1>2, <2>1, Parity DEF FrameInv, Marks
  <2> QED BY <1>1, <1>2, <2>1, <2>2 DEF FramesBegun, HeaderOfTheLast, WorthIt, readerOwn
<1>5. CASE Draws
  <2>1. /\ UNCHANGED <<frames, header, sequence>> /\ draws = "drawing"
        /\ draws' \in {"drawing", "stamp"}
    BY <1>5 DEF Draws
  <2> QED BY <1>1, <2>1 DEF FramesBegun, HeaderOfTheLast, WorthIt, readerOwn
<1>6. CASE Stamps
  <2>1. /\ frames' = frames /\ header'.frame = frames /\ draws = "stamp" /\ draws' = "done"
    BY <1>6 DEF Stamps
  <2> QED BY <1>1, <1>2, <2>1 DEF FramesBegun, HeaderOfTheLast, WorthIt, readerOwn
<1>7. CASE Finishes
  <2>1. UNCHANGED <<frames, header>> /\ draws = "done" /\ draws' = "idle"
    BY <1>7 DEF Finishes
  <2>2. header.frame = frames /\ shown[1] < frames
    BY <2>1 DEF FrameInv, Drawn, FramesBegun
  <2> QED BY <1>1, <1>2, <2>1, <2>2 DEF FramesBegun, HeaderOfTheLast, WorthIt, readerOwn
<1>8. CASE Stops
  <2>1. UNCHANGED <<frames, header, sequence>> /\ draws' = "off"
    BY <1>8 DEF Stops, map
  <2> QED BY <1>1, <2>1 DEF FramesBegun, HeaderOfTheLast, WorthIt, readerOwn
<1> QED BY <1>3, <1>4, <1>5, <1>6, <1>7, <1>8

(* A reader takes a frame that is newer than the last it was handed. *)
LEMMA LookingIsNew ==
  ASSUME FrameInv, OnceInv,
         LooksAtTheSequence \/ LooksAtTheHeader \/ Copies \/ Checks \/ OpensAgain
  PROVE  OnceInv'
<1> USE DEF OnceInv
<1>1. UNCHANGED map /\ UNCHANGED writerOwn
  BY DEF LooksAtTheSequence, LooksAtTheHeader, Copies, Checks, OpensAgain
<1>2. UNCHANGED <<sequence, header, draws, frames>>
  BY <1>1 DEF map, writerOwn
<1>3. /\ frames \in Nat /\ header \in [token : Nat, frame : Nat] /\ foundHeader \in Int
      /\ found \in Int /\ sequence \in Int /\ opening \in Nat \ {0}
      /\ shown[1] \in Int /\ read \in Int
  BY DEF FrameInv, FrameTypes, FramesBegun
<1>4. CASE LooksAtTheSequence
  <2>1. found' = sequence /\ looks' = "header" /\ UNCHANGED <<foundHeader, read, shown>>
    BY <1>4 DEF LooksAtTheSequence
  <2> QED BY <1>2, <2>1 DEF FramesBegun, HeaderOfTheLast, WorthIt
<1>5. CASE LooksAtTheHeader
  <2>1. /\ looks = "header" /\ foundHeader' = header.frame /\ UNCHANGED <<found, read, shown>>
        /\ looks' = IF WorthCopying THEN "copy" ELSE "look"
    BY <1>5 DEF LooksAtTheHeader
  <2>2. FramesBegun'
    BY <1>2, <1>3, <2>1 DEF FramesBegun
  <2>3. HeaderOfTheLast'
    BY <1>2, <2>1 DEF HeaderOfTheLast
  <2>4. CASE WorthCopying
    <3>1. ~IsOdd(found) /\ found # read /\ header.frame # 0
      BY <1>3, <2>4 DEF WorthCopying, FrameInv, Settled
    <3>2. shown[1] < header.frame
      BY <1>3, <2>1, <3>1 DEF HeaderOfTheLast
    <3> QED BY <1>2, <1>3, <2>1, <2>2, <2>3, <3>1, <3>2 DEF WorthIt
  <2>5. CASE ~WorthCopying
    BY <2>1, <2>2, <2>3, <2>5 DEF WorthIt
  <2> QED BY <2>4, <2>5
<1>6. CASE Copies
  <2>1. looks = "copy" /\ looks' \in {"copy", "check"}
        /\ UNCHANGED <<found, foundHeader, read, shown>>
    BY <1>6 DEF Copies
  <2> QED BY <1>2, <2>1 DEF FramesBegun, HeaderOfTheLast, WorthIt
<1>7. CASE Checks
  <2>1. looks = "check" /\ looks' = "look" /\ UNCHANGED <<found, foundHeader>>
    BY <1>7 DEF Checks
  <2>2. CASE NobodyDrew
    <3>1. read' = found /\ shown' = <<foundHeader, copied>> /\ sequence = found
      BY <1>7, <2>2 DEF Checks, NobodyDrew
    <3>2. ~IsOdd(sequence) /\ (header.frame # 0 => foundHeader <= header.frame)
      BY <2>1, <3>1 DEF WorthIt
    <3>3. draws \notin {"drawing", "stamp", "done"}
      BY <3>2 DEF FrameInv, Marks
    <3>4. shown'[1] = foundHeader
      BY <3>1
    <3> QED BY <1>2, <1>3, <2>1, <3>1, <3>2, <3>3, <3>4
            DEF FramesBegun, HeaderOfTheLast, WorthIt
  <2>3. CASE ~NobodyDrew
    <3>1. UNCHANGED <<read, shown>>
      BY <1>7, <2>3 DEF Checks
    <3> QED BY <1>2, <2>1, <3>1 DEF FramesBegun, HeaderOfTheLast, WorthIt
  <2> QED BY <2>2, <2>3
<1>8. CASE OpensAgain
  <2>1. UNCHANGED readerOwn
    BY <1>8 DEF OpensAgain
  <2> QED BY <1>2, <2>1 DEF FramesBegun, HeaderOfTheLast, WorthIt, readerOwn
<1> QED BY <1>4, <1>5, <1>6, <1>7, <1>8

(* Whoever draws and however often its writer starts, a reader is handed no *)
(* frame twice and none older than the last (frame_channel.py:64-71).       *)
THEOREM FramesOnce == ChannelsSafety => FramesComeOnce
<1> DEFINE Once ==
      looks = "check" /\ read' = found /\ sequence = found => shown'[1] > shown[1]
<1>1. ChannelsInit => FrameInv /\ OnceInv
  BY FrameStart, OnceStart DEF ChannelsInit
<1>2. FrameInv /\ OnceInv /\ [ChannelsNext]_channelVars => FrameInv' /\ OnceInv'
  <2> SUFFICES ASSUME FrameInv, OnceInv, [ChannelsNext]_channelVars
               PROVE  FrameInv' /\ OnceInv'
    OBVIOUS
  <2>1. CASE OfFrames(FrameNext)
    <3>1. FrameInv'
      BY <2>1, DrawingKeeps, StartingKeeps, LookingKeeps DEF OfFrames, FrameNext
    <3>2. OnceInv'
      BY <2>1, DrawingIsNew, LookingIsNew DEF OfFrames, FrameNext
    <3> QED BY <3>1, <3>2
  <2>2. CASE OfCommands(FileNext) \/ UNCHANGED channelVars
    <3>1. UNCHANGED frameVars
      BY <2>2 DEF OfCommands, channelVars
    <3>2. FrameInv'
      BY <3>1, CommandsLeaveIt
    <3>3. OnceInv'
      BY <3>1 DEF OnceInv, FramesBegun, HeaderOfTheLast, WorthIt, frameVars, map, readerOwn,
                  writerOwn
    <3> QED BY <3>2, <3>3
  <2> QED BY <2>1, <2>2 DEF ChannelsNext
<1>3. FrameInv /\ OnceInv /\ [ChannelsNext]_channelVars => [Once]_frameVars
  <2> SUFFICES ASSUME FrameInv, OnceInv, [ChannelsNext]_channelVars, looks = "check",
                      read' = found, sequence = found, frameVars' # frameVars
               PROVE  shown'[1] > shown[1]
    OBVIOUS
  <2>1. FrameNext
    BY DEF ChannelsNext, OfFrames, OfCommands, channelVars
  <2>2. read' # read /\ shown[1] < foundHeader
    BY DEF OnceInv, WorthIt
  <2>3. Checks
    BY <2>1, <2>2 DEF FrameNext, Starts, Begins, Draws, Stamps, Finishes, Stops,
                      LooksAtTheSequence, LooksAtTheHeader, Copies, OpensAgain, readerOwn
  <2>4. shown' = <<foundHeader, copied>>
    BY <2>3 DEF Checks, NobodyDrew
  <2>5. shown[1] \in Int /\ foundHeader \in Int
    BY DEF FrameInv, FrameTypes, OnceInv, FramesBegun
  <2> QED BY <2>2, <2>4, <2>5
<1> QED BY <1>1, <1>2, <1>3, PTL DEF ChannelsSafety, FramesComeOnce
=============================================================================
