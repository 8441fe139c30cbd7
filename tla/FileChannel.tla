------------------------------ MODULE FileChannel ------------------------------
(***************************************************************************)
(* A command file (file_channel.py): programs append verbs to it            *)
(* (append_command) and one program drains it on every tick                 *)
(* (consume_command_file), by renaming it away, reading what it claimed and *)
(* unlinking that.                                                          *)
(*                                                                         *)
(* A line is the sequence of verbs that stand in it: one, if all goes well. *)
(* The n-th verb a writer sends is <<writer, n>>.                           *)
(***************************************************************************)
EXTENDS Integers, Sequences, FiniteSets

CONSTANTS Writers,     \* the programs that append
          Tools,       \* those of them that write a whole file with no line end
          Nobody,      \* outside of Writers
          MaxVerbs,    \* bound: verbs of each writer
          MaxFaults    \* bound: readers that fail or die, writers that die

ASSUME ChannelAssumption ==
  Tools \subseteq Writers /\ Nobody \notin Writers /\ MaxVerbs \in Nat /\ MaxFaults \in Nat

VARIABLES
  file,      \* the lines of the command file; none is a file that is not there
  ended,     \* its last line has its end
  heldBy,    \* the writer that has it open, alone
  claimed,   \* the lines of the claimed file, <name>.consuming
  drain,     \* where the reader is: "look", "claim", "read" or "unlink"
  inHand,    \* the lines it has read
  sends,     \* where each writer is: "idle", "open", "look" or "write"
  end,       \* the end of the file as each writer found it
  sent,      \* how many verbs each has sent
  accepted,  \* the verbs of which append_command said that they are on their way
  handed,    \* history: the lines the reader was handed
  forsaken,  \* history: the verbs that lay in the claimed file at a fault of the reader
  faults

readersOwn == <<claimed, drain, inHand, handed, forsaken>>
writersOwn == <<heldBy, sends, end, sent, accepted>>
fileVars == <<file, ended, readersOwn, writersOwn, faults>>

Verbs == Writers \X (1..MaxVerbs)
VerbsOf(lines) == UNION {{lines[i][j] : j \in DOMAIN lines[i]} : i \in DOMAIN lines}

(***************************************************************************)
(* append_command.                                                         *)
(***************************************************************************)

Sends(w) ==
  /\ sends[w] = "idle" /\ w \notin Tools /\ sent[w] < MaxVerbs
  /\ sends' = [sends EXCEPT ![w] = "open"]
  /\ sent' = [sent EXCEPT ![w] = @ + 1]
  /\ UNCHANGED <<file, ended, heldBy, end, accepted, readersOwn, faults>>

(* A fault: the file is opened as any other. *)
OpensBesideOthers == TRUE

MayOpen == heldBy = Nobody

(* opened_alone: Windows opens it, or makes it, when nobody has it open. *)
Opens(w) ==
  /\ sends[w] = "open" /\ MayOpen
  /\ heldBy' = w
  /\ sends' = [sends EXCEPT ![w] = "look"]
  /\ UNCHANGED <<file, ended, end, sent, accepted, readersOwn, faults>>

(* Every try found it held: the verb is given up, and the caller told. *)
GivesUp(w) ==
  /\ sends[w] = "open" /\ heldBy # Nobody
  /\ sends' = [sends EXCEPT ![w] = "idle"]
  /\ UNCHANGED <<file, ended, heldBy, end, sent, accepted, readersOwn, faults>>

(* Its end is sought, and whether the last line has one. *)
LooksAtTheEnd(w) ==
  /\ sends[w] = "look"
  /\ end' = [end EXCEPT ![w] = Len(file)]
  /\ sends' = [sends EXCEPT ![w] = "write"]
  /\ UNCHANGED <<file, ended, heldBy, sent, accepted, readersOwn, faults>>

(* A fault: the line goes where the file ends, whatever that is. *)
RunOn(lines, verb) ==
  IF ended \/ lines = <<>> THEN Append(lines, <<verb>>)
                           ELSE [lines EXCEPT ![Len(lines)] = Append(@, verb)]

OnALineOfItsOwn(lines, verb) == Append(lines, <<verb>>)

Writes(w) ==
  /\ sends[w] = "write"
  /\ file' = OnALineOfItsOwn(SubSeq(file, 1, end[w]), <<w, sent[w]>>)
  /\ ended' = TRUE
  /\ heldBy' = Nobody
  /\ accepted' = accepted \cup {<<w, sent[w]>>}
  /\ sends' = [sends EXCEPT ![w] = "idle"]
  /\ UNCHANGED <<end, sent, readersOwn, faults>>

(* Nothing is on the disk before the file is closed; Windows closes it. *)
WriterDies(w) ==
  /\ sends[w] # "idle" /\ faults < MaxFaults
  /\ faults' = faults + 1
  /\ heldBy' = IF heldBy = w THEN Nobody ELSE heldBy
  /\ sends' = [sends EXCEPT ![w] = "idle"]
  /\ UNCHANGED <<file, ended, end, sent, accepted, readersOwn>>

(* Anything that writes the file whole where there is none. *)
ToolWrites(w) ==
  /\ w \in Tools /\ sent[w] < MaxVerbs /\ heldBy = Nobody /\ file = <<>>
  /\ file' = <<<<<<w, sent[w] + 1>>>>>>
  /\ ended' = FALSE
  /\ sent' = [sent EXCEPT ![w] = @ + 1]
  /\ accepted' = accepted \cup {<<w, sent[w] + 1>>}
  /\ UNCHANGED <<heldBy, sends, end, readersOwn, faults>>

(***************************************************************************)
(* consume_command_file.                                                   *)
(***************************************************************************)

(* A writer that has just made the file is met by the claim. *)
LooksForTheFile ==
  /\ drain = "look" /\ (file # <<>> \/ heldBy # Nobody)
  /\ drain' = "claim"
  /\ UNCHANGED <<file, ended, writersOwn, claimed, inHand, handed, forsaken, faults>>

(* A fault: os.rename, which does not replace a file left by a fault. *)
ClaimsByRename ==
  /\ drain = "claim" /\ heldBy = Nobody /\ claimed = <<>>
  /\ claimed' = file /\ file' = <<>> /\ ended' = TRUE
  /\ drain' = "read"
  /\ UNCHANGED <<writersOwn, inHand, handed, forsaken, faults>>

(* A fault: the file is copied, and its verbs stay in it. *)
ClaimsACopy ==
  /\ drain = "claim" /\ heldBy = Nobody
  /\ claimed' = file
  /\ drain' = "read"
  /\ UNCHANGED <<file, ended, writersOwn, inHand, handed, forsaken, faults>>

(* os.replace, over a file left by a fault. A writer may have made the file *)
(* and died: then nothing is claimed.                                       *)
Claims ==
  /\ drain = "claim" /\ heldBy = Nobody
  /\ claimed' = file /\ file' = <<>> /\ ended' = TRUE
  /\ drain' = "read"
  /\ UNCHANGED <<writersOwn, inHand, handed, forsaken, faults>>

ClaimFails ==
  /\ drain = "claim" /\ heldBy # Nobody
  /\ drain' = "look"
  /\ UNCHANGED <<file, ended, writersOwn, claimed, inHand, handed, forsaken, faults>>

Reads ==
  /\ drain = "read"
  /\ inHand' = claimed
  /\ drain' = "unlink"
  /\ UNCHANGED <<file, ended, writersOwn, claimed, handed, forsaken, faults>>

Unlinks ==
  /\ drain = "unlink"
  /\ claimed' = <<>>
  /\ handed' = handed \o inHand
  /\ inHand' = <<>>
  /\ drain' = "look"
  /\ UNCHANGED <<file, ended, writersOwn, forsaken, faults>>

(* The claimed file cannot be read or unlinked, or the program ends: what   *)
(* was claimed is not handed on, and its file stays.                        *)
ReaderFails ==
  /\ drain \in {"read", "unlink"} /\ faults < MaxFaults
  /\ faults' = faults + 1
  /\ forsaken' = forsaken \cup VerbsOf(claimed)
  /\ inHand' = <<>>
  /\ drain' = "look"
  /\ UNCHANGED <<file, ended, writersOwn, claimed, handed>>

Appends(w) == Opens(w) \/ LooksAtTheEnd(w) \/ Writes(w)
Drains == LooksForTheFile \/ ClaimFails \/ Reads \/ Unlinks

FileInit ==
  /\ file = <<>> /\ ended = TRUE /\ heldBy = Nobody
  /\ claimed = <<>> /\ drain = "look" /\ inHand = <<>>
  /\ sends = [w \in Writers |-> "idle"]
  /\ end = [w \in Writers |-> 0]
  /\ sent = [w \in Writers |-> 0]
  /\ accepted = {} /\ handed = <<>> /\ forsaken = {}
  /\ faults = 0

FileNext ==
  \/ \E w \in Writers :
       Sends(w) \/ Appends(w) \/ GivesUp(w) \/ WriterDies(w) \/ ToolWrites(w)
  \/ Drains \/ Claims \/ ReaderFails

(***************************************************************************)
(* What it promises.                                                       *)
(***************************************************************************)

(* A line handed on is one verb, and the verbs of a writer are handed on    *)
(* once each, in the order it sent them, whatever wrote before it and       *)
(* whoever died on the way (file_channel.py:95-104, 120, 124-125).          *)
VerbsArriveInOrder ==
  /\ \A i \in DOMAIN handed : Len(handed[i]) = 1
  /\ \A i, j \in DOMAIN handed :
       i < j /\ handed[i][1][1] = handed[j][1][1] => handed[i][1][2] < handed[j][1][2]

(* A verb the writer was told is on its way is in the file, in the reader's *)
(* hands or handed on; only a fault of the reader between its claim and its *)
(* unlink loses any, and only what it had claimed (file_channel.py:79-104,  *)
(* 118-134).                                                                *)
NoVerbIsLost ==
  accepted \subseteq
    VerbsOf(file) \cup VerbsOf(handed) \cup forsaken
      \cup (IF drain \in {"read", "unlink"} THEN VerbsOf(claimed) ELSE {})
=============================================================================
