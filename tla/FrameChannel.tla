----------------------------- MODULE FrameChannel -----------------------------
(***************************************************************************)
(* A frame in a mapped file (frame_channel.py): one program draws, another  *)
(* shows. Nothing locks; a sequence number, odd while a frame is drawn,     *)
(* tells the reader that what it copied was not drawn over meanwhile. A     *)
(* writer that starts again counts from zero over the pixels of the last.   *)
(*                                                                         *)
(* The map is its sequence, the rest of its header and cells of pixels; a   *)
(* frame is a number, the n-th ever drawn, and an opening is the token a    *)
(* frame is drawn for.                                                      *)
(***************************************************************************)
EXTENDS Integers, Sequences

CONSTANTS Cells,       \* the parts of a frame that are written one after another
          MaxFrames,   \* bound: frames drawn
          MaxOpenings, \* bound: times the window is opened
          MaxStarts    \* bound: times the writer is started

ASSUME FrameAssumption ==
  /\ Cells \in Nat \ {0} /\ MaxFrames \in Nat
  /\ MaxOpenings \in Nat \ {0} /\ MaxStarts \in Nat

VARIABLES
  sequence,  \* the sequence in the map
  header,    \* [token, frame]: the opening and the frame whose size it is
  pixels,    \* the frame each cell is of
  draws,     \* where the writer is: "off", "idle", "drawing", "stamp" or "done"
  cell,      \* the cell it writes next
  counted,   \* its own count, _sequence
  frames,    \* how many frames were ever begun
  starts,
  drawsFor,  \* the opening it draws for
  opening,   \* the opening shown now
  looks,     \* where the reader is: "look", "header", "copy" or "check"
  found,     \* the sequence it found first
  foundHeader,
  copied,    \* the cells it has copied
  read,      \* the sequence of the frame it was last handed
  shown,     \* history: that frame, as <<header, cells>>
  restarted  \* history: the writer was started again since the reader looked

writerOwn == <<draws, cell, counted, frames, starts, drawsFor>>
readerOwn == <<looks, found, foundHeader, copied, read, shown>>
map == <<sequence, header, pixels>>
frameVars == <<map, writerOwn, readerOwn, opening, restarted>>

IsOdd(n) == n % 2 = 1

(***************************************************************************)
(* FrameWriter.                                                            *)
(***************************************************************************)

Starts ==
  /\ draws = "off" /\ starts < MaxStarts
  /\ starts' = starts + 1
  /\ sequence' = 0 /\ counted' = 0
  /\ header' = [token |-> 0, frame |-> 0]
  /\ draws' = "idle"
  /\ restarted' = TRUE
  /\ UNCHANGED <<pixels, cell, frames, drawsFor, readerOwn, opening>>

(* writing() is entered, for the opening the writer knows of. *)
Begins ==
  /\ draws = "idle" /\ frames < MaxFrames
  /\ frames' = frames + 1
  /\ counted' = counted + 1
  /\ sequence' = counted + 1
  /\ drawsFor' \in drawsFor..opening
  /\ draws' = "drawing" /\ cell' = 1
  /\ UNCHANGED <<header, pixels, starts, readerOwn, opening, restarted>>

Draws ==
  /\ draws = "drawing"
  /\ pixels' = [pixels EXCEPT ![cell] = frames]
  /\ cell' = cell + 1
  /\ draws' = IF cell = Cells THEN "stamp" ELSE "drawing"
  /\ UNCHANGED <<sequence, header, counted, frames, starts, drawsFor, readerOwn, opening, restarted>>

Stamps ==
  /\ draws = "stamp"
  /\ header' = [token |-> drawsFor, frame |-> frames]
  /\ sequence' = counted
  /\ draws' = "done"
  /\ UNCHANGED <<pixels, cell, counted, frames, starts, drawsFor, readerOwn, opening, restarted>>

(* writing() is left. *)
Finishes ==
  /\ draws = "done"
  /\ counted' = counted + 1
  /\ sequence' = counted + 1
  /\ draws' = "idle"
  /\ UNCHANGED <<header, pixels, cell, frames, starts, drawsFor, readerOwn, opening, restarted>>

(* close, or the program ended: at any place. *)
Stops ==
  /\ draws # "off"
  /\ draws' = "off"
  /\ UNCHANGED <<map, cell, counted, frames, starts, drawsFor, readerOwn, opening, restarted>>

(***************************************************************************)
(* FrameReader.                                                            *)
(***************************************************************************)

(* The header is taken byte by byte: first the sequence, then the rest. *)
LooksAtTheSequence ==
  /\ looks = "look" /\ starts > 0
  /\ found' = sequence
  /\ restarted' = FALSE
  /\ looks' = "header"
  /\ UNCHANGED <<map, writerOwn, opening, foundHeader, copied, read, shown>>

(* A fault: only a frame half drawn is passed over. *)
WorthCopyingAgain == ~IsOdd(found) /\ header.token = opening

WorthCopying == ~IsOdd(found) /\ found # read /\ header.token = opening

LooksAtTheHeader ==
  /\ looks = "header"
  /\ foundHeader' = header.frame
  /\ copied' = <<>>
  /\ looks' = IF WorthCopying THEN "copy" ELSE "look"
  /\ UNCHANGED <<map, writerOwn, opening, found, read, shown, restarted>>

Copies ==
  /\ looks = "copy"
  /\ copied' = Append(copied, pixels[Len(copied) + 1])
  /\ looks' = IF Len(copied) + 1 = Cells THEN "check" ELSE "copy"
  /\ UNCHANGED <<map, writerOwn, opening, found, foundHeader, read, shown, restarted>>

(* A fault: a frame that is not being drawn is taken for the one found. *)
NobodyDraws == ~IsOdd(sequence)

NobodyDrew == sequence = found

Checks ==
  /\ looks = "check"
  /\ looks' = "look"
  /\ IF NobodyDrew
       THEN read' = found /\ shown' = <<foundHeader, copied>>
       ELSE UNCHANGED <<read, shown>>
  /\ UNCHANGED <<map, writerOwn, opening, found, foundHeader, copied, restarted>>

(* The window is opened again: the reader asks for the frames of that opening. *)
OpensAgain ==
  /\ looks = "look" /\ opening < MaxOpenings
  /\ opening' = opening + 1
  /\ UNCHANGED <<map, writerOwn, readerOwn, restarted>>

FrameInit ==
  /\ sequence = 0 /\ header = [token |-> 0, frame |-> 0]
  /\ pixels = [k \in 1..Cells |-> 0]
  /\ draws = "off" /\ cell = 1 /\ counted = 0 /\ frames = 0 /\ starts = 0
  /\ drawsFor = 1 /\ opening = 1
  /\ looks = "look" /\ found = 0 /\ foundHeader = 0 /\ copied = <<>> /\ read = 0
  /\ shown = <<0, <<>>>>
  /\ restarted = FALSE

FrameNext ==
  \/ Starts \/ Begins \/ Draws \/ Stamps \/ Finishes \/ Stops
  \/ LooksAtTheSequence \/ LooksAtTheHeader \/ Copies \/ Checks \/ OpensAgain

(***************************************************************************)
(* What it promises.                                                       *)
(***************************************************************************)

(* What the reader is handed is one frame, its header and all its pixels,   *)
(* unless the writer was started again while it looked: the sequence then   *)
(* counts from zero and may come to where it was (frame_channel.py:31-46,   *)
(* 60-72).                                                                  *)
FramesAreWhole ==
  [][shown' # shown /\ ~restarted =>
       \A k \in 1..Cells : shown'[2][k] = shown'[1]]_frameVars

(* The reader is handed no frame twice and none older than one before, over *)
(* any number of writers and their sequences (frame_channel.py:64-71).      *)
FramesComeOnce ==
  [][looks = "check" /\ read' = found /\ sequence = found =>
       shown'[1] > shown[1]]_frameVars

(* "A frame already read is not read again" (tests/test_frame_channel.py),  *)
(* and only such a one: a reader that finds a whole frame of its opening    *)
(* passes it over only when it was handed pixels of that frame              *)
(* (frame_channel.py:64-71).                                                *)
OnlyAFrameReadIsPassedOver ==
  [][looks = "header" /\ looks' = "look" /\ ~IsOdd(found) /\ sequence = found
       /\ header.token = opening =>
         \E k \in 1..Cells : header.frame = shown[2][k]]_frameVars
=============================================================================
