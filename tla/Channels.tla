------------------------------- MODULE Channels -------------------------------
(***************************************************************************)
(* The two channels by which programs of the family meet in a file: the     *)
(* command file and the mapped frame. They do not touch each other, so a    *)
(* behaviour is of one of them.                                             *)
(***************************************************************************)
EXTENDS FileChannel, FrameChannel

VARIABLE channel  \* which one this behaviour is of
channelVars == <<channel, fileVars, frameVars>>

ChannelsInit == channel \in {"commands", "frames"} /\ FileInit /\ FrameInit

OfCommands(A) == channel = "commands" /\ A /\ UNCHANGED <<channel, frameVars>>
OfFrames(A) == channel = "frames" /\ A /\ UNCHANGED <<channel, fileVars>>

ChannelsNext == OfCommands(FileNext) \/ OfFrames(FrameNext)

ChannelsSafety == ChannelsInit /\ [][ChannelsNext]_channelVars

(* A writer that tries goes on, and the program that drains does so on      *)
(* every tick. Its claim has to succeed now and then: a writer holds the    *)
(* file for a moment. Nobody has to send, draw or look at frames.           *)
ChannelsSpec ==
  /\ ChannelsSafety
  /\ \A w \in Writers : WF_channelVars(OfCommands(Appends(w)))
  /\ WF_channelVars(OfCommands(Drains))
  /\ SF_channelVars(OfCommands(Claims))

(* A verb that is on its way is handed on, unless the reader failed over    *)
(* what it had claimed; a file such a failure left is in nobody's way       *)
(* (file_channel.py:112-134).                                               *)
EveryVerbArrives ==
  \A v \in Verbs : v \in accepted ~> v \in VerbsOf(handed) \cup forsaken
=============================================================================
