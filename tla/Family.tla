-------------------------------- MODULE Family --------------------------------
(***************************************************************************)
(* The parts of app_support that programs of the family use beside the     *)
(* updater, the OSR2 slot and the channels.  They share no state, so a     *)
(* behaviour is of one of them; what each is fair about is stated once.    *)
(***************************************************************************)
EXTENDS Hotfix, LoadingScreen, Processes, NewestPins, ImportSweep, Peers,
        Handoff, WindowsSettings, Flakes, Ratchet, Siblings, Channels

CONSTANT Parts  \* those of them that are looked at

VARIABLE part   \* which of them this behaviour is of

ASSUME FamilyAssumption ==
  Parts \subseteq {"hotfix", "screen", "processes", "pins", "sweep", "peers",
                   "handoff", "settings", "flakes", "ratchet", "siblings",
                   "channels"}

familyVars == <<part, hotfixVars, screenVars, processVars, pinVars, sweepVars,
                peerVars, handoffVars, settingsVars, flakeVars, ratchetVars,
                siblingVars, channelVars>>

FamilyInit ==
  /\ part \in Parts
  /\ HotfixInit /\ ScreenInit /\ ProcessesInit /\ PinsInit /\ SweepInit
  /\ PeersInit /\ HandoffInit /\ SettingsInit /\ FlakesInit /\ RatchetInit
  /\ SiblingsInit /\ ChannelsInit
  /\ channel = "frames" => part = "channels"
  /\ fork # Plain => part = "flakes"
  /\ pictures => part = "screen"

OfHotfix(A) ==
  part = "hotfix" /\ A /\ UNCHANGED
    <<part, screenVars, processVars, pinVars, sweepVars, peerVars,
      handoffVars, settingsVars, flakeVars, ratchetVars, siblingVars, channelVars>>
OfScreen(A) ==
  part = "screen" /\ A /\ UNCHANGED
    <<part, hotfixVars, processVars, pinVars, sweepVars, peerVars,
      handoffVars, settingsVars, flakeVars, ratchetVars, siblingVars, channelVars>>
OfProcesses(A) ==
  part = "processes" /\ A /\ UNCHANGED
    <<part, hotfixVars, screenVars, pinVars, sweepVars, peerVars,
      handoffVars, settingsVars, flakeVars, ratchetVars, siblingVars, channelVars>>
OfPins(A) ==
  part = "pins" /\ A /\ UNCHANGED
    <<part, hotfixVars, screenVars, processVars, sweepVars, peerVars,
      handoffVars, settingsVars, flakeVars, ratchetVars, siblingVars, channelVars>>
OfSweep(A) ==
  part = "sweep" /\ A /\ UNCHANGED
    <<part, hotfixVars, screenVars, processVars, pinVars, peerVars,
      handoffVars, settingsVars, flakeVars, ratchetVars, siblingVars, channelVars>>
OfPeers(A) ==
  part = "peers" /\ A /\ UNCHANGED
    <<part, hotfixVars, screenVars, processVars, pinVars, sweepVars,
      handoffVars, settingsVars, flakeVars, ratchetVars, siblingVars, channelVars>>
OfHandoff(A) ==
  part = "handoff" /\ A /\ UNCHANGED
    <<part, hotfixVars, screenVars, processVars, pinVars, sweepVars,
      peerVars, settingsVars, flakeVars, ratchetVars, siblingVars, channelVars>>
OfSettings(A) ==
  part = "settings" /\ A /\ UNCHANGED
    <<part, hotfixVars, screenVars, processVars, pinVars, sweepVars,
      peerVars, handoffVars, flakeVars, ratchetVars, siblingVars, channelVars>>
OfFlakes(A) ==
  part = "flakes" /\ A /\ UNCHANGED
    <<part, hotfixVars, screenVars, processVars, pinVars, sweepVars,
      peerVars, handoffVars, settingsVars, ratchetVars, siblingVars, channelVars>>
OfRatchet(A) ==
  part = "ratchet" /\ A /\ UNCHANGED
    <<part, hotfixVars, screenVars, processVars, pinVars, sweepVars,
      peerVars, handoffVars, settingsVars, flakeVars, siblingVars, channelVars>>
OfSiblings(A) ==
  part = "siblings" /\ A /\ UNCHANGED
    <<part, hotfixVars, screenVars, processVars, pinVars, sweepVars,
      peerVars, handoffVars, settingsVars, flakeVars, ratchetVars, channelVars>>
OfChannels(A) ==
  part = "channels" /\ A /\ UNCHANGED
    <<part, hotfixVars, screenVars, processVars, pinVars, sweepVars,
      peerVars, handoffVars, settingsVars, flakeVars, ratchetVars, siblingVars>>

FamilyNext ==
  \/ OfHotfix(HotfixNext)
  \/ OfScreen(ScreenNext)
  \/ OfProcesses(ProcessesNext)
  \/ OfPins(PinsNext)
  \/ OfSweep(SweepNext)
  \/ OfPeers(PeersNext)
  \/ OfHandoff(HandoffNext)
  \/ OfSettings(SettingsNext)
  \/ OfFlakes(FlakesNext)
  \/ OfRatchet(RatchetNext)
  \/ OfSiblings(SiblingsNext)
  \/ OfChannels(ChannelsNext)

FamilySafety == FamilyInit /\ [][FamilyNext]_familyVars

(* A pass that is begun goes on, and his app closes and his steps succeed
   now and then.  Scripts, screens and the run of the updater go on, and a
   dialog is answered.  Commands are as ChannelsSpec has them.            *)
FamilySpec ==
  /\ FamilySafety
  /\ \A a \in Passes : WF_hotfixVars(part = "hotfix" /\ BringsUp(a))
  /\ SF_hotfixVars(part = "hotfix" /\ TakesTurn(Updater))
  /\ SF_hotfixVars(part = "hotfix" /\ CarriesOut(Updater))
  /\ WF_screenVars(part = "screen" /\ TimePasses)
  /\ \A l \in Openings :
       /\ WF_screenVars(part = "screen" /\ script[l] # "out" /\ ScriptStep(l))
       /\ WF_screenVars(part = "screen" /\ ScreenStep(l))
       /\ WF_screenVars(part = "screen" /\ UpdaterEnds(l))
  /\ \A w \in Writers :
       WF_channelVars(part = "channels" /\ OfCommands(Appends(w)))
  /\ WF_channelVars(part = "channels" /\ OfCommands(Drains))
  /\ SF_channelVars(part = "channels" /\ OfCommands(Claims))
=============================================================================
