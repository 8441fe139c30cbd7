------------------------------- MODULE MCFamily -------------------------------
(***************************************************************************)
(* Two routes and a pass; two launches; three pids; two landings and a     *)
(* library; three modules to import; two peers; two checkouts; two         *)
(* programs and a tool that append to a command file; a test that was      *)
(* there, two new ones and two definitions; three files, two of them over; *)
(* three siblings, one of them renamed, and the gates of one of them and   *)
(* of an app.                                                              *)
(***************************************************************************)
EXTENDS Family

CONSTANTS
  hotfix1, hotfix2, opening1, opening2, landing1, landing2, library,
  helper1, helper2, player, broker, copy1, copy2, app1, app2,
  main, portrait, tool, double, fixture, shared_ui, voice_core, funestra,
  player_core, program

TwoRoutes == {hotfix1, hotfix2}
TwoOpenings == {opening1, opening2}
ThreePids == {1, 2, 3}
TwoLandings == {landing1, landing2}
OneLibrary == {library}
TwoHelpers == {helper1, helper2}
TwoApps == {player, broker}
TwoCopies == {copy1, copy2}
TwoPids == {4, 5}
TwoCheckouts == {app1, app2}
AllWriters == {main, portrait, tool}
TheTool == {tool}
OneOld == {1}
TwoNew == {2, 3}
TwoDefinitions == {double, fixture}
ThreeFiles == 1..3
TwoAreOver == <<1, 2, 0>>
ThreeSiblings == {shared_ui, voice_core, funestra}
OneWasRenamed == player_core :> funestra
OneOfThemAndAnApp == {funestra, program}
EveryPart == {"hotfix", "screen", "processes", "pins", "sweep", "peers",
              "handoff", "settings", "flakes",
              "ratchet", "siblings", "channels"}
PartsThatGoOn == {"hotfix", "screen", "channels"}
=============================================================================
