-------------------------------- MODULE Peers --------------------------------
(***************************************************************************)
(* Two apps that keep each other up (peer_watch.py), each known to be up   *)
(* by its named mutex (win32.py), and the marker that says one was closed  *)
(* on purpose.  How an app uses the two is the apps' own and external: it  *)
(* takes its mutex, clears its marker, and stands down before it goes.     *)
(***************************************************************************)
EXTENDS Integers

CONSTANTS
  Apps,       \* the two apps
  AppCopies,  \* copies of an app that may run at once
  NoCopy,     \* nobody has the mutex
  MaxTrouble  \* bound: copies that die and markers that cannot be used

ASSUME PeersAssumption ==
  /\ \E p, q \in Apps : p # q /\ Apps = {p, q}
  /\ NoCopy \notin AppCopies /\ MaxTrouble \in Nat

VARIABLES
  copies,   \* by app and copy: "none", "starting", "up" or "closing"
  mutex,    \* by app: the copy that has it
  marker,   \* by app: closed on purpose
  watch,    \* by app: "idle", "down" (its peer was seen down) or "launch"
  meant,    \* history: by app, its last end was meant and its marker written
  crossed,  \* history: by app, its peer came up again since the look
  trouble

peerVars == <<copies, mutex, marker, watch, meant, crossed, trouble>>

PeersInit ==
  /\ copies = [p \in Apps |-> [c \in AppCopies |-> "none"]]
  /\ mutex = [p \in Apps |-> NoCopy]
  /\ marker = [p \in Apps |-> FALSE]
  /\ meant = marker
  /\ watch = [p \in Apps |-> "idle"]
  /\ crossed = [p \in Apps |-> FALSE]
  /\ trouble = 0

PeerOf(p) == CHOOSE q \in Apps : q # p
IsUp(p) == mutex[p] # NoCopy
Becomes(p, c, state) == copies' = [copies EXCEPT ![p][c] = state]
Troubled == trouble < MaxTrouble /\ trouble' = trouble + 1

(***************************************************************************)
(* Copies of an app.                                                       *)
(***************************************************************************)

HeStarts(p, c) ==
  /\ copies[p][c] = "none" /\ Becomes(p, c, "starting")
  /\ UNCHANGED <<mutex, marker, watch, meant, crossed, trouble>>

(* A second copy finds the mutex held, and exits. *)
ExitsBesideAnother(p, c) ==
  /\ copies[p][c] = "starting" /\ IsUp(p)
  /\ Becomes(p, c, "none")
  /\ UNCHANGED <<mutex, marker, watch, meant, crossed, trouble>>

(* try_acquire_mutex, and clear_stand_down, which may not be able to. *)
ComesUp(p, c) ==
  /\ copies[p][c] = "starting" /\ ~IsUp(p)
  /\ Becomes(p, c, "up") /\ mutex' = [mutex EXCEPT ![p] = c]
  /\ \/ marker' = [marker EXCEPT ![p] = FALSE] /\ UNCHANGED trouble
     \/ Troubled /\ UNCHANGED marker
  /\ meant' = [meant EXCEPT ![p] = FALSE]
  /\ crossed' = [crossed EXCEPT ![PeerOf(p)] = TRUE]
  /\ UNCHANGED watch

(* stand_down, which may not be able to write ... *)
StandsDown(p, c) ==
  /\ copies[p][c] = "up" /\ Becomes(p, c, "closing")
  /\ \/ marker' = [marker EXCEPT ![p] = TRUE] /\ UNCHANGED trouble
     \/ Troubled /\ UNCHANGED marker
  /\ meant' = [meant EXCEPT ![p] = marker'[p]]
  /\ UNCHANGED <<mutex, watch, crossed>>

GoesAway(p, c) ==
  /\ Becomes(p, c, "none")
  /\ mutex' = IF mutex[p] = c THEN [mutex EXCEPT ![p] = NoCopy] ELSE mutex
  /\ watch' = IF mutex[p] = c THEN [watch EXCEPT ![p] = "idle"] ELSE watch

(* ... and only then does it go. *)
GoesDown(p, c) ==
  /\ copies[p][c] = "closing" /\ GoesAway(p, c)
  /\ UNCHANGED <<marker, meant, crossed, trouble>>

(* Windows closes the mutex of a copy that dies. *)
Dies(p, c) ==
  /\ copies[p][c] # "none" /\ Troubled /\ GoesAway(p, c)
  /\ UNCHANGED <<marker, meant, crossed>>

(***************************************************************************)
(* PeerWatch.tick of the copy that is up.                                  *)
(***************************************************************************)

Watches(p) == \E c \in AppCopies : mutex[p] = c /\ copies[p][c] = "up"

(* A fault: a peer that is not stood down is taken for down. *)
AsksTheMarkerAlone(p) ==
  /\ Watches(p) /\ watch[p] = "idle"
  /\ ~marker[PeerOf(p)]
  /\ watch' = [watch EXCEPT ![p] = "down"]
  /\ crossed' = [crossed EXCEPT ![p] = FALSE]
  /\ UNCHANGED <<copies, mutex, marker, meant, trouble>>

SeesItsPeerDown(p) ==
  /\ Watches(p) /\ watch[p] = "idle"
  /\ ~IsUp(PeerOf(p))
  /\ watch' = [watch EXCEPT ![p] = "down"]
  /\ crossed' = [crossed EXCEPT ![p] = FALSE]
  /\ UNCHANGED <<copies, mutex, marker, meant, trouble>>

(* Stood down, or started; a marker that cannot be looked at holds nobody
   down.                                                                  *)
LooksAtTheMarker(p) ==
  /\ watch[p] = "down"
  /\ watch' = [watch EXCEPT ![p] = IF marker[PeerOf(p)] THEN "idle" ELSE "launch"]
  /\ UNCHANGED <<copies, mutex, marker, meant, crossed, trouble>>

CannotLookAtTheMarker(p) ==
  /\ watch[p] = "down" /\ Troubled
  /\ watch' = [watch EXCEPT ![p] = "launch"]
  /\ meant' = [meant EXCEPT ![PeerOf(p)] = FALSE]
  /\ UNCHANGED <<copies, mutex, marker, crossed>>

LaunchesItsPeer(p) ==
  /\ watch[p] = "launch"
  /\ \E c \in AppCopies : copies[PeerOf(p)][c] = "none" /\ Becomes(PeerOf(p), c, "starting")
  /\ watch' = [watch EXCEPT ![p] = "idle"]
  /\ UNCHANGED <<mutex, marker, meant, crossed, trouble>>

(* What launch raises is logged, and the next look is an interval away. *)
CannotLaunch(p) ==
  /\ watch[p] = "launch" /\ Troubled
  /\ watch' = [watch EXCEPT ![p] = "idle"]
  /\ UNCHANGED <<copies, mutex, marker, meant, crossed>>

CopyStep(p, c) ==
  \/ HeStarts(p, c) \/ ExitsBesideAnother(p, c) \/ ComesUp(p, c)
  \/ StandsDown(p, c) \/ GoesDown(p, c) \/ Dies(p, c)

Tick(p) ==
  \/ SeesItsPeerDown(p) \/ LooksAtTheMarker(p) \/ CannotLookAtTheMarker(p)
  \/ LaunchesItsPeer(p) \/ CannotLaunch(p)

PeersNext == \E p \in Apps : Tick(p) \/ \E c \in AppCopies : CopyStep(p, c)

PeersSpec == PeersInit /\ [][PeersNext]_peerVars

(***************************************************************************)
(* Properties.                                                             *)
(***************************************************************************)

(* A watch never goes on to start a peer whose last end was meant, although
   the peer may go at any point of its look: unless the peer came up and
   was closed again within the look (peer_watch.py:80-93).                *)
WhatHeClosedStaysClosed ==
  \A p \in Apps : watch[p] = "launch" /\ meant[PeerOf(p)] => crossed[p]
=============================================================================
