----------------------------- MODULE FamilyProofs -----------------------------
(***************************************************************************)
(* What holds of the loading screen, of two peers, of the handoff, of the  *)
(* newest pins, of the import sweep and of the gates of siblings for any   *)
(* number of launches, copies, pids, landings, helpers and siblings.       *)
(***************************************************************************)
EXTENDS LoadingScreen, Peers, Handoff, NewestPins, ImportSweep,
        Siblings, TLAPS

(***************************************************************************)
(* The loading screen.  A cancel that counts is in the folder, and an app  *)
(* that was started has a script that looks for it no more.                *)
(***************************************************************************)

CancelsAreThere ==
  \A l \in Openings : canceled[l] => "canceled" \in flags /\ script[l] \in Before
StartedLast ==
  \A l \in Openings : app[l] # "none" => script[l] \in {"say", "watch", "dialog", "ended"}
ScreenInv == ScreenTypeOK /\ CancelsAreThere /\ StartedLast

(* The types of every variable hold at first and over each step. *)
LEMMA ScreenInitially == ScreenInit => ScreenInv
BY DEF ScreenInit, ScreenInv, ScreenTypeOK, CancelsAreThere, StartedLast, ScriptSteps

(* No step of a script, its screen, updater or app breaks the invariant. *)
LEMMA ScreenKept == ScreenInv /\ [ScreenNext]_screenVars => ScreenInv'
<1> SUFFICES ASSUME ScreenInv, [ScreenNext]_screenVars PROVE ScreenInv'
  OBVIOUS
<1> USE DEF ScreenInv, ScreenTypeOK, CancelsAreThere, StartedLast, ScriptSteps,
            Before, SaidAtEachLaunch, Step, Say
<1>1. ASSUME NEW l \in Openings, ScriptStep(l) PROVE ScreenInv'
  <2>1. CASE Shows(l) BY <2>1 DEF Shows
  <2>2. CASE CatchesUp(l) BY <2>2 DEF CatchesUp
  <2>3. CASE HoldsGates(l) BY <2>3 DEF HoldsGates
  <2>4. CASE Prepares(l) BY <2>4 DEF Prepares
  <2>5. CASE GoesOn(l) BY <2>5 DEF GoesOn
  <2>6. CASE StopsIfCanceled(l) BY <2>6 DEF StopsIfCanceled
  <2>7. CASE ScriptEnds(l) BY <2>7 DEF ScriptEnds
  <2>8. CASE RunsTheApp(l) BY <2>8 DEF RunsTheApp
  <2>9. CASE SaysStarted(l) BY <2>9 DEF SaysStarted
  <2>10. CASE SeesItUp(l) BY <2>10 DEF SeesItUp
  <2>11. CASE RefusesTheLaunch(l) BY <2>11 DEF RefusesTheLaunch, TakesDown
  <2> QED BY <1>1, <2>1, <2>2, <2>3, <2>4, <2>5, <2>6, <2>7, <2>8, <2>9, <2>10,
             <2>11 DEF ScriptStep
<1>2. ASSUME NEW l \in Openings, UpdaterEnds(l) PROVE ScreenInv'
  BY <1>2 DEF UpdaterEnds
<1>3. ASSUME NEW l \in Openings, AppComesUp(l) PROVE ScreenInv'
  BY <1>3 DEF AppComesUp
<1>4. ASSUME NEW l \in Openings, AppExits(l) PROVE ScreenInv'
  <2>1. CASE Say("ended") BY <1>4, <2>1 DEF AppExits
  <2>2. CASE UNCHANGED flags BY <1>4, <2>2 DEF AppExits
  <2> QED BY <1>4, <2>1, <2>2 DEF AppExits
<1>5. ASSUME NEW l \in Openings, ScreenStep(l) PROVE ScreenInv'
  <2>1. CASE Polls(l) BY <2>1 DEF Polls
  <2>2. CASE Cancels(l)
    <3>1. /\ flags' = flags \cup {"canceled"}
          /\ UNCHANGED <<script, app, late, updater, ready, pictures>>
      BY <2>2 DEF Cancels
    <3>2. screen' = [screen EXCEPT ![l] = "gone"]
      BY <2>2 DEF Cancels
    <3>3. canceled' = [canceled EXCEPT ![l] = script[l] \in Before]
      BY <2>2 DEF Cancels
    <3>4. canceled' \in [Openings -> BOOLEAN]
      <4>1. canceled \in [Openings -> BOOLEAN]
        OBVIOUS
      <4>2. \A b \in BOOLEAN : [canceled EXCEPT ![l] = b] \in [Openings -> BOOLEAN]
        BY <4>1
      <4> HIDE DEF Before
      <4>3. CASE script[l] \in Before
        <5>1. (script[l] \in Before) = TRUE BY <4>3
        <5> QED BY <3>3, <4>2, <5>1, Zenon
      <4>4. CASE script[l] \notin Before
        <5>1. (script[l] \in Before) = FALSE BY <4>4
        <5> QED BY <3>3, <4>2, <5>1, Zenon
      <4> QED BY <4>3, <4>4
    <3>5. ASSUME NEW k \in Openings, canceled'[k] PROVE script[k] \in Before
      <4>1. CASE k = l BY <3>3, <3>5, <4>1
      <4>2. CASE k # l BY <3>3, <3>5, <4>2
      <4> QED BY <4>1, <4>2
    <3> QED BY <3>1, <3>2, <3>4, <3>5
  <2> QED BY <1>5, <2>1, <2>2 DEF ScreenStep
<1>6. ASSUME NEW l \in Openings, LooksToCancel(l) PROVE ScreenInv'
  BY <1>6 DEF LooksToCancel
<1>7. CASE TimePasses
  BY <1>7 DEF TimePasses
<1>8. ASSUME NEW l \in Openings, LeavesPictures(l) PROVE ScreenInv'
  BY <1>8 DEF LeavesPictures
<1>9. CASE UNCHANGED screenVars
  BY <1>9 DEF screenVars
<1> QED
  BY <1>1, <1>2, <1>3, <1>4, <1>5, <1>6, <1>7, <1>8, <1>9 DEF ScreenNext

(* A launch canceled before its script looked for the last time does not
   run the app, for any number of launches of it.                         *)
THEOREM CancelsAreHeeded == ScreenSpec => []ACancelIsHeeded
<1>1. ScreenInv => ACancelIsHeeded
  BY DEF ScreenInv, ScreenTypeOK, CancelsAreThere, StartedLast, ACancelIsHeeded, Before
<1> QED BY ScreenInitially, ScreenKept, <1>1, PTL DEF ScreenSpec

(***************************************************************************)
(* Two peers.  Who is up has the mutex, so a peer that is down when it is  *)
(* looked at stands down only after it came up again.                      *)
(***************************************************************************)

PeersTypeOK ==
  /\ copies \in [Apps -> [AppCopies -> {"none", "starting", "up", "closing"}]]
  /\ mutex \in [Apps -> AppCopies \cup {NoCopy}]
  /\ marker \in [Apps -> BOOLEAN]
  /\ watch \in [Apps -> {"idle", "down", "launch"}]
  /\ meant \in [Apps -> BOOLEAN]
  /\ crossed \in [Apps -> BOOLEAN]
MeantIsMarked == \A p \in Apps : meant[p] => marker[p]
TheHolderIsUp ==
  \A p \in Apps, c \in AppCopies : copies[p][c] \in {"up", "closing"} => mutex[p] = c
SeenDownIsDown ==
  \A p \in Apps : watch[p] # "idle" /\ ~crossed[p] => mutex[PeerOf(p)] = NoCopy
PeersInv ==
  PeersTypeOK /\ MeantIsMarked /\ TheHolderIsUp /\ SeenDownIsDown
  /\ WhatHeClosedStaysClosed

(* Each of the two is the peer of the other. *)
LEMMA PeersOfEachOther ==
  \A p \in Apps : PeerOf(p) \in Apps /\ PeerOf(p) # p
                  /\ \A q \in Apps : q # p => PeerOf(p) = q
<1> SUFFICES ASSUME NEW p \in Apps
             PROVE PeerOf(p) \in Apps /\ PeerOf(p) # p
                   /\ \A q \in Apps : q # p => PeerOf(p) = q
  OBVIOUS
<1>1. PICK a, b \in Apps : a # b /\ Apps = {a, b}
  BY PeersAssumption
<1>2. \E q \in Apps : q # p
  BY <1>1
<1>3. PeerOf(p) \in Apps /\ PeerOf(p) # p
  BY <1>2 DEF PeerOf
<1> QED BY <1>1, <1>3

(* The invariant of the two apps holds before either was started. *)
LEMMA PeersInitially == PeersInit => PeersInv
BY DEF PeersInit, PeersInv, PeersTypeOK, MeantIsMarked, TheHolderIsUp, SeenDownIsDown,
       WhatHeClosedStaysClosed

(* No step of a copy or of a look breaks it. *)
LEMMA PeersKept == PeersInv /\ [PeersNext]_peerVars => PeersInv'
<1> SUFFICES ASSUME PeersInv, [PeersNext]_peerVars PROVE PeersInv'
  OBVIOUS
<1> USE PeersOfEachOther, PeersAssumption
    DEF PeersInv, PeersTypeOK, MeantIsMarked, TheHolderIsUp, SeenDownIsDown,
        WhatHeClosedStaysClosed, Becomes, Troubled, IsUp
<1>1. ASSUME NEW p \in Apps, Tick(p) PROVE PeersInv'
  <2>1. CASE SeesItsPeerDown(p) BY <2>1 DEF SeesItsPeerDown
  <2>2. CASE LooksAtTheMarker(p) BY <2>2 DEF LooksAtTheMarker
  <2>3. CASE CannotLookAtTheMarker(p) BY <2>3 DEF CannotLookAtTheMarker
  <2>4. CASE LaunchesItsPeer(p) BY <2>4 DEF LaunchesItsPeer
  <2>5. CASE CannotLaunch(p) BY <2>5 DEF CannotLaunch
  <2> QED BY <1>1, <2>1, <2>2, <2>3, <2>4, <2>5 DEF Tick
<1>2. ASSUME NEW p \in Apps, NEW c \in AppCopies, CopyStep(p, c) PROVE PeersInv'
  <2>1. CASE HeStarts(p, c) BY <2>1 DEF HeStarts
  <2>2. CASE ExitsBesideAnother(p, c) BY <2>2 DEF ExitsBesideAnother
  <2>3. CASE ComesUp(p, c)
    <3>1. copies' = [copies EXCEPT ![p][c] = "up"] /\ mutex' = [mutex EXCEPT ![p] = c]
          /\ mutex[p] = NoCopy
      BY <2>3 DEF ComesUp
    <3>2. meant' = [meant EXCEPT ![p] = FALSE] /\ watch' = watch
          /\ crossed' = [crossed EXCEPT ![PeerOf(p)] = TRUE]
      BY <2>3 DEF ComesUp
    <3>3. marker' = marker \/ marker' = [marker EXCEPT ![p] = FALSE]
      BY <2>3 DEF ComesUp
    <3>4. PeersTypeOK'
      BY <3>1, <3>2, <3>3
    <3>5. MeantIsMarked'
      BY <3>2, <3>3
    <3>6. TheHolderIsUp'
      BY <3>1
    <3>7. SeenDownIsDown'
      <4> SUFFICES ASSUME NEW q \in Apps, watch[q] # "idle", ~crossed'[q]
                   PROVE mutex'[PeerOf(q)] = NoCopy
        BY <3>2
      <4>1. q # PeerOf(p)
        BY <3>2
      <4>2. PeerOf(q) # p
        BY <4>1
      <4> QED BY <3>1, <3>2, <4>1, <4>2
    <3>8. WhatHeClosedStaysClosed'
      BY <3>2
    <3> QED BY <3>4, <3>5, <3>6, <3>7, <3>8
  <2>4. CASE StandsDown(p, c)
    <3>1. copies' = [copies EXCEPT ![p][c] = "closing"] /\ copies[p][c] = "up"
          /\ UNCHANGED <<mutex, watch, crossed>>
      BY <2>4 DEF StandsDown
    <3>2. marker' = marker \/ marker' = [marker EXCEPT ![p] = TRUE]
      BY <2>4 DEF StandsDown
    <3>3. marker' \in [Apps -> BOOLEAN]
      BY <3>2
    <3>4. meant' = [meant EXCEPT ![p] = marker'[p]]
      BY <2>4 DEF StandsDown
    <3>5. \A q \in Apps : meant'[q] = (IF q = p THEN marker'[p] ELSE meant[q])
      BY <3>4
    <3>6. meant' \in [Apps -> BOOLEAN]
      BY <3>3, <3>4
    <3>7. MeantIsMarked'
      BY <3>2, <3>5
    <3>8. PeersTypeOK'
      BY <3>1, <3>3, <3>6
    <3>9. TheHolderIsUp' /\ mutex[p] = c
      BY <3>1
    <3>10. SeenDownIsDown'
      BY <3>1
    <3>11. WhatHeClosedStaysClosed'
      <4> SUFFICES ASSUME NEW q \in Apps, watch[q] = "launch", meant'[PeerOf(q)]
                   PROVE crossed[q]
        BY <3>1
      <4>1. CASE PeerOf(q) = p
        BY <3>9, <4>1
      <4>2. CASE PeerOf(q) # p
        BY <3>5, <4>2
      <4> QED BY <4>1, <4>2
    <3> QED BY <3>7, <3>8, <3>9, <3>10, <3>11
  <2>5. CASE GoesDown(p, c) BY <2>5 DEF GoesDown, GoesAway
  <2>6. CASE Dies(p, c) BY <2>6 DEF Dies, GoesAway
  <2> QED BY <1>2, <2>1, <2>2, <2>3, <2>4, <2>5, <2>6 DEF CopyStep
<1>3. CASE UNCHANGED peerVars
  BY <1>3 DEF peerVars
<1> QED BY <1>1, <1>2, <1>3 DEF PeersNext

(* An app whose last end was meant is never started by its peer, for any
   number of copies and faults.                                           *)
THEOREM ClosedStaysClosed == PeersSpec => []WhatHeClosedStaysClosed
<1>1. PeersInv => WhatHeClosedStaysClosed
  BY DEF PeersInv
<1> QED BY PeersInitially, PeersKept, <1>1, PTL DEF PeersSpec

(***************************************************************************)
(* The handoff.  What waits in the middle of a take is what is taken, or   *)
(* came in between.                                                        *)
(***************************************************************************)

HandoffTypeOK == given \in Nat /\ waits \in Nat /\ taker \in [CopyPids -> Nat]
WhatATakeUnlinks ==
  (\E p \in CopyPids : taker[p] # 0) => waits \in taken \cup crossing \cup {0}
HandoffInv == HandoffTypeOK /\ WhatATakeUnlinks /\ TakeoversArrive

(* The invariant of the handoff holds before anything was handed over. *)
LEMMA HandoffInitially == HandoffInit => HandoffInv
BY DEF HandoffInit, HandoffInv, HandoffTypeOK, WhatATakeUnlinks, TakeoversArrive

(* No step of a copy or a session breaks it. *)
LEMMA HandoffKept == HandoffInv /\ [HandoffNext]_handoffVars => HandoffInv'
<1> SUFFICES ASSUME HandoffInv, [HandoffNext]_handoffVars PROVE HandoffInv'
  OBVIOUS
<1> USE DEF HandoffInv, HandoffTypeOK, WhatATakeUnlinks, TakeoversArrive
<1>1. ASSUME NEW p \in CopyPids, CopyActs(p) PROVE HandoffInv'
  <2>1. CASE ProcessBegins(p) BY <2>1 DEF ProcessBegins
  <2>2. CASE ProcessDies(p) BY <2>2 DEF ProcessDies
  <2>3. CASE Withdraws(p) BY <2>3 DEF Withdraws
  <2>4. ASSUME NEW starting \in BOOLEAN, OffersItself(p, starting) PROVE HandoffInv'
    BY <2>4 DEF OffersItself
  <2>5. CASE ReadsTakeover(p) BY <2>5 DEF ReadsTakeover
  <2>6. CASE UnlinksTakeover(p) BY <2>6 DEF UnlinksTakeover
  <2> QED BY <1>1, <2>1, <2>2, <2>3, <2>4, <2>5, <2>6 DEF CopyActs
<1>2. CASE FindsACopy BY <1>2 DEF FindsACopy
<1>3. CASE StagesTakeover BY <1>3 DEF StagesTakeover
<1>4. CASE HandsOver
  <2>1. given' = given + 1 /\ waits' = given + 1 /\ UNCHANGED <<taker, taken>>
    BY <1>4 DEF HandsOver, HandedOver
  <2>2. replaced' = replaced \cup ({waits} \ {0})
    BY <1>4 DEF HandsOver, HandedOver
  <2>3. crossing' = IF \E p \in CopyPids : taker[p] # 0
                      THEN crossing \cup {given'} ELSE crossing
    BY <1>4 DEF HandsOver, HandedOver
  <2> QED BY <2>1, <2>2, <2>3
<1>5. CASE UNCHANGED handoffVars
  BY <1>5 DEF handoffVars
<1> QED BY <1>1, <1>2, <1>3, <1>4, <1>5 DEF HandoffNext

(* No takeover is lost over the deaths of copies, for any number of them:
   it is taken or waits, unless another was put over it or it came in the
   middle of a take.                                                      *)
THEOREM EveryTakeoverArrives == HandoffSpec => []TakeoversArrive
<1>1. HandoffInv => TakeoversArrive
  BY DEF HandoffInv
<1> QED BY HandoffInitially, HandoffKept, <1>1, PTL DEF HandoffSpec

(***************************************************************************)
(* The newest pins.  A branch never pins less than what it was made from.  *)
(***************************************************************************)

OneEach == [Libraries -> Int]
PinsTypeOK ==
  /\ released \in OneEach /\ pinned \in OneEach
  /\ branch \in [base : OneEach, pins : OneEach] \cup {NoBranch}
  /\ text \in [Landings -> OneEach]
  /\ newest \in [Landings -> OneEach]
BranchesGoForward ==
  branch # NoBranch => \A l \in Libraries : branch.pins[l] >= branch.base[l]
PinsInv == PinsTypeOK /\ BranchesGoForward

(* What is taken is of the type of pins, and nowhere below them. *)
LEMMA TakenGoesForward ==
  ASSUME PinsInv, NEW r \in Landings
  PROVE Taken(r) \in OneEach /\ \A l \in Libraries : Taken(r)[l] >= text[r][l]
<1>1. text[r] \in OneEach /\ newest[r] \in OneEach
  BY DEF PinsInv, PinsTypeOK
<1> QED BY <1>1 DEF Taken, NewestTaken, OneEach

(* The invariant holds where every library is at its first release. *)
LEMMA PinsInitially == PinsInit => PinsInv
BY DEF PinsInit, PinsInv, PinsTypeOK, BranchesGoForward, First, OneEach

(* No step of a landing or of GitHub breaks it, or takes a pin back. *)
LEMMA PinsKept ==
  PinsInv /\ [PinsNext]_pinVars
  => PinsInv' /\ [\A l \in Libraries : pinned'[l] >= pinned[l]]_pinVars
<1> SUFFICES ASSUME PinsInv, [PinsNext]_pinVars
             PROVE PinsInv' /\ \A l \in Libraries : pinned'[l] >= pinned[l]
  OBVIOUS
<1>1. ASSUME UNCHANGED <<released, pinned, branch>>, text' \in [Landings -> OneEach],
             newest' \in [Landings -> OneEach]
      PROVE PinsInv' /\ \A l \in Libraries : pinned'[l] >= pinned[l]
  BY <1>1 DEF PinsInv, PinsTypeOK, BranchesGoForward, OneEach
<1>2. text \in [Landings -> OneEach] /\ newest \in [Landings -> OneEach]
      /\ released \in OneEach /\ pinned \in OneEach
  BY DEF PinsInv, PinsTypeOK
<1>3. ASSUME NEW r \in Landings,
             ReadsProject(r) \/ ReadsTags(r) \/ LooksForPull(r) \/ LooksAtTheOffer(r)
             \/ LooksAtTheQueue(r) \/ Offers(r) \/ Arms(r) \/ ClosesPull(r) \/ FailsToLand(r)
      PROVE /\ UNCHANGED <<released, pinned, branch>>
            /\ text' \in [Landings -> OneEach] /\ newest' \in [Landings -> OneEach]
  <2>1. CASE ReadsProject(r) BY <1>2, <2>1 DEF ReadsProject, gitHub
  <2>2. CASE ReadsTags(r) BY <1>2, <2>2 DEF ReadsTags, gitHub
  <2>3. CASE LooksForPull(r) BY <1>2, <2>3 DEF LooksForPull, gitHub
  <2>4. CASE LooksAtTheOffer(r) BY <1>2, <2>4 DEF LooksAtTheOffer, gitHub, own
  <2>5. CASE LooksAtTheQueue(r) BY <1>2, <2>5 DEF LooksAtTheQueue, gitHub, own
  <2>6. CASE Offers(r) BY <1>2, <2>6 DEF Offers
  <2>7. CASE Arms(r) BY <1>2, <2>7 DEF Arms, own
  <2>8. CASE ClosesPull(r) BY <1>2, <2>8 DEF ClosesPull, own
  <2>9. CASE FailsToLand(r) BY <1>2, <2>9 DEF FailsToLand, gitHub, own
  <2> QED BY <1>3, <2>1, <2>2, <2>3, <2>4, <2>5, <2>6, <2>7, <2>8, <2>9
<1>4. ASSUME NEW r \in Landings, Points(r)
      PROVE PinsInv' /\ \A l \in Libraries : pinned'[l] >= pinned[l]
  <2>1. branch' = [base |-> text[r], pins |-> Taken(r)]
        /\ UNCHANGED <<released, pinned, text, newest>>
    BY <1>4 DEF Points, own
  <2>2. text[r] \in OneEach
    BY <1>2
  <2>3. branch'.base = text[r] /\ branch'.pins = Taken(r)
    BY <2>1
  <2>4. BranchesGoForward'
    BY <2>3, TakenGoesForward DEF BranchesGoForward
  <2>5. PinsTypeOK'
    BY <1>2, <2>1, <2>2, TakenGoesForward DEF PinsTypeOK
  <2> QED BY <1>2, <2>1, <2>4, <2>5 DEF PinsInv, OneEach
<1>5. ASSUME NEW r \in Landings, DeletesBranch(r)
      PROVE PinsInv' /\ \A l \in Libraries : pinned'[l] >= pinned[l]
  BY <1>2, <1>5 DEF DeletesBranch, own, PinsInv, PinsTypeOK, BranchesGoForward, OneEach
<1>6. ASSUME Queues PROVE PinsInv' /\ \A l \in Libraries : pinned'[l] >= pinned[l]
  BY <1>1, <1>2, <1>6 DEF Queues, own
<1>7. ASSUME Merges PROVE PinsInv' /\ \A l \in Libraries : pinned'[l] >= pinned[l]
  <2>1. branch # NoBranch /\ UNCHANGED <<released, branch, text, newest>>
    BY <1>7 DEF Merges, own
  <2>2. branch.base \in OneEach /\ branch.pins \in OneEach
        /\ \A l \in Libraries : branch.pins[l] >= branch.base[l]
    BY <2>1 DEF PinsInv, PinsTypeOK, BranchesGoForward
  <2>3. \/ pinned' = pinned
        \/ pinned' = [l \in Libraries |-> IF pinned[l] = branch.base[l]
                                            THEN branch.pins[l] ELSE pinned[l]]
    BY <1>7 DEF Merges
  <2>4. pinned' \in OneEach /\ \A l \in Libraries : pinned'[l] >= pinned[l]
    BY <1>2, <2>2, <2>3 DEF OneEach
  <2> QED BY <2>1, <2>4 DEF PinsInv, PinsTypeOK, BranchesGoForward
<1>8. ASSUME NEW l \in Libraries, Releases(l) \/ PinsByHand(l)
      PROVE PinsInv' /\ \A k \in Libraries : pinned'[k] >= pinned[k]
  <2>1. UNCHANGED <<branch, text, newest>>
    BY <1>8 DEF Releases, PinsByHand, own
  <2>2. released' \in OneEach /\ pinned' \in OneEach
        /\ \A k \in Libraries : pinned'[k] >= pinned[k]
    BY <1>2, <1>8 DEF Releases, PinsByHand, OneEach
  <2> QED BY <2>1, <2>2 DEF PinsInv, PinsTypeOK, BranchesGoForward
<1>9. ASSUME UNCHANGED pinVars
      PROVE PinsInv' /\ \A l \in Libraries : pinned'[l] >= pinned[l]
  BY <1>1, <1>2, <1>9 DEF pinVars
<1> QED BY <1>1, <1>3, <1>4, <1>5, <1>6, <1>7, <1>8, <1>9 DEF PinsNext

(* No pull request of any number of landings takes a repository back to an
   older release of a library.                                            *)
THEOREM PinsGoForward == PinsSpec => PinsNeverGoBack
BY PinsInitially, PinsKept, PTL DEF PinsSpec, PinsNeverGoBack

(***************************************************************************)
(* What a landing mends that nothing crosses.  While it is alone, what it  *)
(* read is so, and what it wrote lies there; what is queued has a branch.  *)
(***************************************************************************)

LandingSteps == {"out", "tags", "pull", "offered", "queue", "point", "offer", "arm",
                 "close", "delete", "ended"}
LandingsTypeOK ==
  /\ landing \in [Landings -> LandingSteps]
  /\ known \in [Landings -> Nat] /\ pull \in Nat /\ pulls \in Nat
QueuedIsThere == queued => branch # NoBranch
OnItsOwn(r) ==
  /\ \A k \in Landings : k # r => landing[k] \in {"out", "ended"}
  /\ landing[r] \notin {"out", "ended"} => text[r] = pinned
  /\ landing[r] \in {"offered", "queue", "point", "offer", "arm"} => known[r] = pull
  /\ landing[r] = "queue" => pull # 0
  /\ landing[r] \in {"offer", "arm"} => branch # NoBranch /\ branch.pins = Taken(r)
  /\ landing[r] = "arm" => pull # 0
  /\ landing[r] \in {"close", "delete"} => Taken(r) = text[r]
Mended(r) ==
  \/ NewestTaken(pinned, newest[r]) = pinned
  \/ pull # 0 /\ branch # NoBranch
     /\ (queued \/ branch.pins = NewestTaken(pinned, newest[r]))
AloneInv ==
  \A r \in Landings : alone[r] => OnItsOwn(r) /\ (landing[r] = "ended" => Mended(r))
MendInv == LandingsTypeOK /\ QueuedIsThere /\ AloneInv

(* Nobody lands at first. *)
LEMMA MendInitially == PinsInit => MendInv
BY DEF PinsInit, MendInv, LandingsTypeOK, LandingSteps, QueuedIsThere, AloneInv

(* What a landing does, every step of it. *)
LandingStep(r) ==
  \/ ReadsProject(r) \/ ReadsTags(r) \/ LooksForPull(r)
  \/ LooksAtTheOffer(r) \/ LooksAtTheQueue(r) \/ Points(r) \/ Offers(r)
  \/ Arms(r) \/ ClosesPull(r) \/ DeletesBranch(r) \/ FailsToLand(r)

(* Where a landing goes, and that it writes nothing of another. *)
LEMMA OneLands ==
  ASSUME MendInv, NEW r \in Landings, LandingStep(r)
  PROVE  /\ landing' = [landing EXCEPT ![r] = landing'[r]]
         /\ landing[r] # "ended" /\ landing'[r] \in LandingSteps \ {"out"}
         /\ LandingsTypeOK' /\ QueuedIsThere'
<1> USE DEF MendInv, LandingsTypeOK, LandingSteps, QueuedIsThere, At, gitHub, own
<1>1. CASE ReadsProject(r) BY <1>1 DEF ReadsProject
<1>2. CASE ReadsTags(r) BY <1>2 DEF ReadsTags
<1>3. CASE LooksForPull(r)
  <2>1. \E s \in {"offered", "ended", "close"} : landing' = [landing EXCEPT ![r] = s]
    BY <1>3 DEF LooksForPull
  <2> QED BY <1>3, <2>1 DEF LooksForPull
<1>4. CASE LooksAtTheOffer(r)
  <2>1. \E s \in {"point", "ended", "queue"} : landing' = [landing EXCEPT ![r] = s]
    BY <1>4 DEF LooksAtTheOffer
  <2> QED BY <1>4, <2>1 DEF LooksAtTheOffer
<1>5. CASE LooksAtTheQueue(r) BY <1>5 DEF LooksAtTheQueue
<1>6. CASE Points(r) BY <1>6 DEF Points
<1>7. CASE Offers(r) BY <1>7 DEF Offers
<1>8. CASE Arms(r) BY <1>8 DEF Arms
<1>9. CASE ClosesPull(r) BY <1>9 DEF ClosesPull
<1>10. CASE DeletesBranch(r) BY <1>10 DEF DeletesBranch
<1>11. CASE FailsToLand(r) BY <1>11 DEF FailsToLand
<1> QED BY <1>1, <1>2, <1>3, <1>4, <1>5, <1>6, <1>7, <1>8, <1>9, <1>10, <1>11 DEF LandingStep

(* A landing that begins is alone only if no other is under way, and it has
   just read what is pinned.                                              *)
LEMMA BeginsOnItsOwn ==
  ASSUME PinsInv, MendInv, NEW r \in Landings, ReadsProject(r)
  PROVE  AloneInv'
<1> SUFFICES ASSUME NEW k \in Landings, alone'[k]
             PROVE  OnItsOwn(k)' /\ (landing'[k] = "ended" => Mended(k)')
  BY DEF AloneInv
<1>1. k = r /\ Underway = {}
  BY DEF ReadsProject
<1>2. \A l \in Landings : l # r => landing[l] \in {"out", "ended"}
  BY <1>1 DEF Underway
<1>3. landing' = [landing EXCEPT ![r] = "tags"] /\ text' = [text EXCEPT ![r] = pinned]
      /\ pinned' = pinned
  BY DEF ReadsProject, At, gitHub
<1>4. landing \in [Landings -> LandingSteps]
  BY DEF MendInv, LandingsTypeOK
<1>5. landing'[r] = "tags" /\ \A l \in Landings : l # r => landing'[l] = landing[l]
  BY <1>3, <1>4
<1> HIDE DEF LandingSteps
<1>6. text'[r] = pinned'
  BY <1>3 DEF PinsInv, PinsTypeOK
<1> QED BY <1>1, <1>2, <1>5, <1>6 DEF OnItsOwn

(* From there each of its steps leaves it what its next one counts on. *)
LEMMA GoesOnOnItsOwn ==
  ASSUME PinsInv, MendInv, NEW r \in Landings, LandingStep(r), ~ReadsProject(r), alone'[r]
  PROVE  OnItsOwn(r)' /\ (landing'[r] = "ended" => Mended(r)')
<1>1. /\ landing' = [landing EXCEPT ![r] = landing'[r]] /\ landing[r] # "ended"
      /\ landing \in [Landings -> LandingSteps] /\ LandingsTypeOK
  BY OneLands DEF MendInv, LandingsTypeOK
<1>2. ~FailsToLand(r)
  BY DEF FailsToLand, NobodyIsAlone
<1>3. alone' = alone
  BY <1>2 DEF LandingStep, ReadsTags, LooksForPull, LooksAtTheOffer, LooksAtTheQueue, Points,
              Offers, Arms, ClosesPull, DeletesBranch
<1>4. alone[r] /\ OnItsOwn(r)
  BY <1>3 DEF MendInv, AloneInv
<1>5. \A k \in Landings : k # r => landing'[k] \in {"out", "ended"}
  BY <1>1, <1>4 DEF OnItsOwn
<1>6. landing[r] # "out"
  BY <1>2 DEF LandingStep, ReadsTags, LooksForPull, LooksAtTheOffer, LooksAtTheQueue, Points,
              Offers, Arms, ClosesPull, DeletesBranch
<1>7. text[r] = pinned
  BY <1>1, <1>4, <1>6 DEF OnItsOwn
<1> USE DEF LandingsTypeOK, At, gitHub, own
<1>8. CASE ReadsTags(r)
  <2>1. landing'[r] = "pull" /\ UNCHANGED <<text, pinned>>
    BY <1>1, <1>8 DEF ReadsTags
  <2> QED BY <1>5, <1>7, <2>1 DEF OnItsOwn
<1>9. CASE LooksForPull(r)
  <2>1. known'[r] = pull /\ UNCHANGED <<text, newest, pinned, pull, Taken(r)>>
    BY <1>1, <1>9 DEF LooksForPull, Taken
  <2>2. \/ landing'[r] = "offered"
        \/ landing'[r] \in {"ended", "close"} /\ Taken(r) = text[r]
    BY <1>1, <1>9 DEF LooksForPull
  <2>3. CASE landing'[r] = "offered"
    BY <1>5, <1>7, <2>1, <2>3 DEF OnItsOwn
  <2>4. CASE landing'[r] \in {"ended", "close"} /\ Taken(r) = text[r]
    <3>1. NewestTaken(pinned, newest[r]) = pinned
      BY <1>7, <2>4 DEF Taken
    <3> QED BY <1>5, <1>7, <2>1, <2>4, <3>1 DEF OnItsOwn, Mended
  <2> QED BY <2>2, <2>3, <2>4
<1>10. CASE LooksAtTheOffer(r)
  <2>1. /\ UNCHANGED <<text, newest, pinned, pull, branch, known, queued, Taken(r)>>
        /\ landing[r] = "offered" /\ known[r] = pull
    BY <1>4, <1>10 DEF LooksAtTheOffer, Taken, OnItsOwn
  <2>2. \/ landing'[r] = "point"
        \/ landing'[r] = "queue" /\ known[r] # 0
        \/ landing'[r] = "ended" /\ known[r] # 0 /\ branch # NoBranch /\ branch.pins = Taken(r)
    BY <1>1, <1>10 DEF LooksAtTheOffer
  <2> QED BY <1>5, <1>7, <2>1, <2>2 DEF OnItsOwn, Mended, Taken
<1>11. CASE LooksAtTheQueue(r)
  <2>1. /\ UNCHANGED <<text, newest, pinned, pull, branch, known, queued, Taken(r)>>
        /\ landing[r] = "queue" /\ known[r] = pull /\ pull # 0
    BY <1>4, <1>11 DEF LooksAtTheQueue, Taken, OnItsOwn
  <2>2. landing'[r] = "point" \/ (landing'[r] = "ended" /\ queued)
    BY <1>1, <1>11 DEF LooksAtTheQueue
  <2>3. CASE landing'[r] = "point"
    BY <1>5, <1>7, <2>1, <2>3 DEF OnItsOwn
  <2>4. CASE landing'[r] = "ended" /\ queued
    <3>1. branch # NoBranch
      BY <2>4 DEF MendInv, QueuedIsThere
    <3> QED BY <1>5, <2>1, <2>4, <3>1 DEF OnItsOwn, Mended
  <2> QED BY <2>2, <2>3, <2>4
<1>12. CASE Points(r)
  <2>1. /\ UNCHANGED <<text, newest, pinned, pull, known, Taken(r)>>
        /\ landing[r] = "point" /\ known[r] = pull
        /\ branch' = [base |-> text[r], pins |-> Taken(r)]
    BY <1>4, <1>12 DEF Points, Taken, OnItsOwn
  <2>2. branch' \in [base : OneEach, pins : OneEach] /\ branch'.pins = Taken(r)
    <3>1. Taken(r) \in OneEach /\ text[r] \in OneEach
      BY TakenGoesForward DEF PinsInv, PinsTypeOK
    <3> QED BY <2>1, <3>1
  <2>3. branch' # NoBranch
    BY <2>2, PinsAssumption DEF OneEach
  <2>4. landing'[r] = "offer" \/ (landing'[r] = "arm" /\ pull # 0)
    BY <1>1, <1>12, <2>1 DEF Points
  <2>5. Taken(r)' = Taken(r) /\ branch'.pins = Taken(r)'
    BY <2>1, <2>2
  <2>6. text'[r] = pinned' /\ known'[r] = pull' /\ pull' = pull
    BY <1>7, <2>1
  <2> HIDE DEF LandingSteps
  <2> QED BY <1>5, <2>3, <2>4, <2>5, <2>6 DEF OnItsOwn
<1>13. CASE Offers(r)
  <2>1. /\ UNCHANGED <<text, newest, pinned, branch, Taken(r)>>
        /\ landing'[r] = "arm" /\ landing[r] = "offer" /\ known'[r] = pull'
    BY <1>1, <1>13 DEF Offers, Taken
  <2>2. pull' # 0
    BY <1>1, <1>13 DEF Offers
  <2> QED BY <1>4, <1>5, <1>7, <2>1, <2>2 DEF OnItsOwn
<1>14. CASE Arms(r)
  <2>1. /\ UNCHANGED <<text, newest, pinned, pull, branch, known, queued, Taken(r)>>
        /\ landing[r] = "arm" /\ landing'[r] = "ended"
    BY <1>1, <1>14 DEF Arms, Taken
  <2> QED BY <1>4, <1>5, <1>7, <2>1 DEF OnItsOwn, Mended, Taken
<1>15. CASE ClosesPull(r)
  <2>1. /\ UNCHANGED <<text, newest, pinned, Taken(r)>>
        /\ landing[r] = "close" /\ landing'[r] = "delete"
    BY <1>1, <1>15 DEF ClosesPull, Taken
  <2> QED BY <1>4, <1>5, <1>7, <2>1 DEF OnItsOwn
<1>16. CASE DeletesBranch(r)
  <2>1. /\ UNCHANGED <<text, newest, pinned, Taken(r)>>
        /\ landing[r] = "delete" /\ landing'[r] = "ended"
    BY <1>1, <1>16 DEF DeletesBranch, Taken
  <2> QED BY <1>4, <1>5, <1>7, <2>1 DEF OnItsOwn, Mended, Taken
<1> QED BY <1>2, <1>8, <1>9, <1>10, <1>11, <1>12, <1>13, <1>14, <1>15, <1>16 DEF LandingStep

(* No other lands while one is alone: a step of another would have been the
   first of it, and ended that.                                           *)
LEMMA LandingsMend ==
  ASSUME PinsInv, MendInv, NEW r \in Landings, LandingStep(r)
  PROVE  MendInv'
<1>1. CASE ReadsProject(r)
  BY <1>1, BeginsOnItsOwn, OneLands DEF MendInv
<1>2. CASE ~ReadsProject(r)
  <2> SUFFICES ASSUME NEW k \in Landings, alone'[k]
               PROVE  OnItsOwn(k)' /\ (landing'[k] = "ended" => Mended(k)')
    BY OneLands DEF MendInv, AloneInv
  <2>1. CASE k = r
    BY <1>2, <2>1, GoesOnOnItsOwn
  <2>2. CASE k # r
    <3>1. alone' = alone \/ alone' = [l \in Landings |-> FALSE]
      BY <1>2 DEF LandingStep, ReadsTags, LooksForPull, LooksAtTheOffer, LooksAtTheQueue,
                  Points, Offers, Arms, ClosesPull, DeletesBranch, FailsToLand, NobodyIsAlone
    <3>2. alone[k]
      BY <3>1
    <3>3. landing[r] = "out"
      BY <2>2, <3>2, OneLands DEF MendInv, AloneInv, OnItsOwn
    <3> QED BY <1>2, <3>3 DEF LandingStep, ReadsTags, LooksForPull, LooksAtTheOffer,
                  LooksAtTheQueue, Points, Offers, Arms, ClosesPull, DeletesBranch, FailsToLand
  <2> QED BY <2>1, <2>2
<1> QED BY <1>1, <1>2

(* GitHub queues; a merge, a release or a pin by hand leaves nobody alone. *)
LEMMA GitHubMends ==
  ASSUME PinsInv, MendInv,
         Queues \/ Merges \/ (\E l \in Libraries : Releases(l) \/ PinsByHand(l))
  PROVE  MendInv'
<1> USE DEF MendInv, LandingsTypeOK, QueuedIsThere, AloneInv
<1>1. CASE Queues
  <2>1. /\ UNCHANGED <<pinned, branch, pull, pulls, landing, text, newest, known, alone>>
        /\ branch # NoBranch /\ queued' = TRUE
    BY <1>1 DEF Queues, own
  <2>2. LandingsTypeOK' /\ QueuedIsThere'
    BY <2>1
  <2>3. ASSUME NEW r \in Landings, alone[r]
        PROVE  OnItsOwn(r)' /\ (landing'[r] = "ended" => Mended(r)')
    <3>1. OnItsOwn(r) /\ (landing[r] = "ended" => Mended(r))
      BY <2>3
    <3>2. Taken(r)' = Taken(r)
      BY <2>1 DEF Taken
    <3> QED BY <2>1, <3>1, <3>2 DEF OnItsOwn, Mended
  <2> QED BY <2>1, <2>2, <2>3
<1>2. CASE Merges
  <2>1. pull' \in {0, pull} /\ queued' = FALSE
    BY <1>2 DEF Merges
  <2>2. alone' = [r \in Landings |-> FALSE] /\ UNCHANGED <<pulls, landing, known>>
    BY <1>2 DEF Merges, NobodyIsAlone, own
  <2> QED BY <2>1, <2>2
<1>3. ASSUME NEW l \in Libraries, Releases(l) \/ PinsByHand(l) PROVE MendInv'
  BY <1>3 DEF Releases, PinsByHand, NobodyIsAlone, own
<1> QED BY <1>1, <1>2, <1>3

(* A landing that nothing crosses leaves the newest releases pinned or on
   offer, or what is offered on its way, for any number of libraries and of
   landings that overlapped or failed before it (newest_pins.py).         *)
THEOREM LandingsThatMend == PinsSpec => []ALandingMends
<1>1. PinsInv /\ MendInv /\ [PinsNext]_pinVars => PinsInv' /\ MendInv'
  <2> SUFFICES ASSUME PinsInv, MendInv, [PinsNext]_pinVars PROVE PinsInv' /\ MendInv'
    OBVIOUS
  <2>1. PinsInv'
    BY PinsKept
  <2>2. CASE PinsNext
    BY <2>1, <2>2, LandingsMend, GitHubMends DEF PinsNext, LandingStep
  <2>3. CASE UNCHANGED pinVars
    <3>1. MendInv'
      BY <2>3 DEF pinVars, MendInv, LandingsTypeOK, QueuedIsThere, AloneInv, OnItsOwn, Mended,
                  Taken
    <3> QED BY <2>1, <3>1
  <2> QED BY <2>2, <2>3
<1>2. MendInv => ALandingMends
  BY DEF MendInv, AloneInv, Mended, ALandingMends
<1> QED BY PinsInitially, MendInitially, <1>1, <1>2, PTL DEF PinsSpec

(***************************************************************************)
(* The import sweep.  From the end of its job on, the interpreter runs no  *)
(* more, so nothing is started behind the list.                            *)
(***************************************************************************)

SweepTypes ==
  /\ helper \in [Helpers -> {"none", "loose", "held", "ending", "ended"}]
  /\ interpreter \in {"none", "runs", "ending", "ended"}
  /\ assigned \in BOOLEAN
JobIsOver ==
  sweep \in {"wait", "reap"} /\ assigned =>
    interpreter # "runs" /\ \A h \in Helpers : helper[h] # "held"
SweepInv == SweepTypes /\ JobIsOver

(* Nothing is in a job at first. *)
LEMMA SweepInitially == SweepInit => SweepInv
BY DEF SweepInit, SweepInv, SweepTypes, JobIsOver

(* No step of the sweep, its interpreter or a helper breaks the invariant. *)
LEMMA SweepKept == SweepInv /\ [SweepNext]_sweepVars => SweepInv'
<1> SUFFICES ASSUME SweepInv, [SweepNext]_sweepVars PROVE SweepInv'
  OBVIOUS
<1> USE DEF SweepInv, SweepTypes, JobIsOver, Then
<1>1. CASE ImportsOne BY <1>1 DEF ImportsOne
<1>2. CASE InterpreterEnds BY <1>2 DEF InterpreterEnds
<1>3. ASSUME NEW h \in Helpers, StartsHelper(h) PROVE SweepInv'
  BY <1>3 DEF StartsHelper
<1>4. ASSUME NEW h \in Helpers, HelperEnds(h) PROVE SweepInv'
  BY <1>4 DEF HelperEnds
<1>5. CASE StartsInterpreter BY <1>5 DEF StartsInterpreter
<1>6. CASE AssignsJob BY <1>6 DEF AssignsJob
<1>7. CASE SeesLines BY <1>7 DEF SeesLines
<1>8. CASE SeesTheEnd BY <1>8 DEF SeesTheEnd
<1>9. CASE GivesUpOnIt BY <1>9 DEF GivesUpOnIt
<1>10. CASE ListsTheJob BY <1>10 DEF ListsTheJob
<1>11. CASE TerminatesTheJob
  <2>1. SweepTypes'
    BY <1>11 DEF TerminatesTheJob
  <2>2. ASSUME assigned PROVE interpreter' # "runs"
    BY <1>11, <2>2 DEF TerminatesTheJob, Terminated, InJob
  <2>3. ASSUME NEW h \in Helpers PROVE helper'[h] # "held"
    BY <1>11, SweepAssumption DEF TerminatesTheJob, Terminated, InJob
  <2> QED BY <1>11, <2>1, <2>2, <2>3 DEF TerminatesTheJob
<1>12. CASE WaitsForABatch BY <1>12 DEF WaitsForABatch
<1>13. CASE WaitedForAll BY <1>13 DEF WaitedForAll
<1>14. CASE Reaps BY <1>14 DEF Reaps
<1>15. CASE ReadsTheRecord BY <1>15 DEF ReadsTheRecord
<1>16. CASE UNCHANGED sweepVars BY <1>16 DEF sweepVars
<1> QED BY <1>1, <1>2, <1>3, <1>4, <1>5, <1>6, <1>7, <1>8, <1>9, <1>10, <1>11,
           <1>12, <1>13, <1>14, <1>15, <1>16 DEF SweepNext

(* When the sweep gives up on an interpreter, nothing its job held is left,
   however many helpers it started and whenever.                          *)
THEOREM NothingIsLeftBehind == SweepSpec => []NothingIsLeftOfAHang
<1>1. SweepInit => SweepInv
  BY SweepInitially
<1>2. SweepInv /\ [SweepNext]_sweepVars => SweepInv'
  BY SweepKept
<1>3. SweepInv => NothingIsLeftOfAHang
  BY DEF SweepInv, JobIsOver, NothingIsLeftOfAHang
<1> QED
  BY <1>1, <1>2, <1>3, PTL DEF SweepSpec

(***************************************************************************)
(* Whom the sweep blames.  What an interpreter has before it is left, and  *)
(* what was blamed is not; the interpreter is gone before the record is    *)
(* read.                                                                   *)
(***************************************************************************)

BlameTypes ==
  /\ remaining \subseteq Modules /\ importing \subseteq remaining
  /\ outcomes \in [Modules -> {"none", "imported", "failed", "stopped"}]
  /\ lines \in Seq([module : Modules, failure : BOOLEAN])
TheRecordIsClosed ==
  /\ interpreter \in {"none", "ended"} => importing = {}
  /\ sweep \in {"start", "record", "done"} => interpreter \in {"none", "ended"}
BlamedAreOut ==
  \A m \in Modules : outcomes[m] = "stopped" =>
    m \notin remaining /\ \A n \in 1..Len(lines) : lines[n].module # m
LeftAreIn ==
  /\ \A m \in Modules : outcomes[m] = "none" => m \in remaining
  /\ sweep = "done" => remaining = {}
BlameInv == BlameTypes /\ TheRecordIsClosed /\ BlamedAreOut /\ LeftAreIn

(* All are left at first. *)
LEMMA BlameInitially == SweepInit => BlameInv
<1> SUFFICES ASSUME SweepInit PROVE BlameInv
  OBVIOUS
<1>1. lines \in Seq([module : Modules, failure : BOOLEAN])
  BY DEF SweepInit
<1> QED BY <1>1 DEF SweepInit, BlameInv, BlameTypes, TheRecordIsClosed, BlamedAreOut, LeftAreIn

(* An interpreter tells of what is left. *)
LEMMA ImportingBlames == ASSUME BlameInv, ImportsOne PROVE BlameInv'
<1>1. PICK first \in FirstOf(importing), failure \in BOOLEAN :
        /\ lines' = Append(lines, [module |-> first, failure |-> failure])
        /\ importing' = importing \ {first}
  BY DEF ImportsOne
<1>2. first \in importing /\ first \in remaining /\ first \in Modules
  BY DEF FirstOf, BlameInv, BlameTypes
<1>3. UNCHANGED <<sweep, remaining, outcomes, interpreter>> /\ interpreter = "runs"
  BY DEF ImportsOne
<1> DEFINE line == [module |-> first, failure |-> failure]
<1>4. line \in [module : Modules, failure : BOOLEAN] /\ line.module = first
  BY <1>2
<1>5. lines \in Seq([module : Modules, failure : BOOLEAN])
  BY DEF BlameInv, BlameTypes
<1> HIDE DEF line
<1>6. /\ lines' \in Seq([module : Modules, failure : BOOLEAN])
      /\ Len(lines') = Len(lines) + 1 /\ Len(lines) \in Nat
      /\ \A n \in 1..Len(lines) : lines'[n] = lines[n]
      /\ lines'[Len(lines) + 1] = line
  BY <1>1, <1>4, <1>5 DEF line
<1>7. BlameTypes'
  BY <1>1, <1>3, <1>6 DEF BlameInv, BlameTypes
<1>8. TheRecordIsClosed' /\ LeftAreIn'
  BY <1>3 DEF BlameInv, TheRecordIsClosed, LeftAreIn
<1>9. ASSUME NEW m \in Modules, outcomes[m] = "stopped", NEW n \in 1..Len(lines')
      PROVE  m \notin remaining /\ lines'[n].module # m
  <2>1. m \notin remaining /\ \A k \in 1..Len(lines) : lines[k].module # m
    BY <1>9 DEF BlameInv, BlamedAreOut
  <2>2. CASE n \in 1..Len(lines)
    BY <1>6, <2>1, <2>2
  <2>3. CASE n = Len(lines) + 1
    BY <1>2, <1>4, <1>6, <2>1, <2>3
  <2> QED BY <1>6, <2>1, <2>2, <2>3
<1>10. BlamedAreOut'
  <2>1. Len(lines') >= 1 /\ 1 \in 1..Len(lines')
    BY <1>6
  <2> QED BY <1>3, <1>9, <2>1 DEF BlamedAreOut
<1> QED BY <1>7, <1>8, <1>10 DEF BlameInv

(* The record is read when nobody writes it: whom it does not tell of was
   never told of.                                                         *)
LEMMA ReadingBlames == ASSUME BlameInv, ReadsTheRecord PROVE BlameInv'
<1> DEFINE said == [m \in Modules |->
                      CASE Told(m) = {} -> outcomes[m]
                        [] \E n \in Told(m) : lines[n].failure -> "failed"
                        [] OTHER -> "imported"]
           without == {m \in remaining : said[m] = "none"}
<1>1. \A m \in Modules : Told(m) = {} => said[m] = outcomes[m]
  OBVIOUS
<1>2. \A m \in Modules : Told(m) # {} => said[m] \in {"failed", "imported"}
  OBVIOUS
<1>3. /\ sweep = "record" /\ interpreter' = "none" /\ UNCHANGED <<lines, importing>>
      /\ sweep' = IF remaining' = {} THEN "done" ELSE "start"
      /\ \/ without = {} /\ outcomes' = said /\ remaining' = {}
         \/ \E first \in FirstOf(without) :
              /\ outcomes' = [said EXCEPT ![first] = "stopped"]
              /\ remaining' = without \ {first}
  BY DEF ReadsTheRecord, Then
<1>4. said \in [Modules -> {"none", "imported", "failed", "stopped"}]
  <2>1. \A m \in Modules : said[m] \in {"none", "imported", "failed", "stopped"}
    BY <1>1, <1>2 DEF BlameInv, BlameTypes
  <2> HIDE DEF Told
  <2> QED BY <2>1
<1>5. importing = {}
  BY <1>3 DEF BlameInv, TheRecordIsClosed
<1>6. without \subseteq remaining /\ remaining \subseteq Modules
  BY DEF BlameInv, BlameTypes
<1>7. \A m \in Modules : said[m] = "none" => m \in without
  <2> SUFFICES ASSUME NEW m \in Modules, said[m] = "none" PROVE m \in without
    OBVIOUS
  <2>1. outcomes[m] = "none"
    BY <1>1, <1>2
  <2> QED BY <2>1 DEF BlameInv, LeftAreIn
<1>8. \A m \in Modules : said[m] = "stopped" => Told(m) = {} /\ m \notin remaining
  BY <1>1, <1>2 DEF BlameInv, BlamedAreOut
<1>9. \A m \in Modules : Told(m) = {} => \A n \in 1..Len(lines) : lines[n].module # m
  BY DEF Told
<1>10. \A m \in without : Told(m) = {}
  BY <1>2, <1>6
<1> HIDE DEF said, without
<1>11. CASE without = {} /\ outcomes' = said /\ remaining' = {}
  <2>1. BlameTypes'
    BY <1>3, <1>4, <1>5, <1>11 DEF BlameInv, BlameTypes
  <2>2. TheRecordIsClosed'
    BY <1>3, <1>5 DEF TheRecordIsClosed
  <2>3. BlamedAreOut'
    BY <1>3, <1>8, <1>9, <1>11 DEF BlamedAreOut
  <2>4. LeftAreIn'
    BY <1>7, <1>11 DEF LeftAreIn
  <2> QED BY <2>1, <2>2, <2>3, <2>4 DEF BlameInv
<1>12. ASSUME NEW first \in FirstOf(without), outcomes' = [said EXCEPT ![first] = "stopped"],
              remaining' = without \ {first}
       PROVE  BlameInv'
  <2>1. first \in without /\ first \in Modules
    BY <1>6 DEF FirstOf
  <2>2. /\ outcomes'[first] = "stopped"
        /\ \A m \in Modules : m # first => outcomes'[m] = said[m]
    BY <1>4, <1>12, <2>1
  <2>3. BlameTypes'
    BY <1>3, <1>4, <1>5, <1>6, <1>12 DEF BlameInv, BlameTypes
  <2>4. TheRecordIsClosed'
    BY <1>3, <1>5 DEF TheRecordIsClosed
  <2>5. BlamedAreOut'
    <3> SUFFICES ASSUME NEW m \in Modules, outcomes'[m] = "stopped"
                 PROVE  m \notin remaining' /\ \A n \in 1..Len(lines) : lines[n].module # m
      BY <1>3 DEF BlamedAreOut
    <3>1. CASE m = first
      BY <1>9, <1>10, <1>12, <2>1, <3>1
    <3>2. CASE m # first
      BY <1>6, <1>8, <1>9, <1>12, <2>2, <3>2
    <3> QED BY <3>1, <3>2
  <2>6. LeftAreIn'
    BY <1>3, <1>7, <1>12, <2>2 DEF LeftAreIn
  <2> QED BY <2>3, <2>4, <2>5, <2>6 DEF BlameInv
<1> QED BY <1>3, <1>11, <1>12

(* The other steps start an interpreter where none is, or end it. *)
LEMMA BlameKept == BlameInv /\ SweepInv /\ [SweepNext]_sweepVars => BlameInv'
<1> SUFFICES ASSUME BlameInv, SweepInv, [SweepNext]_sweepVars PROVE BlameInv'
  OBVIOUS
<1> USE DEF BlameInv, BlameTypes, TheRecordIsClosed, BlamedAreOut, LeftAreIn, Then
<1>1. CASE ImportsOne BY <1>1, ImportingBlames
<1>2. CASE ReadsTheRecord BY <1>2, ReadingBlames
<1>3. CASE InterpreterEnds BY <1>3 DEF InterpreterEnds
<1>4. ASSUME NEW h \in Helpers, StartsHelper(h) \/ HelperEnds(h) PROVE BlameInv'
  BY <1>4 DEF StartsHelper, HelperEnds
<1>5. CASE StartsInterpreter BY <1>5 DEF StartsInterpreter
<1>6. CASE AssignsJob BY <1>6 DEF AssignsJob
<1>7. CASE SeesLines BY <1>7 DEF SeesLines
<1>8. CASE SeesTheEnd BY <1>8 DEF SeesTheEnd
<1>9. CASE GivesUpOnIt BY <1>9 DEF GivesUpOnIt
<1>10. CASE ListsTheJob BY <1>10 DEF ListsTheJob
<1>11. CASE TerminatesTheJob
  <2>1. interpreter' \in {"none", "ended"} => interpreter' = interpreter
    BY <1>11 DEF TerminatesTheJob
  <2>2. UNCHANGED <<remaining, outcomes, lines, importing>> /\ sweep' = "wait"
    BY <1>11 DEF TerminatesTheJob
  <2> QED BY <2>1, <2>2
<1>12. CASE WaitsForABatch BY <1>12 DEF WaitsForABatch
<1>13. CASE WaitedForAll BY <1>13 DEF WaitedForAll
<1>14. CASE Reaps BY <1>14 DEF Reaps
<1>15. CASE UNCHANGED sweepVars BY <1>15 DEF sweepVars
<1> QED BY <1>1, <1>2, <1>3, <1>4, <1>5, <1>6, <1>7, <1>8, <1>9, <1>10, <1>11,
           <1>12, <1>13, <1>14, <1>15 DEF SweepNext

(* Only a module of which no interpreter told is blamed for an end, and in
   the end each is told of, for any modules, helpers and ends of
   interpreters at any moment (import_sweep.py:44-62).                    *)
THEOREM BlamedForItself == SweepSpec => []EachIsBlamedForItself
<1>1. BlameInv => EachIsBlamedForItself
  BY DEF BlameInv, BlamedAreOut, LeftAreIn, EachIsBlamedForItself
<1> QED BY SweepInitially, SweepKept, BlameInitially, BlameKept, <1>1, PTL DEF SweepSpec

(***************************************************************************)
(* The gates of siblings.  ReachedFrom is the least whole set, so nothing  *)
(* is proved by induction: what the loop of inherited_siblings has found   *)
(* stays under every whole set that holds what is declared, and is whole   *)
(* itself once nothing is pending.                                         *)
(***************************************************************************)

Whole(some) == \A s \in some : DeclaredBy(s) \subseteq some

SiblingTypes ==
  /\ beside \in [FamilySiblings -> (SUBSET FamilySiblings) \cup {NoCheckout}]
  /\ needed \subseteq FamilySiblings /\ declared \subseteq FamilySiblings
  /\ pending \subseteq FamilySiblings /\ inherited \subseteq FamilySiblings

Looked(s) == beside[s] # NoCheckout /\ DeclaredBy(s) \subseteq inherited

LoopInv ==
  gates = "inherit" =>
    /\ pending \subseteq declared \cup inherited
    /\ \A s \in declared \cup inherited : s \in pending \/ Looked(s)
    /\ \A s \in inherited : \E t \in declared \cup inherited : s \in DeclaredBy(t)
    /\ inherited \cup pending \subseteq ReachedFrom(declared)

(* What the first gate let through. *)
DeclaredIsWhole ==
  /\ Whole(declared)
  /\ \A s \in declared : s \in needed \/ \E t \in declared : s \in DeclaredBy(t)

SettledInv ==
  gates \in {"pin", "hold"} =>
    needed \subseteq declared /\ (AllAreThere => DeclaredIsWhole)

PinnedInv ==
  declared = NamedNow(written) /\ (gates = "hold" => pinnedToo = written)

RefusedInv ==
  gates = "undeclared" =>
    \/ ~ needed \subseteq declared
    \/ AllAreThere /\ declared # ReachedFrom(needed)

SiblingsInv == SiblingTypes /\ LoopInv /\ SettledInv /\ PinnedInv /\ RefusedInv

(***************************************************************************)
(* ReachedFrom.                                                            *)
(***************************************************************************)

LEMMA ReachedIsLeast ==
  ASSUME NEW names, NEW some \in SUBSET FamilySiblings,
         names \subseteq some, Whole(some)
  PROVE  ReachedFrom(names) \subseteq some
  BY DEF ReachedFrom, Whole

LEMMA ReachedIsWhole ==
  ASSUME SiblingTypes, NEW names \in SUBSET FamilySiblings
  PROVE  /\ ReachedFrom(names) \in SUBSET FamilySiblings
         /\ names \subseteq ReachedFrom(names)
         /\ Whole(ReachedFrom(names))
  <1>1. ReachedFrom(names) \in SUBSET FamilySiblings
    BY DEF ReachedFrom
  <1>2. names \subseteq ReachedFrom(names)
    BY DEF ReachedFrom
  <1>3. ASSUME NEW s \in ReachedFrom(names), NEW t \in DeclaredBy(s)
        PROVE  t \in ReachedFrom(names)
    <2>1. s \in FamilySiblings
      BY DEF ReachedFrom
    <2>2. t \in FamilySiblings
      BY <2>1 DEF SiblingTypes, DeclaredBy
    <2>3. ASSUME NEW some \in SUBSET FamilySiblings,
                 names \subseteq some, \A u \in some : DeclaredBy(u) \subseteq some
          PROVE  t \in some
      BY <2>3 DEF ReachedFrom
    <2> QED
      BY <2>2, <2>3 DEF ReachedFrom
  <1> QED
    BY <1>1, <1>2, <1>3 DEF Whole

(***************************************************************************)
(* The loop at its end, and what the first gate says then.                 *)
(***************************************************************************)

LEMMA LoopEnds ==
  ASSUME SiblingsInv, gates = "inherit", pending = {}
  PROVE  /\ AllAreThere
         /\ Whole(declared \cup inherited)
         /\ \A s \in inherited : DeclaredBy(s) \subseteq inherited
         /\ \A s \in declared : DeclaredBy(s) \subseteq inherited
  <1>1. \A s \in declared \cup inherited : Looked(s)
    BY DEF SiblingsInv, LoopInv
  <1>2. Whole(declared \cup inherited)
    BY <1>1 DEF Whole, Looked
  <1>3. declared \cup inherited \in SUBSET FamilySiblings
    BY DEF SiblingsInv, SiblingTypes
  <1>4. ReachedFrom(declared) \subseteq declared \cup inherited
    BY <1>2, <1>3, ReachedIsLeast
  <1> QED
    BY <1>1, <1>2, <1>4 DEF AllAreThere, Looked

LEMMA WhatItLetsThroughIsWhole ==
  ASSUME SiblingsInv, gates = "inherit", pending = {}, NothingMissing, NothingTooMuch
  PROVE  DeclaredIsWhole
  <1>1. \A s \in declared : DeclaredBy(s) \subseteq inherited
    BY LoopEnds
  <1>2. Whole(declared)
    BY <1>1 DEF Whole, NothingMissing
  <1>3. ASSUME NEW s \in declared, s \notin needed
        PROVE  \E t \in declared : s \in DeclaredBy(t)
    <2>1. s \in inherited
      BY <1>3 DEF NothingTooMuch
    <2>2. PICK t \in declared \cup inherited : s \in DeclaredBy(t)
      BY <2>1 DEF SiblingsInv, LoopInv
    <2> QED
      BY <2>2 DEF NothingMissing
  <1> QED
    BY <1>2, <1>3 DEF DeclaredIsWhole

LEMMA WhatItRefusesIsNot ==
  ASSUME SiblingsInv, gates = "inherit", pending = {}, Declared,
         ~ (NothingMissing /\ NothingTooMuch)
  PROVE  AllAreThere /\ declared # ReachedFrom(needed)
  <1>1. AllAreThere
    BY LoopEnds
  <1>2. SUFFICES ASSUME declared = ReachedFrom(needed)
                 PROVE  NothingMissing /\ NothingTooMuch
    BY <1>1
  <1>3. declared \in SUBSET FamilySiblings /\ needed \in SUBSET FamilySiblings
        /\ inherited \in SUBSET FamilySiblings
    BY DEF SiblingsInv, SiblingTypes
  <1>4. SiblingTypes
    BY DEF SiblingsInv
  <1>5. Whole(declared)
    BY <1>2, <1>3, <1>4, ReachedIsWhole
  <1>6. ReachedFrom(declared) \subseteq declared
    BY <1>3, <1>5, ReachedIsLeast
  <1>7. NothingMissing
    BY <1>6 DEF NothingMissing, SiblingsInv, LoopInv
  <1>8. Whole(needed \cup inherited)
    BY LoopEnds DEF Whole, Declared
  <1>9. NothingTooMuch
    <2>1. needed \cup inherited \in SUBSET FamilySiblings
      BY <1>3
    <2>2. ReachedFrom(needed) \subseteq needed \cup inherited
      BY <2>1, <1>8, ReachedIsLeast
    <2> QED
      BY <2>2, <1>2 DEF NothingTooMuch
  <1> QED
    BY <1>7, <1>9

(***************************************************************************)
(* Every step keeps the invariant.                                         *)
(***************************************************************************)

LEMMA SiblingsInitially == SiblingsInit => SiblingsInv
  BY DEF SiblingsInit, SiblingsInv, SiblingTypes, LoopInv, SettledInv,
         PinnedInv, RefusedInv, NamedNow

(* What is declared and what is beside stay while gates run. *)
LEMMA ReachedStays ==
  ASSUME UNCHANGED <<beside, declared, needed>>
  PROVE  /\ \A s : DeclaredBy(s)' = DeclaredBy(s)
         /\ ReachedFrom(declared)' = ReachedFrom(declared)
         /\ ReachedFrom(needed)' = ReachedFrom(needed)
         /\ AllAreThere' = AllAreThere
         /\ DeclaredIsWhole' = DeclaredIsWhole
  <1>1. \A s : DeclaredBy(s)' = DeclaredBy(s)
    BY DEF DeclaredBy
  <1>2. /\ ReachedFrom(declared)' = ReachedFrom(declared)
        /\ ReachedFrom(needed)' = ReachedFrom(needed)
    BY DEF ReachedFrom, DeclaredBy
  <1>3. AllAreThere' = AllAreThere
    BY DEF AllAreThere, ReachedFrom, DeclaredBy
  <1>4. DeclaredIsWhole' = DeclaredIsWhole
    BY DEF DeclaredIsWhole, Whole, DeclaredBy
  <1> QED
    BY <1>1, <1>2, <1>3, <1>4

LEMMA SiblingsKept ==
  ASSUME SiblingsInv, [SiblingsNext]_siblingVars
  PROVE  SiblingsInv'
  <1> USE DEF SiblingsInv
  <1>1. CASE WritesAnything
    <2>3. NamedNow(written') \subseteq FamilySiblings
      BY <1>1, SiblingsAssumption DEF WritesAnything, MayBeNamed, NamedNow
    <2>1. SiblingTypes'
      BY <1>1, <2>3 DEF WritesAnything, MayImport, SiblingTypes
    <2>2. (inherited \cup pending \subseteq ReachedFrom(declared))'
      BY <1>1, <2>1 DEF WritesAnything, ReachedFrom, SiblingTypes
    <2> QED
      BY <1>1, <2>1, <2>2
      DEF WritesAnything, LoopInv, SettledInv, PinnedInv, RefusedInv, NamedNow
  <1>2. ASSUME NEW name \in FamilySiblings, Pops(name)
        PROVE  SiblingsInv'
    <2> USE <1>2 DEF Pops
    <2>1. SiblingTypes'
      BY DEF SiblingTypes, DeclaredBy
    <2>2. \A s : DeclaredBy(s)' = DeclaredBy(s)
      BY ReachedStays
    <2>3. \A s \in (declared \cup inherited)' : (s \in pending \/ Looked(s))'
      <3> SUFFICES ASSUME NEW s \in (declared \cup inherited)', s \notin pending'
                   PROVE  Looked(s)'
        OBVIOUS
      <3>1. s = name \/ (s \in declared \cup inherited /\ s \notin pending)
        OBVIOUS
      <3>2. CASE s = name
        BY <3>2, <2>2 DEF Looked
      <3>3. CASE s \in declared \cup inherited /\ s \notin pending
        <4>1. Looked(s)
          BY <3>3 DEF LoopInv
        <4> QED
          BY <4>1, <2>2 DEF Looked
      <3> QED
        BY <3>1, <3>2, <3>3
    <2>4. \A s \in inherited' :
            \E t \in (declared \cup inherited)' : s \in DeclaredBy(t)'
      <3>1. name \in declared \cup inherited
        BY DEF LoopInv
      <3> QED
        BY <2>2, <3>1 DEF LoopInv
    <2>6. pending' \subseteq (declared \cup inherited)'
      BY DEF LoopInv
    <2>5. (inherited \cup pending)' \subseteq ReachedFrom(declared)'
      <3>1. Whole(ReachedFrom(declared))
        BY ReachedIsWhole DEF SiblingTypes
      <3>2. DeclaredBy(name) \subseteq ReachedFrom(declared)
        BY <3>1 DEF Whole, LoopInv
      <3>3. ReachedFrom(declared)' = ReachedFrom(declared)
        BY ReachedStays
      <3> QED
        BY <3>2, <3>3 DEF LoopInv
    <2> QED
      BY <2>1, <2>3, <2>4, <2>5, <2>6
      DEF LoopInv, SettledInv, PinnedInv, RefusedInv, NamedNow
  <1>3. CASE SaysWhatIsInherited
    <2>1. SiblingTypes'
      BY <1>3 DEF SaysWhatIsInherited, SiblingTypes
    <2>2. CASE Declared /\ NothingMissing /\ NothingTooMuch
      <3>1. DeclaredIsWhole'
        BY <1>3, <2>2, WhatItLetsThroughIsWhole, ReachedStays
        DEF SaysWhatIsInherited
      <3> QED
        BY <1>3, <2>1, <2>2, <3>1
        DEF SaysWhatIsInherited, Declared, LoopInv, SettledInv, PinnedInv,
            RefusedInv, NamedNow
    <2>3. CASE ~ (Declared /\ NothingMissing /\ NothingTooMuch)
      <3>1. RefusedInv'
        BY <1>3, <2>3, WhatItRefusesIsNot, ReachedStays
        DEF SaysWhatIsInherited, Declared, RefusedInv
      <3> QED
        BY <1>3, <2>1, <2>3, <3>1
        DEF SaysWhatIsInherited, LoopInv, SettledInv, PinnedInv, NamedNow
    <2> QED
      BY <2>2, <2>3
  <1>4. CASE MissesACheckout
    <2>1. SiblingTypes'
      BY <1>4 DEF MissesACheckout, SiblingTypes
    <2>2. ~ AllAreThere
      BY <1>4 DEF MissesACheckout, AllAreThere, LoopInv
    <2>3. ~ AllAreThere'
      BY <1>4, <2>2, ReachedStays DEF MissesACheckout
    <2> QED
      BY <1>4, <2>1, <2>3
      DEF MissesACheckout, Declared, LoopInv, SettledInv, PinnedInv, RefusedInv,
          NamedNow
  <1>5. CASE SaysWhatIsPinned
    <2>1. SiblingTypes'
      BY <1>5 DEF SaysWhatIsPinned, SiblingTypes
    <2>2. SettledInv'
      BY <1>5, ReachedStays DEF SaysWhatIsPinned, SettledInv
    <2> QED
      BY <1>5, <2>1, <2>2
      DEF SaysWhatIsPinned, LoopInv, PinnedInv, RefusedInv, NamedNow
  <1>6. CASE WritesAnew
    <2>1. SiblingTypes'
      BY <1>6 DEF WritesAnew, SiblingTypes
    <2> QED
      BY <1>6, <2>1 DEF WritesAnew, LoopInv, SettledInv, PinnedInv, RefusedInv, NamedNow
  <1>7. CASE UNCHANGED siblingVars
    <2>1. SiblingTypes' /\ LoopInv'
      BY <1>7 DEF siblingVars, SiblingTypes, LoopInv, Looked, DeclaredBy, ReachedFrom
    <2>2. SettledInv' /\ PinnedInv' /\ RefusedInv'
      BY <1>7, ReachedStays DEF siblingVars, SettledInv, PinnedInv, RefusedInv, NamedNow
    <2> QED
      BY <2>1, <2>2
  <1> QED
    BY <1>1, <1>2, <1>3, <1>4, <1>5, <1>6, <1>7 DEF SiblingsNext

(***************************************************************************)
(* What is pinned.                                                         *)
(***************************************************************************)

LEMMA PinsReach == SiblingsInv => PinsAreWhatImportsReach
  <1> SUFFICES ASSUME SiblingsInv PROVE PinsAreWhatImportsReach
    OBVIOUS
  <1> USE DEF SiblingsInv
  <1> DEFINE installed == NamedNow(pinnedToo)
  <1>1. SiblingTypes /\ needed \in SUBSET FamilySiblings
        /\ declared \in SUBSET FamilySiblings
    BY DEF SiblingTypes
  <1>2. ASSUME gates = "hold"
        PROVE  needed \subseteq installed /\ installed = declared
    BY <1>2 DEF SettledInv, PinnedInv
  <1> HIDE DEF installed
  <1>3. ASSUME gates = "hold", AllAreThere
        PROVE  ReachedFrom(needed) \subseteq installed /\ DeclaredIsWhole
    <2>1. DeclaredIsWhole
      BY <1>3 DEF SettledInv
    <2> QED
      BY <2>1, <1>1, <1>2, <1>3, ReachedIsLeast DEF DeclaredIsWhole
  (* Take what is declared and not reached: in one order, one of it is
     declared by no other of it, so by one that is reached.               *)
  <1>4. ASSUME gates = "hold", AllAreThere, InOneOrder
        PROVE  installed \subseteq ReachedFrom(needed)
    <2> DEFINE rest == declared \ ReachedFrom(needed)
    <2>1. SUFFICES ASSUME rest # {} PROVE FALSE
      BY <1>2, <1>4
    <2>2. PICK s \in rest : \A t \in rest : s \notin DeclaredBy(t)
      <3>1. rest \in SUBSET FamilySiblings
        BY <1>1
      <3> QED
        BY <3>1, <2>1, <1>4 DEF InOneOrder
    <2>3. needed \subseteq ReachedFrom(needed) /\ Whole(ReachedFrom(needed))
      BY <1>1, ReachedIsWhole
    <2>4. PICK t \in declared : s \in DeclaredBy(t)
      BY <2>2, <2>3, <1>3, <1>4 DEF DeclaredIsWhole
    <2>5. t \in ReachedFrom(needed)
      BY <2>2, <2>4
    <2> QED
      BY <2>2, <2>3, <2>4, <2>5 DEF Whole
  <1> QED
    BY <1>2, <1>3, <1>4 DEF PinsAreWhatImportsReach, RefusedInv, installed

(* What the gates of a checkout hold it to is what its imports reach, for
   any siblings and old names, any declarations and any order of the loop.              *)
THEOREM ImportsReachThePins == SiblingsSpec => []PinsAreWhatImportsReach
  <1>1. SiblingsInit => SiblingsInv
    BY SiblingsInitially
  <1>2. SiblingsInv /\ [SiblingsNext]_siblingVars => SiblingsInv'
    BY SiblingsKept
  <1>3. SiblingsInv => PinsAreWhatImportsReach
    BY PinsReach
  <1> QED
    BY <1>1, <1>2, <1>3, PTL DEF SiblingsSpec
=============================================================================
