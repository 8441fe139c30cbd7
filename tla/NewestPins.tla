------------------------------ MODULE NewestPins ------------------------------
(***************************************************************************)
(* newest_pins.py: the landing of a library looks at a repository of the   *)
(* family that pins it and opens, brings up to date or withdraws the one   *)
(* pull request that takes the newest releases.  Landings overlap, any     *)
(* call to GitHub may fail, and GitHub merges meanwhile.                   *)
(*                                                                         *)
(* A pyproject is the release it pins of each library.                     *)
(***************************************************************************)
EXTENDS Integers

CONSTANTS
  Landings,     \* runs of bring_up
  Libraries,
  NoBranch,     \* a 404
  MaxReleases   \* bound: releases of a library

ASSUME PinsAssumption ==
  /\ MaxReleases \in Nat \ {0}
  /\ NoBranch \notin [base : [Libraries -> Int], pins : [Libraries -> Int]]

VARIABLES
  released,   \* the newest release among each library's tags
  pinned,       \* the pyproject on the default branch
  branch,     \* take-the-newest-shared-code: [base, pins] or NoBranch
  pull,       \* the number of its open pull request, or 0
  pulls,      \* pull requests ever opened
  armed,      \* the pull requests set to ship by themselves
  queued,     \* the open one is in the merge queue
  landing,    \* where each landing is
  text,       \* the project as it read it
  newest,     \* the releases as it read them
  known,      \* the open pull request it found, or 0
  alone       \* history: nobody else landed or merged, and no call failed

gitHub == <<released, pinned, branch, pull, pulls, armed, queued>>
own == <<text, newest, known>>
pinVars == <<released, pinned, branch, pull, pulls, armed, queued, landing, text,
             newest, known, alone>>

First == [l \in Libraries |-> 1]

PinsInit ==
  /\ released = First /\ pinned = First
  /\ branch = NoBranch /\ pull = 0 /\ pulls = 0 /\ armed = {} /\ queued = FALSE
  /\ landing = [r \in Landings |-> "out"]
  /\ text = [r \in Landings |-> First] /\ newest = [r \in Landings |-> First]
  /\ known = [r \in Landings |-> 0]
  /\ alone = [r \in Landings |-> FALSE]

At(r, step) == landing' = [landing EXCEPT ![r] = step]
Underway == {r \in Landings : landing[r] \notin {"out", "ended"}}
NobodyIsAlone == alone' = [r \in Landings |-> FALSE]

(* A fault: any other release is taken for a newer one. *)
NewestWhateverIsPinned(pins, releases) == releases

(* newest_taken: never back from what is pinned. *)
NewestTaken(pins, releases) ==
  [l \in Libraries |-> IF releases[l] > pins[l] THEN releases[l] ELSE pins[l]]

Taken(r) == NewestTaken(text[r], newest[r])

(***************************************************************************)
(* A landing.                                                              *)
(***************************************************************************)

ReadsProject(r) ==
  /\ landing[r] = "out"
  /\ text' = [text EXCEPT ![r] = pinned]
  /\ alone' = [k \in Landings |-> k = r /\ Underway = {}]
  /\ At(r, "tags")
  /\ UNCHANGED <<gitHub, newest, known>>

ReadsTags(r) ==
  /\ landing[r] = "tags"
  /\ newest' = [newest EXCEPT ![r] = released]
  /\ At(r, "pull")
  /\ UNCHANGED <<gitHub, text, known, alone>>

LooksForPull(r) ==
  /\ landing[r] = "pull"
  /\ known' = [known EXCEPT ![r] = pull]
  /\ At(r, CASE Taken(r) # text[r] -> "offered"
             [] Taken(r) = text[r] /\ pull = 0 -> "ended"
             [] OTHER -> "close")
  /\ UNCHANGED <<gitHub, text, newest, alone>>

(* A fault: an open pull request is one that takes them. *)
TakesThePullForIt(r) ==
  /\ landing[r] = "offered"
  /\ At(r, IF known[r] # 0 THEN "ended" ELSE "point")
  /\ UNCHANGED <<gitHub, own, alone>>

LooksAtTheOffer(r) ==
  /\ landing[r] = "offered"
  /\ At(r, CASE known[r] = 0 -> "point"
             [] known[r] # 0 /\ branch # NoBranch /\ branch.pins = Taken(r) -> "ended"
             [] OTHER -> "queue")
  /\ UNCHANGED <<gitHub, own, alone>>

LooksAtTheQueue(r) ==
  /\ landing[r] = "queue"
  /\ At(r, IF queued /\ pull = known[r] THEN "ended" ELSE "point")
  /\ UNCHANGED <<gitHub, own, alone>>

(* A push takes a pull request out of the queue. *)
Points(r) ==
  /\ landing[r] = "point"
  /\ branch' = [base |-> text[r], pins |-> Taken(r)]
  /\ queued' = FALSE
  /\ At(r, IF known[r] = 0 THEN "offer" ELSE "arm")
  /\ UNCHANGED <<released, pinned, pull, pulls, armed, own, alone>>

(* One is open already: that one. *)
Offers(r) ==
  /\ landing[r] = "offer"
  /\ branch # NoBranch
  /\ IF pull = 0 THEN pull' = pulls + 1 /\ pulls' = pulls + 1
                 ELSE UNCHANGED <<pull, pulls>>
  /\ known' = [known EXCEPT ![r] = pull']
  /\ At(r, "arm")
  /\ UNCHANGED <<released, pinned, branch, armed, queued, text, newest, alone>>

(* gh pr merge --auto, which may be refused. *)
Arms(r) ==
  /\ landing[r] = "arm"
  /\ armed' \in {armed, armed \cup ({pull} \cap {known[r]})}
  /\ At(r, "ended")
  /\ UNCHANGED <<released, pinned, branch, pull, pulls, queued, own, alone>>

(* withdraw: the pull request, and then the branch. *)
ClosesPull(r) ==
  /\ landing[r] = "close"
  /\ pull' = IF pull = known[r] THEN 0 ELSE pull
  /\ queued' = (queued /\ pull # known[r])
  /\ At(r, "delete")
  /\ UNCHANGED <<released, pinned, branch, pulls, armed, own, alone>>

DeletesBranch(r) ==
  /\ landing[r] = "delete"
  /\ branch' = NoBranch /\ pull' = 0 /\ queued' = FALSE
  /\ At(r, "ended")
  /\ UNCHANGED <<released, pinned, pulls, armed, own, alone>>

(* CalledProcessError or NotFound, said of this repository. *)
FailsToLand(r) ==
  /\ landing[r] \notin {"out", "ended"}
  /\ At(r, "ended") /\ NobodyIsAlone
  /\ UNCHANGED <<gitHub, own>>

(***************************************************************************)
(* GitHub.                                                                 *)
(***************************************************************************)

(* Each line that both sides changed is the same. *)
NoConflict ==
  \A l \in Libraries : pinned[l] = branch.base[l] \/ branch.pins[l] \in {branch.base[l], pinned[l]}

Queues ==
  /\ pull \in armed /\ branch # NoBranch /\ NoConflict /\ ~queued
  /\ queued' = TRUE
  /\ UNCHANGED <<released, pinned, branch, pull, pulls, armed, landing, own, alone>>

Merges ==
  /\ queued /\ branch # NoBranch
  /\ queued' = FALSE
  /\ pinned' = IF NoConflict
       THEN [l \in Libraries |-> IF pinned[l] = branch.base[l] THEN branch.pins[l]
                                                             ELSE pinned[l]]
       ELSE pinned
  /\ pull' = IF NoConflict THEN 0 ELSE pull
  /\ NobodyIsAlone
  /\ UNCHANGED <<released, branch, pulls, armed, landing, own>>

(* A library is released; someone pins a newer one by hand, released or
   about to be.                                                           *)
Releases(l) ==
  /\ released[l] < MaxReleases
  /\ released' = [released EXCEPT ![l] = @ + 1]
  /\ NobodyIsAlone
  /\ UNCHANGED <<pinned, branch, pull, pulls, armed, queued, landing, own>>

PinsByHand(l) ==
  /\ pinned[l] <= released[l] /\ pinned[l] < MaxReleases
  /\ pinned' = [pinned EXCEPT ![l] = @ + 1]
  /\ NobodyIsAlone
  /\ UNCHANGED <<released, branch, pull, pulls, armed, queued, landing, own>>

PinsNext ==
  \/ \E r \in Landings :
       \/ ReadsProject(r) \/ ReadsTags(r) \/ LooksForPull(r)
       \/ LooksAtTheOffer(r) \/ LooksAtTheQueue(r) \/ Points(r) \/ Offers(r)
       \/ Arms(r) \/ ClosesPull(r) \/ DeletesBranch(r) \/ FailsToLand(r)
  \/ Queues \/ Merges
  \/ \E l \in Libraries : Releases(l) \/ PinsByHand(l)

PinsSpec == PinsInit /\ [][PinsNext]_pinVars

(***************************************************************************)
(* Properties.                                                             *)
(***************************************************************************)

(* No pull request takes a repository back to an older release, however old
   the pins and the tags its landing read.                                *)
PinsNeverGoBack == [][\A l \in Libraries : pinned'[l] >= pinned[l]]_pinVars

(* A landing that nothing crossed leaves the newest releases on the default
   branch or on offer, or what is offered on its way: whatever landings
   that overlapped or failed before it left behind.                       *)
ALandingMends ==
  \A r \in Landings :
    landing[r] = "ended" /\ alone[r] =>
      \/ NewestTaken(pinned, newest[r]) = pinned
      \/ pull # 0 /\ branch # NoBranch
         /\ (queued \/ branch.pins = NewestTaken(pinned, newest[r]))
=============================================================================
