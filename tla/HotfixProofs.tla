----------------------------- MODULE HotfixProofs -----------------------------
(***************************************************************************)
(* What holds of the hotfix route for any routes and any number of passes: *)
(* the versions that what production runs is pinned to stay those its      *)
(* routes tagged, and production leaves no fix behind (Hotfix).            *)
(***************************************************************************)
EXTENDS Hotfix, TLAPS

HotfixCommits == [on : Nat, fixes : Seq(Routes)]
NoneOrHotfixCommits == HotfixCommits \cup {NoCommit}
Steps == {"out", "heading", "forget", "plan", "look at ref", "build", "ask", "turn",
          "carry out", "look at head", "drop", "accepted", "refused"}
LandedFixes == [fix : Routes \cup {NoCommit}, undoes : Nat]

BranchTypes ==
  /\ trunk \in Seq(LandedFixes)
  /\ passed \in 0..Len(trunk)
  /\ tags \in Seq(Routes)

PassTypes ==
  /\ version \in [Routes -> Nat]
  /\ at \in [Passes -> Steps]
  /\ aim \in [Passes -> {"look", "move"}]
  /\ goal \in [Passes -> NoneOrHotfixCommits]
  /\ made \in [Routes -> NoneOrHotfixCommits]

HotfixTypes == BranchTypes /\ PassTypes

(* Its library's version is the one this route tagged. *)
HasItsVersion(r) == version[r] \in 1..Len(tags) /\ tags[version[r]] = r

Sound(c) ==
  /\ c \in HotfixCommits /\ c.on <= Len(trunk)
  /\ \A r \in FixesOn(c) : HasItsVersion(r)

Planning == {"forget", "plan", "look at ref", "build", "turn", "carry out"}

CommitsAreSound ==
  /\ Sound(head)
  /\ ref # NoCommit => Sound(ref)
  /\ \A a \in Passes : at[a] \in Planning => Sound(goal[a])

(* All but its own fix, whose version nobody has tagged yet. *)
MadeIsSound ==
  \A r \in Routes : at[r] = "ask" =>
    /\ made[r] \in HotfixCommits /\ made[r].on <= Len(trunk)
    /\ \A q \in FixesOn(made[r]) \ {r} : HasItsVersion(q)
    /\ version[r] \in 1 .. Len(tags) + 1

(* A route that tagged makes no version any more. *)
TagsOnce ==
  /\ \A r \in Routes : at[r] \in {"look at ref", "build", "ask"} => aim[r] = "look"
  /\ \A n \in 1..Len(tags) : aim[tags[n]] = "move" \/ at[tags[n]] = "refused"

(* As FixesStay has it. *)
MayMove(from, to) ==
  \A r \in FixesOn(from) \ FixesOn(to) :
    takenBack = from \/ r \in AuthorsInEffect(0, to.on)

UnderItsTurn ==
  \A a \in Passes : at[a] = "carry out" => turn = a /\ MayMove(head, goal[a])

HotfixInv == HotfixTypes /\ CommitsAreSound /\ MadeIsSound /\ TagsOnce /\ UnderItsTurn

(***************************************************************************)
(* Commits.                                                                *)
(***************************************************************************)

LEMMA OnMainIsSound ==
  ASSUME HotfixTypes, NEW n \in 0..Len(trunk)
  PROVE  Sound(OnMain(n)) /\ FixesOn(OnMain(n)) = {}
  <1>1. OnMain(n) = [on |-> n, fixes |-> <<>>]
    BY DEF OnMain
  <1>2. FixesOn(OnMain(n)) = {}
    BY <1>1 DEF FixesOn, ToSet
  <1>3. OnMain(n) \in HotfixCommits /\ OnMain(n).on = n
    BY <1>1 DEF HotfixCommits
  <1> QED
    BY <1>2, <1>3 DEF Sound, HotfixTypes, BranchTypes

LEMMA OfTheBranch ==
  ASSUME BranchTypes
  PROVE  /\ Len(trunk) \in Nat /\ Len(tags) \in Nat /\ Len(tags) + 1 \in Nat
         /\ passed \in 0..Len(trunk) /\ Len(trunk) \in 0..Len(trunk)
         /\ OnMain(Len(trunk)) \in HotfixCommits /\ Shipped \in HotfixCommits
  <1>1. Len(trunk) \in Nat /\ Len(tags) \in Nat /\ passed \in 0..Len(trunk)
    BY DEF BranchTypes
  <1>2. Len(tags) + 1 \in Nat /\ passed \in Nat /\ Len(trunk) \in 0..Len(trunk)
    BY <1>1
  <1>3. \A n \in Nat : OnMain(n) \in HotfixCommits
    BY DEF OnMain, HotfixCommits
  <1> QED
    BY <1>1, <1>2, <1>3 DEF Shipped

LEMMA OneMoreFix ==
  ASSUME NEW base \in HotfixCommits, NEW r \in Routes
  PROVE  LET c == [base EXCEPT !.fixes = Append(@, r)]
         IN c \in HotfixCommits /\ c.on = base.on /\ FixesOn(c) = FixesOn(base) \cup {r}
  <1> DEFINE c == [base EXCEPT !.fixes = Append(@, r)]
  <1>1. base.fixes \in Seq(Routes) /\ base.on \in Nat
    BY DEF HotfixCommits
  <1>2. c.fixes = Append(base.fixes, r) /\ c.on = base.on /\ c \in HotfixCommits
    BY <1>1 DEF HotfixCommits
  <1>3. ToSet(Append(base.fixes, r)) = ToSet(base.fixes) \cup {r}
    <2>1. DOMAIN Append(base.fixes, r) = 1 .. Len(base.fixes) + 1
      BY <1>1
    <2>2. \A i \in 1 .. Len(base.fixes) : Append(base.fixes, r)[i] = base.fixes[i]
      BY <1>1
    <2>3. Append(base.fixes, r)[Len(base.fixes) + 1] = r
      BY <1>1
    <2>4. DOMAIN base.fixes = 1 .. Len(base.fixes) /\ Len(base.fixes) \in Nat
      BY <1>1
    <2> QED
      BY <2>1, <2>2, <2>3, <2>4 DEF ToSet
  <1> QED
    BY <1>2, <1>3 DEF FixesOn

(* What a step may do to the trunk, the tags and the versions keeps every
   sound commit sound.                                                    *)
StillSound(c) ==
  /\ c \in HotfixCommits /\ c.on <= Len(trunk')
  /\ \A r \in FixesOn(c) : version'[r] \in 1..Len(tags') /\ tags'[version'[r]] = r

GoesForward ==
  /\ \A r \in Routes : HasItsVersion(r) =>
       version'[r] \in 1..Len(tags') /\ tags'[version'[r]] = r
  /\ Len(trunk') \in Nat /\ Len(trunk) <= Len(trunk')

LEMMA SoundStays ==
  ASSUME HotfixTypes, GoesForward, NEW c, Sound(c)
  PROVE  StillSound(c)
  <1>1. FixesOn(c) \subseteq Routes
    BY DEF FixesOn, ToSet, Sound, HotfixCommits
  <1>2. c.on \in Nat /\ Len(trunk) \in Nat
    BY DEF Sound, HotfixCommits, HotfixTypes, BranchTypes
  <1> QED
    BY <1>1, <1>2 DEF Sound, StillSound, GoesForward

LEMMA StepsGoForward ==
  ASSUME HotfixInv, [HotfixNext]_hotfixVars
  PROVE  GoesForward
  <1> USE DEF HotfixInv, HotfixTypes, BranchTypes, PassTypes
  <1>0. Len(trunk) \in Nat /\ Len(tags) \in Nat
    OBVIOUS
  <1>1. ASSUME UNCHANGED <<trunk, tags, version>> PROVE GoesForward
    <2>1. Len(trunk') = Len(trunk)
      BY <1>1
    <2> QED
      BY <1>0, <1>1, <2>1 DEF GoesForward, HasItsVersion
  <1>2. ASSUME NEW e \in Routes, tags' = Append(tags, e), UNCHANGED <<trunk, version>>
        PROVE  GoesForward
    <2>1. Len(tags') = Len(tags) + 1 /\ \A n \in 1..Len(tags) : tags'[n] = tags[n]
      BY <1>2
    <2>2. ASSUME NEW q \in Routes, HasItsVersion(q)
          PROVE  version'[q] \in 1..Len(tags') /\ tags'[version'[q]] = q
      BY <1>0, <1>2, <2>1, <2>2 DEF HasItsVersion
    <2> QED
      BY <1>0, <1>2, <2>2 DEF GoesForward
  <1>3. ASSUME NEW r \in Routes, Builds(r) PROVE GoesForward
    <2>1. UNCHANGED <<trunk, tags>> /\ version' = [version EXCEPT ![r] = Len(tags) + 1]
          /\ at[r] = "build"
      BY <1>3 DEF Builds, origin
    <2>2. ~ HasItsVersion(r)
      BY <2>1 DEF TagsOnce, HasItsVersion
    <2>3. ASSUME NEW q \in Routes, HasItsVersion(q)
          PROVE  version'[q] \in 1..Len(tags') /\ tags'[version'[q]] = q
      <3>1. version'[q] = version[q]
        BY <2>1, <2>2, <2>3
      <3> QED
        BY <2>1, <2>3, <3>1 DEF HasItsVersion
    <2> QED
      BY <1>0, <2>1, <2>3 DEF GoesForward
  <1>4. CASE Lands
    <2>1. UNCHANGED <<tags, version>>
      BY <1>4 DEF Lands, route
    <2>2. PICK e \in LandedFixes : trunk' = Append(trunk, e)
      <3>1. \A n \in 1..Len(trunk) : n \in Nat
        BY <1>0
      <3> QED BY <1>4, <3>1 DEF Lands, LandedFixes
    <2>3. Len(trunk') = Len(trunk) + 1
      BY <2>2
    <2> QED
      BY <1>0, <2>1, <2>3 DEF GoesForward, HasItsVersion
  <1>5. ASSUME NEW a \in Passes, BringsUp(a) PROVE GoesForward
    BY <1>1, <1>5
    DEF BringsUp, ReadsHeading, ForgetsHotfix, PlansToBuild, PlansToMove, TakesTurn,
        NeedsNoTurn, CarriesOut, EndsEarly, origin, route
  <1>6. ASSUME NEW r \in Routes, RouteStep(r) PROVE GoesForward
    <2>1. CASE StartsRoute(r) BY <1>1, <2>1 DEF StartsRoute, origin, route
    <2>2. CASE SeesWhatIsAsked(r) BY <1>1, <2>2 DEF SeesWhatIsAsked, origin
    <2>3. CASE Builds(r) BY <1>3, <2>3
    <2>4. CASE AsksFor(r) BY <1>2, <2>4 DEF AsksFor, Tags, origin
    <2>5. CASE Refuses(r) BY <1>1, <1>2, <2>5 DEF Refuses, origin
    <2>6. CASE Answers(r) BY <1>1, <2>6 DEF Answers, origin
    <2>7. CASE Drops(r) BY <1>1, <2>7 DEF Drops, origin
    <2> QED BY <1>6, <2>1, <2>2, <2>3, <2>4, <2>5, <2>6, <2>7 DEF RouteStep
  <1>7. CASE TakesBack BY <1>1, <1>7 DEF TakesBack, origin, route
  <1>8. ASSUME NEW n \in 1..Len(trunk), PassesChecks(n) PROVE GoesForward
    BY <1>1, <1>8 DEF PassesChecks, route
  <1>9. CASE UNCHANGED hotfixVars BY <1>1, <1>9 DEF hotfixVars, origin, route
  <1> QED
    BY <1>4, <1>5, <1>6, <1>7, <1>8, <1>9 DEF HotfixNext

(***************************************************************************)
(* The invariant.                                                          *)
(***************************************************************************)

LEMMA HotfixInitially == HotfixInit => HotfixInv
  <1> SUFFICES ASSUME HotfixInit PROVE HotfixInv
    OBVIOUS
  <1>1. head \in HotfixCommits /\ head = OnMain(0)
    BY DEF HotfixInit, OnMain, HotfixCommits
  <1>2. BranchTypes
    BY DEF HotfixInit, BranchTypes
  <1>3. PassTypes
    BY DEF HotfixInit, PassTypes, NoneOrHotfixCommits, Steps
  <1>4. Sound(head)
    BY <1>1, <1>2, <1>3, OnMainIsSound DEF HotfixTypes, BranchTypes
  <1>5. \A a \in Passes : at[a] \in {"heading", "out"}
    BY DEF HotfixInit
  <1>6. CommitsAreSound
    BY <1>4, <1>5 DEF CommitsAreSound, Planning, HotfixInit
  <1>7. MadeIsSound /\ UnderItsTurn
    BY <1>5 DEF MadeIsSound, UnderItsTurn, Passes
  <1>8. TagsOnce
    <2>1. 1..Len(tags) = {}
      BY DEF HotfixInit
    <2>2. \A r \in Routes : at[r] \notin {"look at ref", "build", "ask"}
      BY <1>5 DEF Passes
    <2> QED BY <2>1, <2>2 DEF TagsOnce
  <1> QED
    BY <1>2, <1>3, <1>6, <1>7, <1>8 DEF HotfixInv, HotfixTypes

LEMMA BranchTypesKept ==
  ASSUME HotfixInv, [HotfixNext]_hotfixVars
  PROVE  BranchTypes'
  <1> USE DEF HotfixInv, HotfixTypes, BranchTypes
  <1>0. Len(trunk) \in Nat /\ Len(tags) \in Nat
    OBVIOUS
  <1>1. ASSUME UNCHANGED <<trunk, passed, tags>> PROVE BranchTypes'
    BY <1>1
  <1>2. ASSUME NEW e \in Routes, tags' = Append(tags, e), UNCHANGED <<trunk, passed>>
        PROVE  BranchTypes'
    BY <1>2
  <1>3. CASE Lands
    <2>1. UNCHANGED <<passed, tags>>
      BY <1>3 DEF Lands
    <2>2. PICK e \in LandedFixes : trunk' = Append(trunk, e)
      <3>1. \A n \in 1..Len(trunk) : n \in Nat
        BY <1>0
      <3> QED BY <1>3, <3>1 DEF Lands, LandedFixes
    <2>3. trunk' \in Seq(LandedFixes) /\ Len(trunk') = Len(trunk) + 1
      BY <2>2
    <2> QED
      BY <1>0, <2>1, <2>3
  <1>4. ASSUME NEW a \in Passes, BringsUp(a) PROVE BranchTypes'
    BY <1>1, <1>4
    DEF BringsUp, ReadsHeading, ForgetsHotfix, PlansToBuild, PlansToMove, TakesTurn,
        NeedsNoTurn, CarriesOut, EndsEarly, origin
  <1>5. ASSUME NEW r \in Routes, RouteStep(r) PROVE BranchTypes'
    BY <1>1, <1>2, <1>5
    DEF RouteStep, StartsRoute, SeesWhatIsAsked, Builds, AsksFor, Tags, Refuses,
        Answers, Drops, origin
  <1>6. CASE TakesBack BY <1>1, <1>6 DEF TakesBack, origin
  <1>7. ASSUME NEW n \in 1..Len(trunk), PassesChecks(n) PROVE BranchTypes'
    BY <1>0, <1>7 DEF PassesChecks
  <1>8. CASE UNCHANGED hotfixVars BY <1>1, <1>8 DEF hotfixVars, origin
  <1> QED
    BY <1>3, <1>4, <1>5, <1>6, <1>7, <1>8 DEF HotfixNext

LEMMA PassTypesKept ==
  ASSUME HotfixInv, [HotfixNext]_hotfixVars
  PROVE  PassTypes'
  <1> USE DEF HotfixInv, HotfixTypes, PassTypes, Steps
  <1>0. /\ Shipped \in NoneOrHotfixCommits /\ head \in NoneOrHotfixCommits
      /\ NoCommit \in NoneOrHotfixCommits
        /\ ref \in NoneOrHotfixCommits
    <2>1. Shipped \in HotfixCommits
      BY OfTheBranch
    <2> QED BY <2>1 DEF NoneOrHotfixCommits, CommitsAreSound, Sound
  <1>p. Routes \subseteq Passes
    BY DEF Passes
  <1>1. ASSUME NEW a \in Passes, BringsUp(a) PROVE PassTypes'
    <2>1. CASE ReadsHeading(a) BY <1>0, <2>1 DEF ReadsHeading, GoesTo, route
    <2>2. CASE ForgetsHotfix(a) BY <2>2 DEF ForgetsHotfix, GoesTo, route
    <2>3. CASE PlansToBuild(a) BY <1>0, <2>3 DEF PlansToBuild, GoesTo, route
    <2>4. CASE PlansToMove(a)
      BY <1>0, <2>4 DEF PlansToMove, GoesTo, EndsPass, PassEnded, route
    <2>5. CASE TakesTurn(a) BY <2>5 DEF TakesTurn, GoesTo, route
    <2>6. CASE NeedsNoTurn(a)
      BY <1>0, <2>6 DEF NeedsNoTurn, GoesTo, EndsPass, PassEnded, route
    <2>7. CASE CarriesOut(a)
      BY <1>0, <2>7 DEF CarriesOut, GoesTo, EndsPass, PassEnded, route
    <2>8. CASE EndsEarly(a)
      BY <1>0, <2>8 DEF EndsEarly, GoesTo, EndsPass, PassEnded, route
    <2> QED
      BY <1>1, <2>1, <2>2, <2>3, <2>4, <2>5, <2>6, <2>7, <2>8 DEF BringsUp
  <1>2. ASSUME NEW r \in Routes, RouteStep(r) PROVE PassTypes'
    <2> USE <1>p
    <2>1. CASE StartsRoute(r) BY <2>1 DEF StartsRoute, GoesTo, route
    <2>2. CASE SeesWhatIsAsked(r) BY <2>2 DEF SeesWhatIsAsked, GoesTo
    <2>3. CASE Builds(r)
      <3>1. PICK base \in {goal[r]} \cup {OnMain(Len(trunk))} :
              made' = [made EXCEPT ![r] = [base EXCEPT !.fixes = Append(@, r)]]
        BY <2>3 DEF Builds
      <3>2. Sound(goal[r])
        BY <2>3 DEF Builds, CommitsAreSound, Planning
      <3>3. Sound(OnMain(Len(trunk))) /\ Len(tags) + 1 \in Nat
        <4>1. BranchTypes /\ HotfixTypes
          OBVIOUS
        <4> QED BY ONLY <4>1, OfTheBranch, OnMainIsSound
      <3>4. base \in HotfixCommits
        BY <3>1, <3>2, <3>3 DEF Sound
      <3>5. [base EXCEPT !.fixes = Append(@, r)] \in NoneOrHotfixCommits
        BY <3>4, OneMoreFix DEF NoneOrHotfixCommits
      <3>6. made' \in [Routes -> NoneOrHotfixCommits]
        BY <3>1, <3>5
      <3> QED
        BY <1>0, <2>3, <3>3, <3>6 DEF Builds, GoesTo
    <2>4. CASE AsksFor(r) BY <2>4 DEF AsksFor, GoesTo
    <2>5. CASE Refuses(r) BY <1>0, <2>5 DEF Refuses
    <2>6. CASE Answers(r)
      <3>1. made' = [made EXCEPT ![r] = NoCommit] \/ made' = made
        BY <2>6 DEF Answers
      <3> QED BY <1>0, <2>6, <3>1 DEF Answers, GoesTo
    <2>7. CASE Drops(r) BY <1>0, <2>7 DEF Drops, GoesTo
    <2> QED BY <1>2, <2>1, <2>2, <2>3, <2>4, <2>5, <2>6, <2>7 DEF RouteStep
  <1>3. CASE TakesBack BY <1>3 DEF TakesBack, route
  <1>4. CASE Lands BY <1>4 DEF Lands, route
  <1>5. ASSUME NEW n \in 1..Len(trunk), PassesChecks(n) PROVE PassTypes'
    BY <1>5 DEF PassesChecks, route
  <1>6. CASE UNCHANGED hotfixVars BY <1>6 DEF hotfixVars, route
  <1> QED
    BY <1>1, <1>2, <1>3, <1>4, <1>5, <1>6 DEF HotfixNext

(* What a step does to the commits that a pass or the checkout has. *)
LEMMA CommitsKept ==
  ASSUME HotfixInv, [HotfixNext]_hotfixVars
  PROVE  CommitsAreSound'
  <1>1. HotfixTypes /\ HotfixTypes' /\ GoesForward
    BY BranchTypesKept, PassTypesKept, StepsGoForward DEF HotfixInv, HotfixTypes
  <1>2. ASSUME NEW c, Sound(c) PROVE StillSound(c)
    BY <1>1, <1>2, SoundStays
  <1>3. Sound(head) /\ (ref # NoCommit => Sound(ref)) /\ Sound(Shipped)
        /\ \A a \in Passes : at[a] \in Planning => Sound(goal[a])
    <2>1. Sound(Shipped)
      BY <1>1, OfTheBranch, OnMainIsSound DEF HotfixTypes, Shipped
    <2> QED BY <2>1 DEF HotfixInv, CommitsAreSound
  <1>4. StillSound(head) /\ (ref # NoCommit => StillSound(ref)) /\ StillSound(Shipped)
        /\ \A a \in Passes : at[a] \in Planning => StillSound(goal[a])
    BY <1>2, <1>3
  <1>5. ASSUME StillSound(head'), ref' # NoCommit => StillSound(ref'),
               \A a \in Passes : at'[a] \in Planning => StillSound(goal'[a])
        PROVE  CommitsAreSound'
    BY <1>5 DEF CommitsAreSound, Sound, StillSound, HasItsVersion, FixesOn, ToSet
  <1>t. at \in [Passes -> Steps] /\ goal \in [Passes -> NoneOrHotfixCommits]
        /\ Routes \subseteq Passes
    BY <1>1 DEF HotfixTypes, PassTypes, Passes
  <1>6. ASSUME NEW a \in Passes, BringsUp(a) PROVE CommitsAreSound'
    <2>1. CASE ReadsHeading(a)
      <3>1. PICK c \in {ref, Shipped} :
              /\ goal' = [goal EXCEPT ![a] = c] /\ (c = ref => ref # NoCommit \/ c = Shipped)
        BY <2>1 DEF ReadsHeading
      <3>2. StillSound(c)
        BY <1>4, <3>1
      <3>3. \A b \in Passes : b # a => at'[b] = at[b]
        BY <1>t, <2>1 DEF ReadsHeading, GoesTo
      <3>4. UNCHANGED <<head, ref>>
        BY <2>1 DEF ReadsHeading
      <3> QED BY <1>4, <1>5, <1>t, <3>1, <3>2, <3>3, <3>4
    <2>2. CASE ForgetsHotfix(a)
      BY <1>4, <1>5, <1>t, <2>2 DEF ForgetsHotfix, GoesTo, Planning
    <2>3. CASE PlansToBuild(a)
      <3>1. PICK c \in {goal[a], head} : goal' = [goal EXCEPT ![a] = c]
        BY <2>3 DEF PlansToBuild
      <3>2. StillSound(c)
        BY <1>4, <2>3, <3>1 DEF PlansToBuild, Planning
      <3>3. \A b \in Passes : b # a => at'[b] = at[b]
        BY <1>t, <2>3 DEF PlansToBuild, GoesTo
      <3>4. UNCHANGED <<head, ref>>
        BY <2>3 DEF PlansToBuild
      <3> QED BY <1>4, <1>5, <1>t, <3>1, <3>2, <3>3, <3>4
    <2>4. ASSUME EndsPass(a), UNCHANGED ref, head' \in {head, goal[a]},
                 at[a] \in Planning
          PROVE  CommitsAreSound'
      <3>1. StillSound(head')
        BY <1>4, <2>4
      <3>2. at'[a] \notin Planning
        BY <1>t, <2>4 DEF EndsPass, GoesTo, PassEnded, Planning
      <3>3. \A b \in Passes : b # a => at'[b] = at[b] /\ goal'[b] = goal[b]
        BY <1>t, <2>4 DEF EndsPass, GoesTo
      <3> QED BY <1>4, <1>5, <2>4, <3>1, <3>2, <3>3
    <2>5. CASE PlansToMove(a)
      <3>1. CASE EndsPass(a)
        BY <2>4, <2>5, <3>1 DEF PlansToMove, Planning
      <3>2. CASE GoesTo(a, "turn") /\ UNCHANGED goal
        BY <1>4, <1>5, <1>t, <2>5, <3>2 DEF PlansToMove, GoesTo, Planning
      <3> QED BY <2>5, <3>1, <3>2 DEF PlansToMove
    <2>6. CASE TakesTurn(a)
      BY <1>4, <1>5, <1>t, <2>6 DEF TakesTurn, GoesTo, Planning
    <2>7. CASE NeedsNoTurn(a)
      BY <2>4, <2>7 DEF NeedsNoTurn, Planning
    <2>8. CASE CarriesOut(a)
      BY <2>4, <2>8 DEF CarriesOut, Planning
    <2>9. CASE EndsEarly(a)
      BY <2>4, <2>9 DEF EndsEarly, Planning
    <2> QED
      BY <1>6, <2>1, <2>2, <2>3, <2>5, <2>6, <2>7, <2>8, <2>9 DEF BringsUp
  <1>7. ASSUME NEW r \in Routes, RouteStep(r) PROVE CommitsAreSound'
    <2> r \in Passes
      BY <1>t
    <2>1. CASE StartsRoute(r)
      BY <1>4, <1>5, <1>t, <2>1 DEF StartsRoute, GoesTo, Planning
    <2>2. CASE SeesWhatIsAsked(r)
      BY <1>4, <1>5, <1>t, <2>2 DEF SeesWhatIsAsked, GoesTo, Planning
    <2>3. CASE Builds(r)
      BY <1>4, <1>5, <1>t, <2>3 DEF Builds, GoesTo, Planning
    <2>4. CASE AsksFor(r)
      <3>1. /\ made[r] \in HotfixCommits /\ made[r].on <= Len(trunk)
            /\ \A q \in FixesOn(made[r]) \ {r} : HasItsVersion(q)
            /\ version[r] = Len(tags) + 1
        BY <1>1, <2>4, OfTheBranch
        DEF AsksFor, Tags, HotfixInv, MadeIsSound, HotfixTypes, PassTypes
      <3>2. UNCHANGED <<trunk, version>> /\ tags' = Append(tags, r)
        BY <2>4 DEF AsksFor, Tags, origin
      <3>3. Len(tags') = Len(tags) + 1 /\ tags'[Len(tags) + 1] = r /\ Len(tags) \in Nat
        BY <1>1, <3>2 DEF HotfixTypes, BranchTypes
      <3>4. version'[r] \in 1..Len(tags') /\ tags'[version'[r]] = r
        BY <3>1, <3>2, <3>3
      <3>5. FixesOn(made[r]) \subseteq Routes
        BY <3>1 DEF FixesOn, ToSet, HotfixCommits
      <3>6. StillSound(made[r])
        BY <1>1, <3>1, <3>2, <3>4, <3>5 DEF StillSound, GoesForward
      <3> QED
        BY <1>4, <1>5, <1>t, <2>4, <3>6 DEF AsksFor, GoesTo, Planning
    <2>5. CASE Refuses(r)
      BY <1>4, <1>5, <1>t, <2>5 DEF Refuses, Planning
    <2>6. CASE Answers(r)
      BY <1>4, <1>5, <1>t, <2>6 DEF Answers, GoesTo, Planning
    <2>7. CASE Drops(r)
      BY <1>4, <1>5, <1>t, <2>7 DEF Drops, GoesTo, Planning
    <2> QED BY <1>7, <2>1, <2>2, <2>3, <2>4, <2>5, <2>6, <2>7 DEF RouteStep
  <1>8. CASE TakesBack BY <1>4, <1>5, <1>8 DEF TakesBack
  <1>9. CASE Lands BY <1>4, <1>5, <1>9 DEF Lands
  <1>10. ASSUME NEW n \in 1..Len(trunk), PassesChecks(n) PROVE CommitsAreSound'
    BY <1>4, <1>5, <1>10 DEF PassesChecks
  <1>11. CASE UNCHANGED hotfixVars BY <1>4, <1>5, <1>11 DEF hotfixVars
  <1> QED
    BY <1>6, <1>7, <1>8, <1>9, <1>10, <1>11 DEF HotfixNext

LEMMA MadeKept ==
  ASSUME HotfixInv, [HotfixNext]_hotfixVars
  PROVE  MadeIsSound'
  <1>1. HotfixTypes /\ HotfixTypes' /\ GoesForward
    BY BranchTypesKept, PassTypesKept, StepsGoForward DEF HotfixInv, HotfixTypes
  <1>t. /\ at \in [Passes -> Steps] /\ made \in [Routes -> NoneOrHotfixCommits]
        /\ version \in [Routes -> Nat]
        /\ Len(trunk) \in Nat /\ Len(trunk') \in Nat /\ Len(trunk) <= Len(trunk')
        /\ Len(tags) \in Nat /\ Len(tags') \in Nat /\ Routes \subseteq Passes
    BY <1>1 DEF HotfixTypes, PassTypes, BranchTypes, GoesForward, Passes
  <1>2. ASSUME NEW r \in Routes, at[r] = "ask", UNCHANGED <<made[r], version[r]>>,
               Len(tags) <= Len(tags')
        PROVE  /\ made'[r] \in HotfixCommits /\ made'[r].on <= Len(trunk')
               /\ \A q \in FixesOn(made'[r]) \ {r} : HasItsVersion(q)'
               /\ version'[r] \in 1 .. Len(tags') + 1
    <2>1. /\ made[r] \in HotfixCommits /\ made[r].on <= Len(trunk) /\ made[r].on \in Nat
          /\ \A q \in FixesOn(made[r]) \ {r} : HasItsVersion(q)
          /\ version[r] \in 1 .. Len(tags) + 1
      BY <1>2 DEF HotfixInv, MadeIsSound, HotfixCommits
    <2>2. FixesOn(made[r]) \subseteq Routes
      BY <2>1 DEF FixesOn, ToSet, HotfixCommits
    <2>3. FixesOn(made'[r]) = FixesOn(made[r])
      BY <1>2 DEF FixesOn
    <2>4. \A q \in FixesOn(made'[r]) \ {r} : HasItsVersion(q)'
      BY <1>1, <2>1, <2>2, <2>3 DEF GoesForward, HasItsVersion
    <2> QED BY <1>2, <1>t, <2>1, <2>4
  <1>3. ASSUME Len(tags) <= Len(tags'),
               \A r \in Routes : at'[r] = "ask" =>
                 at[r] = "ask" /\ UNCHANGED <<made[r], version[r]>>
        PROVE  MadeIsSound'
    BY <1>2, <1>3 DEF MadeIsSound
  <1>4. ASSUME NEW r \in Routes, Builds(r) PROVE MadeIsSound'
    <2>1. PICK base : /\ \/ base = goal[r]
                         \/ base = OnMain(Len(trunk))
                      /\ made' = [made EXCEPT ![r] = [base EXCEPT !.fixes = Append(@, r)]]
      BY <1>4 DEF Builds
    <2>2. Sound(base)
      <3>1. Sound(goal[r])
        BY <1>4, <1>t DEF Builds, HotfixInv, CommitsAreSound, Planning
      <3>2. Sound(OnMain(Len(trunk)))
        BY <1>1, OfTheBranch, OnMainIsSound DEF HotfixTypes
      <3> QED BY <2>1, <3>1, <3>2
    <2>3. made'[r] = [base EXCEPT !.fixes = Append(@, r)]
      BY <1>t, <2>1
    <2>4. /\ made'[r] \in HotfixCommits /\ made'[r].on = base.on
          /\ FixesOn(made'[r]) = FixesOn(base) \cup {r}
      BY <2>2, <2>3, OneMoreFix DEF Sound
    <2>5. FixesOn(base) \subseteq Routes /\ base.on \in Nat
      BY <2>2 DEF FixesOn, ToSet, Sound, HotfixCommits
    <2>6. \A q \in FixesOn(made'[r]) \ {r} : HasItsVersion(q)'
      BY <1>1, <2>2, <2>4, <2>5 DEF GoesForward, HasItsVersion, Sound
    <2>7. UNCHANGED <<trunk, tags>> /\ version' = [version EXCEPT ![r] = Len(tags) + 1]
          /\ at' = [at EXCEPT ![r] = "ask"]
      BY <1>4 DEF Builds, GoesTo, origin
    <2>8. version'[r] \in 1 .. Len(tags') + 1
      <3>1. version'[r] = Len(tags) + 1 /\ Len(tags') = Len(tags)
        BY <1>t, <2>7
      <3> QED BY <1>t, <3>1
    <2>9. made'[r].on <= Len(trunk')
      BY <1>t, <2>2, <2>4, <2>5, <2>7 DEF Sound
    <2>10. ASSUME NEW q \in Routes, q # r, at'[q] = "ask"
           PROVE  at[q] = "ask" /\ UNCHANGED <<made[q], version[q]>>
      BY <1>t, <2>1, <2>7, <2>10
    <2>11. Len(tags) <= Len(tags')
      BY <1>t, <2>7
    <2> QED
      BY <1>2, <2>4, <2>6, <2>8, <2>9, <2>10, <2>11 DEF MadeIsSound
  <1>5. ASSUME UNCHANGED tags \/ \E e \in Routes : tags' = Append(tags, e)
        PROVE  Len(tags) <= Len(tags')
    <2>1. CASE UNCHANGED tags BY <1>t, <2>1
    <2>2. ASSUME NEW e \in Routes, tags' = Append(tags, e) PROVE Len(tags) <= Len(tags')
      <3>1. Len(tags') = Len(tags) + 1
        BY <1>1, <2>2 DEF HotfixTypes, BranchTypes
      <3> QED BY <1>t, <3>1
    <2> QED BY <1>5, <2>1, <2>2
  <1>6. ASSUME NEW a \in Passes, BringsUp(a) PROVE MadeIsSound'
    <2>1. UNCHANGED <<tags, made, version>>
      BY <1>6 DEF BringsUp, ReadsHeading, ForgetsHotfix, PlansToBuild, PlansToMove, TakesTurn,
        NeedsNoTurn, CarriesOut, EndsEarly, route
    <2>2. \E step : at' = [at EXCEPT ![a] = step] /\ step # "ask"
      BY <1>6 DEF BringsUp, ReadsHeading, ForgetsHotfix, PlansToBuild, PlansToMove, TakesTurn,
        NeedsNoTurn, CarriesOut, EndsEarly, GoesTo, EndsPass, PassEnded
    <2>3. \A r \in Routes : at'[r] = "ask" => at[r] = "ask"
      BY <1>t, <2>2
    <2> QED BY <1>3, <1>5, <2>1, <2>3
  <1>7. ASSUME NEW r \in Routes, RouteStep(r), ~Builds(r) PROVE MadeIsSound'
    <2>1. UNCHANGED tags \/ \E e \in Routes : tags' = Append(tags, e)
      BY <1>7 DEF RouteStep, StartsRoute, SeesWhatIsAsked, AsksFor, Tags, Refuses, Answers, Drops
    <2>2. \E step : at' = [at EXCEPT ![r] = step] /\ step # "ask"
      BY <1>7 DEF RouteStep, StartsRoute, SeesWhatIsAsked, AsksFor, Refuses, Answers, Drops,
        GoesTo
    <2>3. UNCHANGED version /\ (UNCHANGED made \/ \E c : made' = [made EXCEPT ![r] = c])
      BY <1>7 DEF RouteStep, StartsRoute, SeesWhatIsAsked, AsksFor, Refuses, Answers, Drops, route
    <2>4. \A q \in Routes : at'[q] = "ask" => q # r /\ at[q] = "ask" /\ made'[q] = made[q]
      BY <1>t, <2>2, <2>3
    <2> QED BY <1>3, <1>5, <2>1, <2>3, <2>4
  <1>8. ASSUME UNCHANGED <<tags, at, made, version>> PROVE MadeIsSound'
    BY <1>3, <1>5, <1>8
  <1>9. CASE TakesBack BY <1>8, <1>9 DEF TakesBack, route
  <1>10. CASE Lands BY <1>8, <1>10 DEF Lands, route
  <1>11. ASSUME NEW n \in 1..Len(trunk), PassesChecks(n) PROVE MadeIsSound'
    BY <1>8, <1>11 DEF PassesChecks, route
  <1>12. CASE UNCHANGED hotfixVars BY <1>8, <1>12 DEF hotfixVars, route
  <1> QED
    BY <1>4, <1>6, <1>7, <1>9, <1>10, <1>11, <1>12 DEF HotfixNext

LEMMA TagsOnceKept ==
  ASSUME HotfixInv, [HotfixNext]_hotfixVars
  PROVE  TagsOnce'
  <1>1. BranchTypes /\ PassTypes /\ TagsOnce
    BY DEF HotfixInv, HotfixTypes
  <1>t. at \in [Passes -> Steps] /\ aim \in [Passes -> {"look", "move"}]
        /\ Routes \subseteq Passes /\ Len(tags) \in Nat /\ tags \in Seq(Routes)
        /\ \A n \in 1..Len(tags) : tags[n] \in Routes
    BY <1>1 DEF PassTypes, BranchTypes, Passes
  <1> DEFINE Looks(r) == at[r] \in {"look at ref", "build", "ask"}
             LooksNext(r) == at'[r] \in {"look at ref", "build", "ask"}
             Done(r) == aim[r] = "move" \/ at[r] = "refused"
             DoneNext(r) == aim'[r] = "move" \/ at'[r] = "refused"
  <1>2. ASSUME UNCHANGED tags,
               \A r \in Routes : LooksNext(r) => aim'[r] = "look",
               \A r \in Routes : Done(r) => DoneNext(r)
        PROVE  TagsOnce'
    BY <1>1, <1>2, <1>t DEF TagsOnce
  <1>3. ASSUME NEW e \in Routes, tags' = Append(tags, e), DoneNext(e),
               \A r \in Routes : LooksNext(r) => aim'[r] = "look",
               \A r \in Routes : Done(r) => DoneNext(r)
        PROVE  TagsOnce'
    <2>1. /\ Len(tags') = Len(tags) + 1 /\ tags'[Len(tags) + 1] = e
          /\ \A n \in 1..Len(tags) : tags'[n] = tags[n]
      <3>1. tags \in Seq(Routes) /\ tags' = Append(tags, e) /\ e \in Routes
        BY <1>3, <1>t
      <3>2. Len(tags') = Len(tags) + 1 /\ tags'[Len(tags) + 1] = e
        BY ONLY <3>1
      <3>3. \A n \in 1..Len(tags) : tags'[n] = tags[n]
        BY ONLY <3>1
      <3> QED BY <3>2, <3>3
    <2>2. ASSUME NEW n \in 1..Len(tags') PROVE DoneNext(tags'[n])
      <3>1. CASE n = Len(tags) + 1 BY <1>3, <2>1, <3>1
      <3>2. CASE n \in 1..Len(tags)
        BY <1>1, <1>3, <1>t, <2>1, <3>2 DEF TagsOnce
      <3> QED BY <1>t, <2>1, <3>1, <3>2
    <2> QED BY <1>3, <2>2 DEF TagsOnce
  <1> HIDE DEF Looks, LooksNext, Done, DoneNext
  <1>4. ASSUME NEW a \in Passes, BringsUp(a) PROVE TagsOnce'
    <2>1. UNCHANGED <<tags, aim>> /\ at[a] \notin {"refused", "look at ref", "build", "ask"}
      BY <1>4 DEF BringsUp, ReadsHeading, ForgetsHotfix, PlansToBuild, PlansToMove, TakesTurn,
        NeedsNoTurn, CarriesOut, EndsEarly, route
    <2>2. \E step : at' = [at EXCEPT ![a] = step]
            /\ (step \notin {"look at ref", "build", "ask"} \/ aim[a] = "look")
      <3>1. CASE PlansToBuild(a) BY <3>1 DEF PlansToBuild, GoesTo
      <3>2. CASE ~PlansToBuild(a)
        BY <1>4, <3>2 DEF BringsUp, ReadsHeading, ForgetsHotfix, PlansToMove, TakesTurn,
          NeedsNoTurn, CarriesOut, EndsEarly, GoesTo, EndsPass, PassEnded
      <3> QED BY <3>1, <3>2
    <2>3. \A r \in Routes : LooksNext(r) => aim'[r] = "look"
      BY <1>1, <1>t, <2>1, <2>2 DEF LooksNext, TagsOnce
    <2>4. \A r \in Routes : Done(r) => DoneNext(r)
      BY <1>t, <2>1, <2>2 DEF Done, DoneNext
    <2> QED BY <1>2, <2>1, <2>3, <2>4
  <1>5. ASSUME NEW r \in Routes, RouteStep(r) PROVE TagsOnce'
    <2>1. \E step : /\ at' = [at EXCEPT ![r] = step]
                    /\ \/ step \notin {"look at ref", "build", "ask"}
                       \/ aim[r] = "look" /\ aim' = aim
      <3>1. CASE SeesWhatIsAsked(r)
        BY <1>1, <3>1 DEF SeesWhatIsAsked, GoesTo, TagsOnce
      <3>2. CASE Builds(r)
        BY <1>1, <3>2 DEF Builds, GoesTo, TagsOnce
      <3>3. CASE ~SeesWhatIsAsked(r) /\ ~Builds(r)
        BY <1>5, <3>3 DEF RouteStep, StartsRoute, AsksFor, Refuses, Answers, Drops, GoesTo
      <3> QED BY <3>1, <3>2, <3>3
    <2>2. aim' = aim \/ aim' = [aim EXCEPT ![r] = "move"]
      BY <1>5
      DEF RouteStep, StartsRoute, SeesWhatIsAsked, Builds, AsksFor, Refuses, Answers, Drops,
          route
    <2>3. at[r] # "refused"
      <3>1. CASE AsksFor(r) \/ Refuses(r)
        BY <3>1 DEF AsksFor, Refuses
      <3>2. CASE ~AsksFor(r) /\ ~Refuses(r)
        BY <1>5, <3>2 DEF RouteStep, StartsRoute, SeesWhatIsAsked, Builds, Answers, Drops
      <3> QED BY <3>1, <3>2
    <2>4. \A q \in Routes : LooksNext(q) => aim'[q] = "look"
      BY <1>1, <1>t, <2>1, <2>2 DEF LooksNext, TagsOnce
    <2>5. \A q \in Routes : Done(q) => DoneNext(q)
      BY <1>t, <2>1, <2>2, <2>3 DEF Done, DoneNext
    <2>6. \/ UNCHANGED tags
          \/ tags' = Append(tags, r) /\ DoneNext(r)
      BY <1>5, <1>t
      DEF RouteStep, StartsRoute, SeesWhatIsAsked, Builds, AsksFor, Tags, Refuses, Answers,
          Drops, DoneNext
    <2> QED BY <1>2, <1>3, <2>4, <2>5, <2>6
  <1>6. ASSUME UNCHANGED <<tags, at, aim>> PROVE TagsOnce'
    BY <1>1, <1>6 DEF TagsOnce
  <1>7. CASE TakesBack BY <1>6, <1>7 DEF TakesBack, route
  <1>8. CASE Lands BY <1>6, <1>8 DEF Lands, route
  <1>9. ASSUME NEW n \in 1..Len(trunk), PassesChecks(n) PROVE TagsOnce'
    BY <1>6, <1>9 DEF PassesChecks, route
  <1>10. CASE UNCHANGED hotfixVars BY <1>6, <1>10 DEF hotfixVars, route
  <1> QED
    BY <1>4, <1>5, <1>7, <1>8, <1>9, <1>10 DEF HotfixNext

LEMMA MovesAreAllowed ==
  ASSUME HotfixTypes, NEW from, Sound(from), NEW to, Sound(to), Leaves(from, to)
  PROVE  MayMove(from, to)
  <1>1. from.fixes \in Seq(Routes) /\ to.fixes \in Seq(Routes) /\ from.on \in Nat /\ to.on \in Nat
    BY DEF Sound, HotfixCommits
  <1>2. CASE IsAncestor(from, to)
    <2>1. CASE from.fixes = <<>>
      BY <2>1 DEF MayMove, FixesOn, ToSet
    <2>2. CASE from.fixes # <<>>
      <3>1. IsPrefix(from.fixes, to.fixes)
        BY <1>2, <2>2 DEF IsAncestor
      <3>2. Len(from.fixes) <= Len(to.fixes)
            /\ \A n \in 1..Len(from.fixes) : from.fixes[n] = to.fixes[n]
        <4>1. SubSeq(from.fixes, 1, Len(from.fixes)) = SubSeq(to.fixes, 1, Len(from.fixes))
              /\ Len(from.fixes) <= Len(to.fixes)
          BY <3>1 DEF IsPrefix
        <4>2. \A n \in 1..Len(from.fixes) :
                /\ SubSeq(from.fixes, 1, Len(from.fixes))[n] = from.fixes[n]
                /\ SubSeq(to.fixes, 1, Len(from.fixes))[n] = to.fixes[n]
          BY <1>1, <4>1
        <4> QED BY <4>1, <4>2
      <3>3. \A r \in ToSet(from.fixes) : r \in ToSet(to.fixes)
        BY <1>1, <3>2 DEF ToSet
      <3> QED BY <3>3 DEF MayMove, FixesOn
    <2> QED BY <2>1, <2>2
  <1>3. CASE takenBack = from
    BY <1>3 DEF MayMove
  <1>4. ASSUME NEW r, HasShipped(r, from, to) PROVE r \in AuthorsInEffect(0, to.on)
    <2>1. PICK base \in Nat : r \in AuthorsInEffect(base, to.on)
      BY <1>1, <1>4 DEF HasShipped
    <2>2. PICK n \in InEffect(SubSeq(trunk, 1, to.on)) : base < n /\ r = trunk[n].fix
      BY <2>1 DEF AuthorsInEffect
    <2>3. n \in Int
      BY DEF InEffect
    <2> QED BY <2>2, <2>3 DEF AuthorsInEffect
  <1> QED
    BY <1>2, <1>3, <1>4 DEF Leaves, MayMove

LEMMA UnderItsTurnKept ==
  ASSUME HotfixInv, [HotfixNext]_hotfixVars
  PROVE  UnderItsTurn'
  <1>1. HotfixTypes /\ UnderItsTurn /\ Sound(head)
        /\ \A a \in Passes : at[a] \in Planning => Sound(goal[a])
    BY DEF HotfixInv, CommitsAreSound
  <1>t. /\ at \in [Passes -> Steps] /\ goal \in [Passes -> NoneOrHotfixCommits]
        /\ Routes \subseteq Passes /\ NoCommit \notin Passes
    BY <1>1, HotfixAssumption DEF HotfixTypes, PassTypes, Passes
  <1>2. ASSUME NEW a \in Passes, at[a] # "carry out", UNCHANGED <<head, trunk, takenBack>>,
               UNCHANGED turn \/ turn = a,
               \A b \in Passes : b # a => at'[b] = at[b] /\ goal'[b] = goal[b],
               at'[a] # "carry out"
        PROVE  UnderItsTurn'
    BY <1>1, <1>2 DEF UnderItsTurn, MayMove, AuthorsInEffect
  <1>3. ASSUME NEW a \in Passes, at[a] = "carry out", at'[a] # "carry out",
               \A b \in Passes : b # a => at'[b] = at[b]
        PROVE  UnderItsTurn'
    BY <1>1, <1>3 DEF UnderItsTurn
  <1>4. ASSUME NEW a \in Passes, BringsUp(a) PROVE UnderItsTurn'
    <2>1. \A b \in Passes : b # a => at'[b] = at[b] /\ goal'[b] = goal[b]
      BY <1>4, <1>t DEF BringsUp, ReadsHeading, ForgetsHotfix, PlansToBuild, PlansToMove,
        TakesTurn, NeedsNoTurn, CarriesOut, EndsEarly, GoesTo, EndsPass
    <2>2. CASE TakesTurn(a)
      <3>1. MayMove(head, goal[a])
        BY <1>1, <2>2, MovesAreAllowed DEF TakesTurn, Planning
      <3>2. /\ turn = NoCommit /\ turn' = a
            /\ UNCHANGED <<head, trunk, takenBack, goal>>
        BY <2>2 DEF TakesTurn, origin
      <3>3. \A b \in Passes : at[b] # "carry out"
        BY <1>1, <1>t, <3>2 DEF UnderItsTurn
      <3>4. \A b \in Passes : at'[b] = "carry out" => b = a
        BY <2>1, <3>3
      <3> QED BY <3>1, <3>2, <3>4 DEF UnderItsTurn, MayMove, AuthorsInEffect
    <2>3. CASE ~TakesTurn(a)
      <3>1. at'[a] # "carry out"
        BY <1>4, <1>t, <2>3
        DEF BringsUp, ReadsHeading, ForgetsHotfix, PlansToBuild, PlansToMove, NeedsNoTurn,
            CarriesOut, EndsEarly, GoesTo, EndsPass, PassEnded
      <3>2. CASE at[a] = "carry out"
        BY <1>3, <2>1, <3>1, <3>2
      <3>3. CASE at[a] # "carry out"
        <4>1. UNCHANGED <<head, trunk, takenBack>> /\ (UNCHANGED turn \/ turn = a)
          BY <1>4, <2>3, <3>3
          DEF BringsUp, ReadsHeading, ForgetsHotfix, PlansToBuild, PlansToMove, NeedsNoTurn,
              CarriesOut, EndsEarly, origin
        <4> QED BY <1>2, <2>1, <3>1, <3>3, <4>1
      <3> QED BY <3>2, <3>3
    <2> QED BY <2>2, <2>3
  <1>5. ASSUME NEW r \in Routes, RouteStep(r) PROVE UnderItsTurn'
    <2>1. UNCHANGED <<head, trunk, takenBack, turn>>
      BY <1>5 DEF RouteStep, StartsRoute, SeesWhatIsAsked, Builds, AsksFor, Refuses, Answers,
        Drops, origin
    <2>2. at[r] # "carry out"
      BY <1>5 DEF RouteStep, StartsRoute, SeesWhatIsAsked, Builds, AsksFor, Refuses, Answers,
        Drops
    <2>3. \E step : at' = [at EXCEPT ![r] = step] /\ step # "carry out"
      BY <1>5 DEF RouteStep, StartsRoute, SeesWhatIsAsked, Builds, AsksFor, Refuses, Answers,
        Drops, GoesTo
    <2>4. UNCHANGED goal \/ goal' = [goal EXCEPT ![r] = NoCommit]
      BY <1>5 DEF RouteStep, StartsRoute, SeesWhatIsAsked, Builds, AsksFor, Refuses, Answers,
        Drops
    <2>5. \A b \in Passes : b # r => at'[b] = at[b] /\ goal'[b] = goal[b]
      BY <1>t, <2>3, <2>4
    <2>6. at'[r] # "carry out"
      BY <1>t, <2>3
    <2> QED BY <1>2, <1>t, <2>1, <2>2, <2>5, <2>6
  <1>6. CASE TakesBack
    <2>1. UNCHANGED <<head, trunk, at, goal, turn>>
          /\ takenBack' = IF head.fixes # <<>> THEN head ELSE takenBack
      BY <1>6 DEF TakesBack, origin
    <2>2. head.fixes = <<>> => FixesOn(head) = {}
      BY DEF FixesOn, ToSet
    <2> QED BY <1>1, <2>1, <2>2 DEF UnderItsTurn, MayMove, AuthorsInEffect
  <1>7. CASE Lands
    <2>1. UNCHANGED <<head, takenBack, at, goal, turn>>
      BY <1>7 DEF Lands
    <2>2. PICK e \in LandedFixes : trunk' = Append(trunk, e)
      <3>1. \A n \in 1..Len(trunk) : n \in Nat
        BY <1>1, OfTheBranch DEF HotfixTypes
      <3> QED BY <1>7, <3>1 DEF Lands, LandedFixes
    <2>3. ASSUME NEW on \in 0..Len(trunk)
          PROVE  AuthorsInEffect(0, on)' = AuthorsInEffect(0, on)
      <3>1. trunk \in Seq(LandedFixes) /\ trunk' = Append(trunk, e) /\ e \in LandedFixes
            /\ on \in 0..Len(trunk)
        BY <1>1, <2>2 DEF HotfixTypes, BranchTypes
      <3>2. \A n \in 1..on : trunk'[n] = trunk[n]
        BY ONLY <3>1
      <3>3. SubSeq(trunk', 1, on) = SubSeq(trunk, 1, on)
        BY ONLY <3>1
      <3>4. InEffect(SubSeq(trunk, 1, on)) \subseteq 1..on
        <4>1. Len(SubSeq(trunk, 1, on)) = on
          BY ONLY <3>1
        <4> QED BY <4>1 DEF InEffect
      <3> QED BY <3>2, <3>3, <3>4 DEF AuthorsInEffect
    <2>4. ASSUME NEW a \in Passes, at[a] = "carry out"
          PROVE  AuthorsInEffect(0, goal[a].on)' = AuthorsInEffect(0, goal[a].on)
      <3>1. goal[a].on \in 0..Len(trunk)
        <4>1. Sound(goal[a])
          BY <1>1, <2>4 DEF Planning
        <4>2. Len(trunk) \in Nat
          BY <1>1, OfTheBranch DEF HotfixTypes
        <4> QED BY <4>1, <4>2 DEF Sound, HotfixCommits
      <3> QED BY <2>1, <2>3, <3>1 DEF AuthorsInEffect
    <2> QED BY <1>1, <2>1, <2>4 DEF UnderItsTurn, MayMove
  <1>8. ASSUME UNCHANGED <<head, trunk, takenBack, at, goal, turn>> PROVE UnderItsTurn'
    <2>1. ASSUME NEW a \in Passes, at'[a] = "carry out"
          PROVE  turn' = a /\ MayMove(head, goal[a])'
      <3>1. turn = a /\ MayMove(head, goal[a])
        BY <1>1, <1>8, <2>1 DEF UnderItsTurn
      <3> QED BY <1>8, <3>1 DEF MayMove, AuthorsInEffect
    <2> QED BY <2>1 DEF UnderItsTurn
  <1>9. ASSUME NEW n \in 1..Len(trunk), PassesChecks(n) PROVE UnderItsTurn'
    BY <1>8, <1>9 DEF PassesChecks
  <1>10. CASE UNCHANGED hotfixVars BY <1>8, <1>10 DEF hotfixVars, origin
  <1> QED
    BY <1>4, <1>5, <1>6, <1>7, <1>9, <1>10 DEF HotfixNext

LEMMA HotfixKept == HotfixInv /\ [HotfixNext]_hotfixVars => HotfixInv'
  BY BranchTypesKept, PassTypesKept, CommitsKept, MadeKept, TagsOnceKept, UnderItsTurnKept
  DEF HotfixInv, HotfixTypes

(***************************************************************************)
(* Theorems.                                                               *)
(***************************************************************************)

(* Whatever routes build beside each other, the version that a fix production
   runs is pinned to is the one its own route tagged.                       *)
THEOREM HotfixVersionsAreKept == HotfixSpec => []VersionsAreKept
  <1>1. HotfixInv => VersionsAreKept
    BY DEF HotfixInv, CommitsAreSound, Sound, HasItsVersion, VersionsAreKept
  <1> QED
    BY HotfixInitially, HotfixKept, <1>1, PTL DEF HotfixSpec

(* However old a pass's plan was, production moves off a fix only to where
   it is in effect, or because it was taken back.                           *)
THEOREM NoFixIsLeft == HotfixSpec => FixesStay
  <1> DEFINE Kept == \A r \in FixesOn(head) \ FixesOn(head') :
                       takenBack = head \/ r \in AuthorsInEffect(0, head'.on)
  <1>1. HotfixInv /\ [HotfixNext]_hotfixVars => [Kept]_hotfixVars
    <2> SUFFICES ASSUME HotfixInv, HotfixNext, head' # head PROVE Kept
      BY DEF FixesOn
    <2>1. PICK a \in Passes : CarriesOut(a)
      BY DEF HotfixNext, BringsUp, ReadsHeading, ForgetsHotfix, PlansToBuild, PlansToMove,
        TakesTurn, NeedsNoTurn, EndsEarly, RouteStep, StartsRoute, SeesWhatIsAsked, Builds,
        AsksFor, Refuses, Answers, Drops, TakesBack, Lands, PassesChecks
    <2>2. head' = goal[a] /\ MayMove(head, goal[a])
      BY <2>1 DEF CarriesOut, HotfixInv, UnderItsTurn
    <2> QED BY <2>2 DEF MayMove
  <1> QED
    BY HotfixInitially, HotfixKept, <1>1, PTL DEF HotfixSpec, FixesStay
=============================================================================
