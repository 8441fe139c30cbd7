------------------------------ MODULE PartsProofs ------------------------------
(***************************************************************************)
(* Settings, flakes, processes and the ratchet, and the family as a whole. *)
(*                                                                         *)
(* A run over the settings carries what it has yet to change for each      *)
(* place; the gate of flakes, where each test it was dealt is by now; the  *)
(* ratchet, what main holds at each path.  Who descends from whom, and     *)
(* what a definition reaches, are told step by step: what holds of number  *)
(* after number is proved from the well-founded order of the naturals      *)
(* (SmallestNumber, ByInduction), whose theorems take no operator.         *)
(*                                                                         *)
(* FamilyIsItsParts: in a behaviour of the family each part behaves as it  *)
(* is specified alone, so each of the theorems above holds of the family.  *)
(***************************************************************************)
EXTENDS Family, FamilyProofs, ChannelsProofs, HotfixProofs, FiniteSetTheorems,
        WellFoundedInduction, TLAPS

(***************************************************************************)
(* Windows' settings.  While nothing crosses a run, each place is as its   *)
(* list has it or a change that makes it so is to be made, and none is to  *)
(* be made to what is someone's own.                                       *)
(***************************************************************************)

Things == [by : Checkouts \cup {Nobodys}, starts : Checkouts] \cup {Nobodys}
SettingsTypeOK ==
  /\ machine \in [Places -> Things] /\ here \subseteq Checkouts
  /\ undisturbed \in BOOLEAN /\ running \in BOOLEAN
  /\ todo \subseteq [at : Places, put : Things]
OnlyInARun == ~running => todo = {}
IsAsListed(p) ==
  IF Listing(p) # {}
    THEN machine[p] = Wanted(p) \/ (machine[p] = Nobodys /\ p \in {Pin, Menu})
    ELSE machine[p] = Nobodys \/ p = Pin \/ machine[p].by \notin here
ChangesAreWanted ==
  \A change \in todo :
    /\ Listing(change.at) # {} => change.put = Wanted(change.at)
    /\ Listing(change.at) = {} => change.put = Nobodys
TheRestIsAsListed ==
  \A p \in Places : (\A change \in todo : change.at # p) => IsAsListed(p)
TheirsStay ==
  \A p \in theirs :
    /\ p \in Places /\ machine[p] # Nobodys /\ machine[p].by = Nobodys
    /\ \A change \in todo : change.at # p
SettlesInv ==
  /\ SettingsTypeOK /\ OnlyInARun
  /\ undisturbed => ChangesAreWanted /\ TheRestIsAsListed /\ TheirsStay

(* What is listed for a place starts a checkout that is there. *)
LEMMA WantedIsAThing ==
  ASSUME SettlesInv, NEW p \in Places, Listing(p) # {}
  PROVE  Wanted(p) \in Things
<1>1. (CHOOSE c \in Listing(p) : TRUE) \in Checkouts
  BY DEF Listing, SettlesInv, SettingsTypeOK
<1> QED BY <1>1 DEF Wanted, TaskFor, ShortcutFor, Things

(* Nobody looked yet. *)
LEMMA SettlesInitially == SettingsInit => SettlesInv
BY DEF SettingsInit, SettlesInv, SettingsTypeOK, OnlyInARun, Things

(* A look that hears from everything leaves out what is as it should be and
   what is someone's own.                                                 *)
LEMMA LookingSettles == ASSUME SettlesInv, Looks PROVE SettlesInv'
<1>1. PICK heard \in BOOLEAN :
        /\ todo' = ToWrite(heard) \cup ToRemove(heard)
        /\ undisturbed' = heard
  BY DEF Looks
<1>2. /\ UNCHANGED <<lists, here, machine>> /\ running' = TRUE
      /\ theirs' = {p \in Places : /\ Listing(p) = {} /\ machine[p] # Nobodys
                                   /\ machine[p].by = Nobodys}
  BY DEF Looks
<1>3. SettingsTypeOK' /\ OnlyInARun'
  <2>1. ToWrite(heard) \subseteq [at : Places, put : Things]
    BY WantedIsAThing DEF ToWrite
  <2>2. ToRemove(heard) \subseteq [at : Places, put : Things]
    BY DEF ToRemove, Things
  <2> QED BY <1>1, <1>2, <2>1, <2>2 DEF SettlesInv, SettingsTypeOK, OnlyInARun
<1>4. \A p \in Places : /\ Listing(p)' = Listing(p) /\ Wanted(p)' = Wanted(p)
                        /\ IsAsListed(p)' = IsAsListed(p)
  BY <1>2 DEF Listing, Wanted, IsAsListed
<1>5. ASSUME undisturbed'
      PROVE  (ChangesAreWanted /\ TheRestIsAsListed /\ TheirsStay)'
  <2>1. heard = TRUE
    BY <1>1, <1>5
  <2>2. \A p \in Places : Found(p, heard) = machine[p]
    BY <2>1 DEF Found, TaskThere, ShortcutAt
  <2>3. \A change \in ToWrite(heard) :
          /\ change.at \in Places /\ Listing(change.at) # {}
          /\ change.put = Wanted(change.at)
    BY DEF ToWrite
  <2>4. \A change \in ToRemove(heard) :
          /\ change.at \in Places /\ Listing(change.at) = {} /\ change.put = Nobodys
          /\ machine[change.at] # Nobodys /\ machine[change.at].by \in here
    BY <2>2 DEF ToRemove, NoLongerListed
  <2>5. \A p \in Places : Listing(p) # {} /\ (\A change \in todo' : change.at # p)
          => ~Differs(p, machine[p])
    <3> SUFFICES ASSUME NEW p \in Places, Listing(p) # {}, Differs(p, machine[p])
                 PROVE  \E change \in todo' : change.at = p
      OBVIOUS
    <3>1. [at |-> p, put |-> Wanted(p)] \in ToWrite(heard)
      BY <2>2 DEF ToWrite
    <3> QED BY <1>1, <3>1
  <2>6. \A p \in Places : Listing(p) = {} /\ p # Pin /\ (\A change \in todo' : change.at # p)
          => ~NoLongerListed(machine[p])
    <3> SUFFICES ASSUME NEW p \in Places, Listing(p) = {}, p # Pin, NoLongerListed(machine[p])
                 PROVE  \E change \in todo' : change.at = p
      OBVIOUS
    <3>1. [at |-> p, put |-> Nobodys] \in ToRemove(heard)
      BY <2>2 DEF ToRemove
    <3> QED BY <1>1, <3>1
  <2>7. ChangesAreWanted'
    BY <1>1, <1>4, <2>3, <2>4 DEF ChangesAreWanted
  <2>8. TheRestIsAsListed'
    <3> SUFFICES ASSUME NEW p \in Places, \A change \in todo' : change.at # p
                 PROVE  IsAsListed(p)
      BY <1>4 DEF TheRestIsAsListed
    <3>1. CASE Listing(p) # {}
      <4>1. ~Differs(p, machine[p])
        BY <2>5, <3>1
      <4>2. p \notin AddedWhenMissing => p \in {Pin, Menu}
        BY DEF Places, AddedWhenMissing
      <4> QED BY <3>1, <4>1, <4>2 DEF Differs, IsAsListed
    <3>2. CASE Listing(p) = {}
      <4>1. p = Pin \/ ~NoLongerListed(machine[p])
        BY <2>6, <3>2
      <4> QED BY <3>2, <4>1 DEF NoLongerListed, IsAsListed
    <3> QED BY <3>1, <3>2
  <2>9. TheirsStay'
    <3> SUFFICES ASSUME NEW p \in theirs'
                 PROVE  /\ p \in Places /\ machine[p] # Nobodys /\ machine[p].by = Nobodys
                        /\ \A change \in todo' : change.at # p
      BY <1>2 DEF TheirsStay
    <3>1. /\ p \in Places /\ Listing(p) = {} /\ machine[p] # Nobodys
          /\ machine[p].by = Nobodys
      BY <1>2
    <3>2. Nobodys \notin here
      BY SettingsAssumption DEF SettlesInv, SettingsTypeOK
    <3> QED BY <1>1, <2>3, <2>4, <3>1, <3>2
  <2> QED BY <2>7, <2>8, <2>9
<1> QED BY <1>3, <1>5 DEF SettlesInv

(* A change that is made settles its place, and touches no other. *)
LEMMA MakingSettles ==
  ASSUME SettlesInv, NEW change \in todo, Makes(change) PROVE SettlesInv'
<1>1. /\ machine' = [machine EXCEPT ![change.at] = change.put]
      /\ todo' = todo \ {change} /\ running
      /\ UNCHANGED <<lists, here, running, undisturbed, theirs>>
  BY DEF Makes, MakesShortcut, MakesTask
<1>2. \A p \in Places : Listing(p)' = Listing(p) /\ Wanted(p)' = Wanted(p)
  BY <1>1 DEF Listing, Wanted
<1>3. OnlyInARun'
  BY <1>1 DEF OnlyInARun
<1>4. /\ machine \in [Places -> Things]
      /\ change.at \in Places /\ change.put \in Things
  BY DEF SettlesInv, SettingsTypeOK
<1>5. SettingsTypeOK'
  BY <1>1, <1>4 DEF SettlesInv, SettingsTypeOK
<1>6. ASSUME undisturbed PROVE (ChangesAreWanted /\ TheRestIsAsListed /\ TheirsStay)'
  <2>1. ChangesAreWanted /\ TheRestIsAsListed /\ TheirsStay
    BY <1>6 DEF SettlesInv
  <2>2. /\ machine'[change.at] = change.put
        /\ \A p \in Places : p # change.at => machine'[p] = machine[p]
    BY <1>1, <1>4
  <2>3. ChangesAreWanted'
    <3> SUFFICES ASSUME NEW other \in todo'
                 PROVE  /\ Listing(other.at)' # {} => other.put = Wanted(other.at)'
                        /\ Listing(other.at)' = {} => other.put = Nobodys
      BY DEF ChangesAreWanted
    <3>1. other \in todo /\ other.at \in Places
      BY <1>1 DEF SettlesInv, SettingsTypeOK
    <3> QED BY <1>2, <2>1, <3>1 DEF ChangesAreWanted
  <2>4. TheRestIsAsListed'
    <3> SUFFICES ASSUME NEW p \in Places, \A other \in todo \ {change} : other.at # p
                 PROVE  IsAsListed(p)'
      BY <1>1 DEF TheRestIsAsListed
    <3>1. CASE p = change.at
      BY <1>2, <1>4, <2>1, <2>2, <3>1 DEF ChangesAreWanted, IsAsListed
    <3>2. CASE p # change.at
      <4>1. IsAsListed(p)
        BY <2>1, <3>2 DEF TheRestIsAsListed
      <4> QED BY <1>1, <1>2, <2>2, <3>2, <4>1 DEF IsAsListed
    <3> QED BY <3>1, <3>2
  <2>5. TheirsStay'
    BY <1>1, <2>1, <2>2 DEF TheirsStay
  <2> QED BY <2>3, <2>4, <2>5
<1> QED BY <1>1, <1>3, <1>5, <1>6 DEF SettlesInv

(* What people change, or Windows refuses, disturbs the run. *)
LEMMA SettlesKept == SettlesInv /\ [SettingsNext]_settingsVars => SettlesInv'
<1> SUFFICES ASSUME SettlesInv, [SettingsNext]_settingsVars PROVE SettlesInv'
  OBVIOUS
<1>1. CASE Looks BY <1>1, LookingSettles
<1>2. ASSUME NEW change \in todo, Makes(change) PROVE SettlesInv'
  BY <1>2, MakingSettles
<1>3. ASSUME NEW change \in todo, IsRefused(change) PROVE SettlesInv'
  BY <1>3 DEF IsRefused, SettlesInv, SettingsTypeOK, OnlyInARun
<1>4. CASE RunEnds
  <2>1. /\ UNCHANGED <<lists, here, machine, todo, undisturbed, theirs>>
        /\ todo = {} /\ running' = FALSE
    BY <1>4 DEF RunEnds
  <2> QED BY <2>1 DEF SettlesInv, SettingsTypeOK, OnlyInARun, ChangesAreWanted,
                      TheRestIsAsListed, TheirsStay, IsAsListed, Listing, Wanted
<1>5. ASSUME NEW c \in Checkouts, CheckoutGoes(c) PROVE SettlesInv'
  <2>1. machine' \in [Places -> Things]
    BY <1>5 DEF CheckoutGoes, SettlesInv, SettingsTypeOK, Things
  <2> QED BY <1>5, <2>1 DEF CheckoutGoes, Changes, SettlesInv, SettingsTypeOK, OnlyInARun
<1>6. ASSUME NEW c \in Checkouts, NEW p \in Places, ListChanges(c, p) PROVE SettlesInv'
  BY <1>6 DEF ListChanges, Changes, SettlesInv, SettingsTypeOK, OnlyInARun
<1>7. ASSUME NEW p \in Places, HeChanges(p) PROVE SettlesInv'
  <2>1. machine' \in [Places -> Things]
    BY <1>7 DEF HeChanges, SettlesInv, SettingsTypeOK, Things
  <2> QED BY <1>7, <2>1 DEF HeChanges, Changes, SettlesInv, SettingsTypeOK, OnlyInARun
<1>8. CASE UNCHANGED settingsVars
  BY <1>8 DEF settingsVars, SettlesInv, SettingsTypeOK, OnlyInARun, ChangesAreWanted,
              TheRestIsAsListed, TheirsStay, IsAsListed, Listing, Wanted
<1> QED BY <1>1, <1>2, <1>3, <1>4, <1>5, <1>6, <1>7, <1>8 DEF SettingsNext

(* A run that nothing crosses leaves each place as its list has it and what
   is someone's own alone, for any checkouts, lists and changes before it
   (windows_settings.py, scheduled_tasks.py).                             *)
THEOREM ARunThatSettles == SettingsSpec => []ARunSettles
<1>1. SettlesInv => ARunSettles
  BY DEF SettlesInv, OnlyInARun, TheRestIsAsListed, TheirsStay, IsAsListed, ARunSettles
<1> QED BY SettlesInitially, SettlesKept, <1>1, PTL DEF SettingsSpec

(***************************************************************************)
(* The flake gate.  A test that is no longer left was repeated; the ones   *)
(* that are together in a chunk passed in all its runs but the one to come. *)
(***************************************************************************)

GateTests == OldTests \cup NewTests
Increasing(ids) == \A i, j \in DOMAIN ids : i < j => ids[i] < ids[j]
FlakesTypeOK ==
  /\ gate \in {"out", "choose", "run", "held", "refused"}
  /\ parts \in 1..2 /\ capped \in BOOLEAN /\ runNumber \in 1..Repeats
  /\ passes \in [GateTests -> Nat]
  /\ clock \in Nat /\ spent \in Nat /\ testRuns \in Nat
  /\ changedIds \in Seq(GateTests) /\ share \in Seq(GateTests)
  /\ left \in Seq(GateTests) /\ chunk \in Seq(GateTests)
WhatIsNotLeftWasRepeated ==
  \A t \in ToSet(share) \ ToSet(left) : passes[t] >= Repeats
AChunkIsTheFirstOfWhatIsLeft ==
  gate = "run" =>
    /\ Len(chunk) <= Len(left) /\ \A k \in 1..Len(chunk) : chunk[k] = left[k]
    /\ \A k \in 1..Len(chunk) : passes[chunk[k]] >= runNumber - 1
OnlyACapLeavesSome == gate = "held" => capped \/ left = <<>>
RepeatedInv ==
  /\ FlakesTypeOK /\ Increasing(changedIds)
  /\ WhatIsNotLeftWasRepeated /\ AChunkIsTheFirstOfWhatIsLeft /\ OnlyACapLeavesSome

(* What a sequence holds. *)
LEMMA InASequence ==
  ASSUME NEW S, NEW s \in Seq(S)
  PROVE  /\ Len(s) \in Nat /\ DOMAIN s = 1..Len(s) /\ \A i \in 1..Len(s) : s[i] \in S
         /\ ToSet(s) = {s[i] : i \in 1..Len(s)} /\ ToSet(s) \subseteq S
BY DEF ToSet

(* A share is every second one, or all of them. *)
LEMMA WhatIsDealt ==
  ASSUME NEW S, NEW ids \in Seq(S), NEW of \in 1..2, NEW deal \in 1..of
  PROVE  /\ ShareOf(ids, deal, of) \in Seq(S)
         /\ ToSet(ShareOf(ids, deal, of)) =
              {ids[i] : i \in {j \in 1..Len(ids) : j % of = deal % of}}
<1> DEFINE n == (Len(ids) - deal + of) \div of
           nth(k) == deal + (k - 1) * of
<1>1. Len(ids) \in Nat
  OBVIOUS
<1>2. (of = 1 /\ deal = 1) \/ (of = 2 /\ deal \in {1, 2})
  OBVIOUS
<1>3. n \in Nat /\ \A k \in 1..n : nth(k) \in 1..Len(ids) /\ nth(k) % of = deal % of
  <2>1. CASE of = 1 /\ deal = 1 BY <1>1, <2>1
  <2>2. CASE of = 2 /\ deal = 1 BY <1>1, <2>2
  <2>3. CASE of = 2 /\ deal = 2 BY <1>1, <2>3
  <2> QED BY <1>2, <2>1, <2>2, <2>3
<1>4. \A i \in 1..Len(ids) : i % of = deal % of => \E k \in 1..n : nth(k) = i
  <2> SUFFICES ASSUME NEW i \in 1..Len(ids), i % of = deal % of
               PROVE  \E k \in 1..n : nth(k) = i
    OBVIOUS
  <2> DEFINE k == (i - deal + of) \div of
  <2>1. k \in 1..n /\ nth(k) = i
    <3>1. CASE of = 1 /\ deal = 1 BY <1>1, <3>1
    <3>2. CASE of = 2 /\ deal = 1 BY <1>1, <3>2
    <3>3. CASE of = 2 /\ deal = 2 BY <1>1, <3>3
    <3> QED BY <1>2, <3>1, <3>2, <3>3
  <2> QED BY <2>1
<1>5. \A i \in 1..Len(ids) : ids[i] \in S
  OBVIOUS
<1>6. ShareOf(ids, deal, of) = [k \in 1..n |-> ids[nth(k)]]
  BY DEF ShareOf
<1> HIDE DEF n, nth
<1>7. ShareOf(ids, deal, of) \in Seq(S) /\ DOMAIN ShareOf(ids, deal, of) = 1..n
  BY <1>3, <1>5, <1>6
<1>8. ToSet(ShareOf(ids, deal, of)) = {ids[nth(k)] : k \in 1..n}
  BY <1>6, <1>7 DEF ToSet
<1>9. {ids[nth(k)] : k \in 1..n}
        = {ids[i] : i \in {j \in 1..Len(ids) : j % of = deal % of}}
  BY <1>3, <1>4
<1> QED BY <1>7, <1>8, <1>9

(* Every test falls to one machine. *)
LEMMA DealtToOne ==
  ASSUME NEW S, S \subseteq Nat, NEW ids \in Seq(S), Increasing(ids), NEW of \in 1..2,
         NEW t \in ToSet(ids)
  PROVE  Cardinality({deal \in 1..of : t \in ToSet(ShareOf(ids, deal, of))}) = 1
<1>1. \A deal \in 1..of : \A x :
        x \in ToSet(ShareOf(ids, deal, of))
          <=> \E i \in 1..Len(ids) : i % of = deal % of /\ ids[i] = x
  <2> SUFFICES ASSUME NEW deal \in 1..of
               PROVE  ToSet(ShareOf(ids, deal, of))
                        = {ids[i] : i \in {j \in 1..Len(ids) : j % of = deal % of}}
    OBVIOUS
  <2> QED BY WhatIsDealt, SMTT(60)
<1>2. PICK i \in 1..Len(ids) : ids[i] = t
  BY InASequence
<1>3. \A j \in 1..Len(ids) : ids[j] = t => j = i
  <2> SUFFICES ASSUME NEW j \in 1..Len(ids), ids[j] = t, j # i PROVE FALSE
    OBVIOUS
  <2>1. j \in DOMAIN ids /\ i \in DOMAIN ids /\ ids[i] \in Nat
    <3>1. Len(ids) \in Nat /\ DOMAIN ids = 1..Len(ids) /\ ids[i] \in S
      BY InASequence
    <3> QED BY <3>1
  <2>2. j < i \/ i < j
    <3>1. Len(ids) \in Nat
      OBVIOUS
    <3> QED BY <3>1
  <2> QED BY <1>2, <2>1, <2>2 DEF Increasing
<1>4. \A deal \in 1..of : t \in ToSet(ShareOf(ids, deal, of)) <=> i % of = deal % of
  BY <1>1, <1>2, <1>3
<1>5. \E one \in 1..of : \A deal \in 1..of : i % of = deal % of <=> deal = one
  <2>1. i \in Nat BY <1>2
  <2>2. CASE of = 1 BY <2>1, <2>2
  <2>3. CASE of = 2
    <3>1. 1..of = {1, 2} /\ 1 % of = 1 /\ 2 % of = 0 BY <2>3
    <3>2. i % of \in {0, 1} BY <2>1, <2>3
    <3> QED BY <3>1, <3>2
  <2> QED BY <2>2, <2>3
<1>6. PICK one \in 1..of : \A deal \in 1..of : i % of = deal % of <=> deal = one
  BY <1>5
<1>7. {deal \in 1..of : t \in ToSet(ShareOf(ids, deal, of))} = {one}
  BY <1>4, <1>6
<1> QED BY <1>7, FS_Singleton

(* The gate is out. *)
LEMMA RepeatedInitially == FlakesInit => RepeatedInv
<1> SUFFICES ASSUME FlakesInit PROVE RepeatedInv
  OBVIOUS
<1>1. /\ changedIds = <<>> /\ share = <<>> /\ left = <<>> /\ chunk = <<>>
      /\ gate = "out" /\ parts = 1 /\ capped = FALSE /\ runNumber = 1
      /\ clock = 0 /\ spent = 0 /\ testRuns = 0
  BY DEF FlakesInit
<1>2. FlakesTypeOK
  <2>1. <<>> \in Seq(GateTests) /\ Repeats \in Nat \ {0}
    BY FlakesAssumption
  <2>2. passes \in [GateTests -> Nat]
    BY DEF FlakesInit, GateTests
  <2>3. 1 \in 1..Repeats
    BY <2>1
  <2>4. runNumber \in 1..Repeats /\ parts \in 1..2
    BY <1>1, <2>3
  <2>5. /\ changedIds \in Seq(GateTests) /\ share \in Seq(GateTests)
        /\ left \in Seq(GateTests) /\ chunk \in Seq(GateTests)
    BY <1>1, <2>1
  <2> QED BY <1>1, <2>2, <2>4, <2>5 DEF FlakesTypeOK
<1>3. Increasing(changedIds) /\ ToSet(share) = {}
  BY <1>1 DEF Increasing, ToSet
<1> QED BY <1>1, <1>2, <1>3 DEF RepeatedInv, WhatIsNotLeftWasRepeated,
                               AChunkIsTheFirstOfWhatIsLeft, OnlyACapLeavesSome

LEMMA DealingRepeats == ASSUME RepeatedInv, Deals PROVE RepeatedInv'
<1>1. PICK ids \in InOrderOf(ChangedTests \cup NewTests), of \in 1..2 : \E deal \in 1..of :
        changedIds' = ids /\ parts' = of /\ share' = ShareOf(ids, deal, of)
  BY DEF Deals
<1>2. PICK deal \in 1..of :
        changedIds' = ids /\ parts' = of /\ share' = ShareOf(ids, deal, of)
  BY <1>1
<1>3. /\ left' = share' /\ capped' \in BOOLEAN
      /\ gate' = IF share' = <<>> THEN "held" ELSE "choose"
      /\ UNCHANGED <<chunk, runNumber, passes, clock, spent, testRuns>>
  BY DEF Deals
<1>4. ids \in Seq(GateTests) /\ Increasing(ids)
  <2> DEFINE tests == ChangedTests \cup NewTests
  <2>1. tests \subseteq GateTests
    BY DEF ChangedTests, GateTests
  <2>2. IsFiniteSet(tests)
    BY <2>1, FlakesAssumption, FS_Union, FS_Subset DEF GateTests
  <2>3. Cardinality(tests) \in Nat
    BY <2>2, FS_CardinalityType
  <2>4. ids \in [1..Cardinality(tests) -> tests] /\ Increasing(ids)
    BY <1>1 DEF InOrderOf, Increasing
  <2>5. ids \in [1..Cardinality(tests) -> GateTests]
    BY <2>1, <2>4
  <2> HIDE DEF tests
  <2>6. ids \in Seq(GateTests)
    BY <2>3, <2>5
  <2> QED BY <2>4, <2>6
<1>5. share' \in Seq(GateTests)
  BY <1>2, <1>4, WhatIsDealt
<1>6. FlakesTypeOK'
  BY <1>2, <1>3, <1>4, <1>5 DEF RepeatedInv, FlakesTypeOK
<1>7. ToSet(share') \ ToSet(left') = {}
  BY <1>3
<1>8. Increasing(changedIds)'
  BY <1>2, <1>4 DEF Increasing
<1> QED BY <1>3, <1>6, <1>7, <1>8
        DEF RepeatedInv, WhatIsNotLeftWasRepeated, AChunkIsTheFirstOfWhatIsLeft,
            OnlyACapLeavesSome

(* What fits is a number of tests. *)
LEMMA SomeFit == ASSUME FlakesTypeOK PROVE ThatFit \in Nat
<1>1. /\ {Repeats, Cap, FirstChunk} \subseteq Nat \ {0}
      /\ clock \in Nat /\ spent \in Nat /\ testRuns \in Nat
  BY FlakesAssumption DEF FlakesTypeOK
<1>2. CASE spent # 0
  <2>1. \A a \in Int, b \in Nat \ {0} : Larger(0, a \div b) \in Nat
    BY DEF Larger
  <2>2. \A a, b \in Int : a * b \in Int
    OBVIOUS
  <2>3. \A a, b \in Nat \ {0} : a * b \in Nat \ {0}
    OBVIOUS
  <2>4. (Cap - clock) * testRuns \in Int /\ spent * Repeats \in Nat \ {0}
    BY <1>1, <1>2, <2>2, <2>3
  <2> QED BY <1>2, <2>1, <2>4 DEF ThatFit
<1> QED BY <1>1, <1>2 DEF ThatFit

(* Without a cap something fits, as long as anything is left. *)
LEMMA ChoosingRepeats == ASSUME RepeatedInv, TakesChunk PROVE RepeatedInv'
<1> DEFINE holds == Smaller(Len(left), PerCommand)
           size == IF capped THEN Smaller(holds, ThatFit) ELSE holds
<1>1. /\ UNCHANGED <<changedIds, parts, capped, share, left, passes, clock, spent, testRuns>>
      /\ IF size = 0
           THEN gate' = "held" /\ UNCHANGED <<chunk, runNumber>>
           ELSE gate' = "run" /\ runNumber' = 1 /\ chunk' = SubSeq(left, 1, size)
  BY DEF TakesChunk
<1>2. Len(left) \in Nat /\ PerCommand \in Nat \ {0} /\ Repeats \in Nat \ {0}
  BY FlakesAssumption DEF RepeatedInv, FlakesTypeOK
<1>3. left \in Seq(GateTests) /\ capped \in BOOLEAN /\ passes \in [GateTests -> Nat]
  BY DEF RepeatedInv, FlakesTypeOK
<1>4. holds \in Nat /\ holds <= Len(left) /\ (holds = 0 => left = <<>>)
  BY <1>2, <1>3 DEF Smaller
<1>5. size \in Nat /\ size <= Len(left)
  BY <1>2, <1>4, SomeFit DEF Smaller, RepeatedInv
<1>6. WhatIsNotLeftWasRepeated'
  BY <1>1 DEF RepeatedInv, WhatIsNotLeftWasRepeated
<1>7. CASE size = 0
  <2>1. capped \/ left = <<>>
    BY <1>4, <1>7
  <2> QED BY <1>1, <1>6, <1>7, <2>1
          DEF RepeatedInv, FlakesTypeOK, Increasing, AChunkIsTheFirstOfWhatIsLeft,
              OnlyACapLeavesSome
<1>8. CASE size # 0
  <2> HIDE DEF holds, size
  <2>1. /\ chunk' = [k \in 1..size |-> left[k]] /\ Len(chunk') = size
        /\ \A k \in 1..size : left[k] \in GateTests
    BY <1>1, <1>3, <1>5, <1>8
  <2>2. chunk' \in Seq(GateTests)
    BY <1>5, <2>1
  <2>3. FlakesTypeOK'
    BY <1>1, <1>2, <1>8, <2>2 DEF RepeatedInv, FlakesTypeOK
  <2>4. AChunkIsTheFirstOfWhatIsLeft'
    BY <1>1, <1>3, <1>5, <1>8, <2>1 DEF AChunkIsTheFirstOfWhatIsLeft
  <2> QED BY <1>1, <1>6, <1>8, <2>3, <2>4
          DEF RepeatedInv, Increasing, OnlyACapLeavesSome
<1> QED BY <1>7, <1>8

(* The last run of a chunk takes it off what is left. *)
LEMMA PassingRepeats == ASSUME RepeatedInv, ChunkPasses PROVE RepeatedInv'
<1>1. /\ gate = "run" /\ UNCHANGED <<changedIds, parts, capped, share, chunk>>
      /\ passes' = [t \in DOMAIN passes |->
                      IF t \in ToSet(chunk) THEN passes[t] + 1 ELSE passes[t]]
      /\ IF runNumber = Repeats
           THEN /\ left' = SubSeq(left, Len(chunk) + 1, Len(left))
                /\ gate' = IF left' = <<>> THEN "held" ELSE "choose"
                /\ UNCHANGED runNumber
           ELSE runNumber' = runNumber + 1 /\ UNCHANGED <<left, gate>>
  BY DEF ChunkPasses, RepeatedEnough
<1>2. FlakesTypeOK /\ AChunkIsTheFirstOfWhatIsLeft /\ WhatIsNotLeftWasRepeated
      /\ Increasing(changedIds) /\ Repeats \in Nat
  BY FlakesAssumption DEF RepeatedInv
<1>3. /\ left \in Seq(GateTests) /\ chunk \in Seq(GateTests) /\ share \in Seq(GateTests)
      /\ Len(chunk) \in Nat /\ Len(left) \in Nat /\ passes \in [GateTests -> Nat]
      /\ runNumber \in 1..Repeats
  BY <1>2 DEF FlakesTypeOK
<1>4. /\ passes' \in [GateTests -> Nat]
      /\ \A t \in GateTests : passes'[t] >= passes[t]
      /\ \A k \in 1..Len(chunk) : passes'[chunk[k]] = passes[chunk[k]] + 1
  <2>1. \A k \in 1..Len(chunk) : chunk[k] \in ToSet(chunk) /\ chunk[k] \in GateTests
    BY <1>3 DEF ToSet
  <2> QED BY <1>1, <1>3, <2>1
<1>5. clock' \in Nat /\ spent' \in Nat /\ testRuns' \in Nat
  <2>1. PICK seconds \in {Len(chunk), 2 * Len(chunk)} :
          /\ clock' = IF capped THEN clock + seconds ELSE clock
          /\ spent' = IF capped THEN spent + seconds ELSE spent
    BY DEF ChunkPasses
  <2>2. testRuns' = IF capped THEN testRuns + Len(chunk) ELSE testRuns
    BY DEF ChunkPasses
  <2>3. clock \in Nat /\ spent \in Nat /\ testRuns \in Nat /\ capped \in BOOLEAN
    BY <1>2 DEF FlakesTypeOK
  <2>4. seconds \in Nat
    BY <1>3
  <2> HIDE DEF FlakesTypeOK
  <2> QED BY <1>3, <2>1, <2>2, <2>3, <2>4
<1>6. \A t \in ToSet(share) : t \in GateTests
  BY <1>3, InASequence
<1>7. Increasing(changedIds)'
  BY <1>1, <1>2 DEF Increasing
<1>8. CASE runNumber = Repeats
  <2>1. /\ left' = [k \in 1..(Len(left) - Len(chunk)) |-> left[k + Len(chunk)]]
        /\ Len(chunk) <= Len(left)
    <3>1. Len(chunk) <= Len(left) /\ left' = SubSeq(left, Len(chunk) + 1, Len(left))
      BY <1>1, <1>2, <1>8 DEF AChunkIsTheFirstOfWhatIsLeft
    <3>2. \A n \in Nat : n <= Len(left) =>
            SubSeq(left, n + 1, Len(left)) = [k \in 1..(Len(left) - n) |-> left[k + n]]
      BY <1>3
    <3> QED BY <1>3, <3>1, <3>2
  <2>2. /\ left' \in Seq(GateTests) /\ Len(left') = Len(left) - Len(chunk)
        /\ DOMAIN left' = 1..(Len(left) - Len(chunk))
    BY <1>3, <2>1
  <2>3. FlakesTypeOK'
    BY <1>1, <1>2, <1>4, <1>5, <1>8, <2>2 DEF FlakesTypeOK
  <2>4. \A t \in ToSet(left) \ ToSet(left') : \E k \in 1..Len(chunk) : chunk[k] = t
    <3> SUFFICES ASSUME NEW k \in 1..Len(left), k > Len(chunk)
                 PROVE  left[k] \in ToSet(left')
      <4>1. ToSet(left) = {left[i] : i \in 1..Len(left)}
        BY <1>3, InASequence
      <4>2. \A i \in 1..Len(left) : i > Len(chunk) \/ i \in 1..Len(chunk)
        BY <1>3
      <4> QED BY <1>1, <1>2, <4>1, <4>2 DEF AChunkIsTheFirstOfWhatIsLeft
    <3>1. k - Len(chunk) \in 1..(Len(left) - Len(chunk))
      BY <1>3, <2>1
    <3>2. left'[k - Len(chunk)] = left[k]
      BY <1>3, <2>1, <3>1
    <3> QED BY <2>2, <3>1, <3>2 DEF ToSet
  <2>5. WhatIsNotLeftWasRepeated'
    <3> SUFFICES ASSUME NEW t \in ToSet(share) \ ToSet(left') PROVE passes'[t] >= Repeats
      BY <1>1 DEF WhatIsNotLeftWasRepeated
    <3>1. CASE t \in ToSet(left)
      <4>1. PICK k \in 1..Len(chunk) : chunk[k] = t
        BY <2>4, <3>1
      <4>2. passes[t] >= Repeats - 1 /\ t \in GateTests
        BY <1>1, <1>2, <1>6, <1>8, <4>1 DEF AChunkIsTheFirstOfWhatIsLeft
      <4> QED BY <1>2, <1>3, <1>4, <4>1, <4>2
    <3>2. CASE t \notin ToSet(left)
      <4>1. passes[t] >= Repeats /\ t \in GateTests
        BY <1>2, <1>6, <3>2 DEF WhatIsNotLeftWasRepeated
      <4> QED BY <1>2, <1>3, <1>4, <4>1
    <3> QED BY <3>1, <3>2
  <2> QED BY <1>1, <1>7, <1>8, <2>3, <2>5
          DEF RepeatedInv, AChunkIsTheFirstOfWhatIsLeft, OnlyACapLeavesSome
<1>9. CASE runNumber # Repeats
  <2>1. /\ runNumber' = runNumber + 1 /\ runNumber' \in 1..Repeats
        /\ UNCHANGED <<left, gate>>
    BY <1>1, <1>2, <1>3, <1>9
  <2>2. FlakesTypeOK'
    BY <1>1, <1>2, <1>4, <1>5, <2>1 DEF FlakesTypeOK
  <2>3. WhatIsNotLeftWasRepeated'
    <3> SUFFICES ASSUME NEW t \in ToSet(share) \ ToSet(left) PROVE passes'[t] >= Repeats
      BY <1>1, <2>1 DEF WhatIsNotLeftWasRepeated
    <3>1. passes[t] >= Repeats /\ t \in GateTests
      BY <1>2, <1>6 DEF WhatIsNotLeftWasRepeated
    <3> QED BY <1>2, <1>3, <1>4, <3>1
  <2>4. AChunkIsTheFirstOfWhatIsLeft'
    <3> SUFFICES ASSUME NEW k \in 1..Len(chunk)
                 PROVE  passes'[chunk[k]] >= runNumber' - 1
      BY <1>1, <1>2, <2>1 DEF AChunkIsTheFirstOfWhatIsLeft
    <3>1. passes[chunk[k]] >= runNumber - 1 /\ chunk[k] \in GateTests
      BY <1>1, <1>2, <1>3 DEF AChunkIsTheFirstOfWhatIsLeft
    <3> QED BY <1>3, <1>4, <2>1, <3>1
  <2> QED BY <1>1, <1>7, <2>1, <2>2, <2>3, <2>4 DEF RepeatedInv, OnlyACapLeavesSome
<1> QED BY <1>8, <1>9

(* Commits come before, and a gate that stops early leaves what it has. *)
LEMMA RepeatedKept == RepeatedInv /\ [FlakesNext]_flakeVars => RepeatedInv'
<1> SUFFICES ASSUME RepeatedInv, [FlakesNext]_flakeVars PROVE RepeatedInv'
  OBVIOUS
<1> USE DEF RepeatedInv, FlakesTypeOK, Increasing, WhatIsNotLeftWasRepeated,
            AChunkIsTheFirstOfWhatIsLeft, OnlyACapLeavesSome
<1>1. CASE Commits \/ MainCommits BY <1>1 DEF Commits, MainCommits, CommitsOne
<1>2. CASE Deals BY <1>2, DealingRepeats
<1>3. CASE TakesChunk BY <1>3, ChoosingRepeats
<1>4. CASE StopsShort BY <1>4 DEF StopsShort, WouldEndLate
<1>5. CASE IsCutShort BY <1>5, FlakesAssumption DEF IsCutShort
<1>6. CASE ChunkPasses BY <1>6, PassingRepeats
<1>7. CASE ChunkFails BY <1>7 DEF ChunkFails
<1>8. CASE UNCHANGED flakeVars BY <1>8 DEF flakeVars
<1> QED BY <1>1, <1>2, <1>3, <1>4, <1>5, <1>6, <1>7, <1>8 DEF FlakesNext

(* Of a share that held up each test passed every repeat or is named as
   left, and each changed test is in one share, for any tests, repeats, cap
   and chunks (flake_gate.py).                                            *)
THEOREM HeldIsRepeated == FlakesSpec => []EachIsRepeatedOrNamed
<1>1. RepeatedInv => EachIsRepeatedOrNamed
  <2> SUFFICES ASSUME RepeatedInv PROVE EachIsRepeatedOrNamed
    OBVIOUS
  <2>1. \A t \in ToSet(changedIds) :
          Cardinality({deal \in 1..parts :
                         t \in ToSet(ShareOf(changedIds, deal, parts))}) = 1
    <3>1. GateTests \subseteq Nat
      BY FlakesAssumption DEF GateTests
    <3>2. changedIds \in Seq(GateTests) /\ Increasing(changedIds) /\ parts \in 1..2
      BY DEF RepeatedInv, FlakesTypeOK
    <3> QED BY <3>1, <3>2, DealtToOne
  <2> QED BY <2>1 DEF RepeatedInv, WhatIsNotLeftWasRepeated, OnlyACapLeavesSome,
                      EachIsRepeatedOrNamed
<1> QED BY RepeatedInitially, RepeatedKept, <1>1, PTL DEF FlakesSpec

(***************************************************************************)
(* Induction on numbers, for sets of them: of those that are left out      *)
(* there would be a smallest.                                              *)
(***************************************************************************)

LEMMA SmallestNumber ==
  ASSUME NEW T, T \subseteq Nat, T # {}
  PROVE  \E n \in T : \A m \in T : n <= m
<1> DEFINE Below == OpToRel(<, Nat)
<1>1. IsWellFoundedOn(Below, Nat)
  BY NatLessThanWellFounded
<1>2. \A m, n \in Nat : m < n => <<m, n>> \in Below
  BY DEF OpToRel
<1> HIDE DEF Below
<1>3. PICK n \in T : \A m \in T : <<m, n>> \notin Below
  BY <1>1, WFMin
<1>4. \A m \in T : ~(m < n)
  BY <1>2, <1>3
<1> QED BY <1>3, <1>4

LEMMA ByInduction ==
  ASSUME NEW T, T \subseteq Nat, 0 \in T, \A n \in T : n + 1 \in T
  PROVE  T = Nat
<1> SUFFICES ASSUME Nat \ T # {} PROVE FALSE
  OBVIOUS
<1>1. PICK n \in Nat \ T : \A m \in Nat \ T : n <= m
  <2>1. Nat \ T \subseteq Nat OBVIOUS
  <2> QED BY <2>1, SmallestNumber
<1>2. n # 0 /\ n - 1 \in Nat
  BY <1>1
<1>3. n - 1 \in T
  BY <1>1, <1>2
<1> QED BY <1>1, <1>2, <1>3

(* What one step after another makes of the first. *)
StepsOn(f, N, X, first, Onward) ==
  /\ f \in [0..N -> X]
  /\ f[0] = first /\ \A k \in 1..N : f[k] = Onward[f[k - 1]]

LEMMA StepAfterStep ==
  ASSUME NEW N \in Nat, NEW X, NEW first \in X, NEW Onward \in [X -> X]
  PROVE  \E f : StepsOn(f, N, X, first, Onward)
<1> DEFINE T == {n \in Nat : \E f : StepsOn(f, n, X, first, Onward)}
<1>1. 0 \in T
  <2>1. StepsOn([k \in 0..0 |-> first], 0, X, first, Onward)
    BY DEF StepsOn
  <2> QED BY <2>1
<1>2. ASSUME NEW n \in T PROVE n + 1 \in T
  <2>1. n \in Nat
    OBVIOUS
  <2>2. PICK f : StepsOn(f, n, X, first, Onward)
    OBVIOUS
  <2> DEFINE g == [k \in 0..(n + 1) |-> IF k = n + 1 THEN Onward[f[n]] ELSE f[k]]
  <2>3. \A k \in 0..n : k \in 0..(n + 1) /\ k # n + 1 /\ f[k] \in X /\ g[k] = f[k]
    BY <2>1, <2>2 DEF StepsOn
  <2>4. n + 1 \in 0..(n + 1) /\ g[n + 1] = Onward[f[n]] /\ n \in 0..n
    BY <2>1
  <2>5. g \in [0..(n + 1) -> X]
    <3>1. Onward[f[n]] \in X
      BY <2>3, <2>4
    <3>2. \A k \in 0..(n + 1) : k = n + 1 \/ k \in 0..n
      BY <2>1
    <3> QED BY <2>3, <3>1, <3>2
  <2>6. g[0] = first
    <3>1. 0 \in 0..n
      BY <2>1
    <3> QED BY <2>2, <2>3, <3>1 DEF StepsOn
  <2>7. ASSUME NEW k \in 1..(n + 1) PROVE g[k] = Onward[g[k - 1]]
    <3>1. k - 1 \in 0..n
      BY <2>1
    <3>2. CASE k = n + 1
      BY <2>1, <2>3, <2>4, <3>1, <3>2
    <3>3. CASE k # n + 1
      <4>1. k \in 1..n /\ k \in 0..n
        BY <2>1, <3>3
      <4> QED BY <2>2, <2>3, <3>1, <4>1 DEF StepsOn
    <3> QED BY <3>2, <3>3
  <2>8. StepsOn(g, n + 1, X, first, Onward)
    <3> HIDE DEF g
    <3> QED BY <2>5, <2>6, <2>7 DEF StepsOn
  <2> HIDE DEF g
  <2> QED BY <2>1, <2>8
<1>3. N \in T
  <2>1. T \subseteq Nat
    OBVIOUS
  <2> HIDE DEF T
  <2> QED BY <1>1, <1>2, <2>1, ByInduction
<1> QED BY <1>3

(***************************************************************************)
(* Processes.  Once no pid is handed on in the middle of a look, what was  *)
(* seen last of a pid that a process has for its parent's is its parent,   *)
(* unless it started later.  So what an agent's process started is an      *)
(* agent's, and what is marked was started by one, whatever of it was only *)
(* seen and has ended since.                                               *)
(***************************************************************************)

ProcessesTypeOK ==
  /\ table \in [Pids -> [born : Nat, ppid : Pids, claude : BOOLEAN, mark : BOOLEAN,
                         closed : BOOLEAN] \cup {Gone}]
  /\ listed \in [Pids -> [ppid : Pids \cup {Gone}, started : Nat, claude : BOOLEAN]
                         \cup {Gone}]
  /\ entries \in [Pids -> Pids \cup {Gone}]
  /\ answers \in [Pids -> {"agent", "his", Gone}]
  /\ births \in Nat /\ handedOn \subseteq Pids
BirthsAreCounted ==
  /\ \A p \in Live : table[p].born \in 1..births
  /\ \A p \in Listed : listed[p].started \in 0..births
  /\ agents \subseteq 1..births
ListsTheSnapshot ==
  /\ \A p \in Pids : listed[p] # Gone => entries[p] # Gone /\ listed[p].ppid = entries[p]
  /\ \A p \in handedOn : entries[p] # Gone
ListedAsTheyAre ==
  handedOn = {} =>
    /\ \A p \in Live : entries[p] # Gone => entries[p] = table[p].ppid
    /\ \A p \in Live \cap Listed :
         \/ table[p].closed /\ listed[p].started = 0
         \/ listed[p].started = table[p].born /\ listed[p].claude = table[p].claude
AgentsAreAgents ==
  /\ \A p \in Live : table[p].claude \/ table[p].mark => table[p].born \in agents
  /\ \A p \in Listed : listed[p].claude => listed[p].started \in agents
Seen(p, birth) ==
  \/ p \in Live /\ table[p].born = birth
  \/ handedOn = {} /\ p \in Listed /\ listed[p].started = birth /\ birth # 0
SeenUnder(parent, p, birth) ==
  \/ p \in Live /\ table[p].born = birth /\ table[p].ppid = parent
  \/ /\ handedOn = {} /\ p \in Listed /\ listed[p].started = birth /\ birth # 0
     /\ listed[p].ppid = parent
AgentsStartAgents ==
  \A parent, p \in Pids : \A before, birth \in Nat :
    Seen(parent, before) /\ SeenUnder(parent, p, birth) /\ before <= birth
      => (before \in agents => birth \in agents)
AgentsStartTheMarked ==
  \A parent \in Pids, p \in Live : \A before \in Nat :
    Seen(parent, before) /\ table[p].ppid = parent /\ before <= table[p].born
      => (table[p].mark => before \in agents)
AgentsInv ==
  /\ ProcessesTypeOK /\ BirthsAreCounted /\ ListsTheSnapshot /\ ListedAsTheyAre
  /\ AgentsAreAgents /\ AgentsStartAgents /\ AgentsStartTheMarked

(* The shell he starts programs from is nobody's. *)
LEMMA AgentsInitially == ProcessesInit => AgentsInv
<1> SUFFICES ASSUME ProcessesInit PROVE AgentsInv
  OBVIOUS
<1> USE ProcessesAssumption
<1>1. /\ births = 1 /\ agents = {} /\ handedOn = {}
      /\ \A p \in Pids : listed[p] = Gone /\ entries[p] = Gone
      /\ table = [p \in Pids |-> IF p = Shell
                    THEN [born |-> 1, ppid |-> Shell, claude |-> FALSE,
                          mark |-> FALSE, closed |-> FALSE]
                    ELSE Gone]
  BY DEF ProcessesInit, Nothing
<1>2. ProcessesTypeOK
  BY <1>1 DEF ProcessesInit, Nothing, ProcessesTypeOK
<1>3. \A p \in Live : table[p].born = 1 /\ ~table[p].claude /\ ~table[p].mark
  BY <1>1 DEF Live
<1>4. Listed = {}
  BY <1>1 DEF Listed
<1>5. BirthsAreCounted /\ ListsTheSnapshot /\ AgentsAreAgents
  BY <1>1, <1>3, <1>4 DEF BirthsAreCounted, ListsTheSnapshot, AgentsAreAgents
<1>6. ListedAsTheyAre
  BY <1>1, <1>4 DEF ListedAsTheyAre, Live
<1>7. AgentsStartAgents /\ AgentsStartTheMarked
  BY <1>1, <1>3 DEF AgentsStartAgents, AgentsStartTheMarked
<1> QED BY <1>2, <1>5, <1>6, <1>7 DEF AgentsInv

(* What shows nothing new of anyone changes nothing of it. *)
LEMMA NothingNewIsSeen ==
  ASSUME AgentsInv, UNCHANGED agents,
         \A p \in Pids, birth \in Nat : Seen(p, birth)' => Seen(p, birth),
         \A parent, p \in Pids, birth \in Nat :
           SeenUnder(parent, p, birth)' => SeenUnder(parent, p, birth),
         \A p \in Live' : p \in Live /\ table'[p] = table[p]
  PROVE  (AgentsStartAgents /\ AgentsStartTheMarked)'
BY DEF AgentsInv, AgentsStartAgents, AgentsStartTheMarked

(* One that starts has a parent that is there. *)
LEMMA StartingKeepsAgents ==
  ASSUME AgentsInv, NEW parent \in Pids, NEW p \in Pids, ProcessStarts(parent, p)
  PROVE  AgentsInv'
<1>1. /\ parent \in Live /\ p \notin Live /\ births' = births + 1 /\ p # parent
      /\ handedOn' = handedOn \cup ({p} \cap {q \in Pids : entries[q] # Gone})
      /\ UNCHANGED <<entries, listed, described, answers>>
  BY DEF ProcessStarts
<1>2. PICK claude, marked, closed \in BOOLEAN :
        /\ marked => table[parent].claude \/ table[parent].mark
        /\ table' = [table EXCEPT ![p] =
                       [born |-> births', ppid |-> parent, claude |-> claude,
                        mark |-> marked, closed |-> closed]]
        /\ agents' = IF claude \/ table[parent].born \in agents
                       THEN agents \cup {births'} ELSE agents
  BY DEF ProcessStarts
<1>3. /\ table'[p] = [born |-> births', ppid |-> parent, claude |-> claude,
                      mark |-> marked, closed |-> closed]
      /\ \A q \in Pids : q # p => table'[q] = table[q]
  BY <1>2 DEF AgentsInv, ProcessesTypeOK
<1>4. /\ births \in Nat /\ births' = births + 1 /\ agents \subseteq 1..births
      /\ agents \subseteq agents' /\ agents' \subseteq agents \cup {births + 1}
  BY <1>1, <1>2 DEF AgentsInv, ProcessesTypeOK, BirthsAreCounted
<1>5. /\ \A q \in Live' : q = p \/ (q \in Live /\ table'[q] = table[q])
      /\ Listed' = Listed /\ Live' \subseteq Pids /\ Live \subseteq Pids
  BY <1>1, <1>3 DEF Live, Listed
<1>6. handedOn' = {} => handedOn = {} /\ p \notin Listed /\ entries[p] = Gone
  BY <1>1 DEF Listed, AgentsInv, ListsTheSnapshot
<1>7. ProcessesTypeOK'
  BY <1>1, <1>2, <1>4 DEF AgentsInv, ProcessesTypeOK
<1>8. BirthsAreCounted'
  BY <1>1, <1>3, <1>4, <1>5 DEF AgentsInv, BirthsAreCounted
<1>9. ListsTheSnapshot'
  BY <1>1 DEF AgentsInv, ListsTheSnapshot
<1>10. ListedAsTheyAre'
  BY <1>1, <1>5, <1>6 DEF AgentsInv, ListedAsTheyAre
<1>11. AgentsAreAgents'
  <2>1. claude \/ marked => births + 1 \in agents'
    BY <1>1, <1>2 DEF AgentsInv, AgentsAreAgents
  <2>2. \A q \in Live' : table'[q].claude \/ table'[q].mark => table'[q].born \in agents'
    <3>1. /\ table'[p].born = births + 1
          /\ (table'[p].claude => claude) /\ (table'[p].mark => marked)
      BY <1>1, <1>3
    <3>2. \A q \in Live : table[q].claude \/ table[q].mark => table[q].born \in agents
      BY DEF AgentsInv, AgentsAreAgents
    <3> QED BY <1>4, <1>5, <2>1, <3>1, <3>2
  <2>3. \A q \in Listed' : listed'[q].claude => listed'[q].started \in agents'
    BY <1>1, <1>4, <1>5 DEF AgentsInv, AgentsAreAgents
  <2> QED BY <2>2, <2>3 DEF AgentsAreAgents
<1>12. \A q \in Pids, birth \in Nat :
         Seen(q, birth)' => \/ Seen(q, birth) /\ birth <= births
                            \/ q = p /\ birth = births + 1
  BY <1>1, <1>3, <1>4, <1>5, <1>6 DEF Seen, AgentsInv, BirthsAreCounted
<1>13. \A r, q \in Pids, birth \in Nat :
         SeenUnder(r, q, birth)' => \/ SeenUnder(r, q, birth) /\ birth <= births
                                    \/ q = p /\ r = parent /\ birth = births + 1
  BY <1>1, <1>3, <1>4, <1>5, <1>6 DEF SeenUnder, AgentsInv, BirthsAreCounted
<1>14. \A birth \in Nat : Seen(parent, birth) => birth = table[parent].born
  BY <1>1 DEF Seen, AgentsInv, ListedAsTheyAre
<1>15. AgentsStartAgents'
  <2> SUFFICES ASSUME NEW r \in Pids, NEW q \in Pids, NEW before \in Nat, NEW birth \in Nat,
                      Seen(r, before)', SeenUnder(r, q, birth)', before <= birth,
                      before \in agents'
               PROVE  birth \in agents'
    BY DEF AgentsStartAgents
  <2>1. CASE SeenUnder(r, q, birth) /\ birth <= births
    <3>1. Seen(r, before) /\ before \in agents
      BY <1>4, <1>12, <2>1
    <3> QED BY <1>4, <2>1, <3>1 DEF AgentsInv, AgentsStartAgents
  <2>2. CASE q = p /\ r = parent /\ birth = births + 1
    <3>1. Seen(parent, before) /\ before <= births
      BY <1>1, <1>12, <2>2
    <3>2. table[parent].born \in agents
      BY <1>4, <1>14, <3>1
    <3> QED BY <1>1, <1>2, <2>2, <3>2
  <2> QED BY <1>13, <2>1, <2>2
<1>16. AgentsStartTheMarked'
  <2> SUFFICES ASSUME NEW r \in Pids, NEW q \in Live', NEW before \in Nat,
                      Seen(r, before)', table'[q].ppid = r, before <= table'[q].born,
                      table'[q].mark
               PROVE  before \in agents'
    BY DEF AgentsStartTheMarked
  <2>1. CASE q = p
    <3>1. Seen(parent, before) /\ table[parent].born \in agents
      BY <1>1, <1>2, <1>3, <1>12, <2>1 DEF AgentsInv, AgentsAreAgents
    <3> QED BY <1>4, <1>14, <3>1
  <2>2. CASE q # p
    <3>1. q \in Live /\ table'[q] = table[q] /\ table[q].born <= births
      BY <1>4, <1>5, <2>2 DEF AgentsInv, BirthsAreCounted
    <3>2. table[q].born \in Nat
      BY <1>4, <3>1 DEF AgentsInv, BirthsAreCounted
    <3>3. Seen(r, before)
      BY <1>4, <1>12, <3>1, <3>2
    <3> QED BY <1>4, <3>1, <3>3 DEF AgentsInv, AgentsStartTheMarked
  <2> QED BY <2>1, <2>2
<1> QED BY <1>7, <1>8, <1>9, <1>10, <1>11, <1>15, <1>16 DEF AgentsInv

(* Under its handle a process is looked at as it is. *)
LEMMA DescribingKeepsAgents ==
  ASSUME AgentsInv, NEW p \in Pids, Describes(p) PROVE AgentsInv'
<1>1. /\ entries[p] # Gone
      /\ listed' = [listed EXCEPT ![p] = IF p \in Live /\ ~table[p].closed
                                           THEN Known(p) ELSE Unknown(p)]
      /\ UNCHANGED <<table, births, agents, entries, handedOn, answers>>
  BY DEF Describes
<1>2. /\ listed'[p] = IF p \in Live /\ ~table[p].closed THEN Known(p) ELSE Unknown(p)
      /\ \A q \in Pids : q # p => listed'[q] = listed[q]
  BY <1>1 DEF AgentsInv, ProcessesTypeOK
<1>3. /\ Live' = Live /\ Live \subseteq Pids /\ Listed' \subseteq Pids
      /\ \A q \in Listed' : q = p \/ (q \in Listed /\ listed'[q] = listed[q])
  BY <1>1, <1>2 DEF Live, Listed
<1>4. p \in Live => /\ table[p].born \in 1..births /\ table[p].born \in Nat
                    /\ table[p].claude \in BOOLEAN
  <2>1. p \in Live => table[p] \in [born : Nat, ppid : Pids, claude : BOOLEAN,
                                    mark : BOOLEAN, closed : BOOLEAN]
    BY DEF AgentsInv, ProcessesTypeOK, Live
  <2> QED BY <2>1 DEF AgentsInv, BirthsAreCounted
<1>5. ProcessesTypeOK'
  <2>1. listed'[p] \in [ppid : Pids \cup {Gone}, started : Nat, claude : BOOLEAN]
    BY <1>2, <1>4 DEF AgentsInv, ProcessesTypeOK, Known, Unknown
  <2> QED BY <1>1, <1>2, <2>1 DEF AgentsInv, ProcessesTypeOK
<1>6. BirthsAreCounted'
  <2>1. births \in Nat
    BY DEF AgentsInv, ProcessesTypeOK
  <2> QED BY <1>1, <1>2, <1>3, <1>4, <2>1
          DEF AgentsInv, BirthsAreCounted, Known, Unknown
<1>7. ListsTheSnapshot'
  BY <1>1, <1>2 DEF AgentsInv, ListsTheSnapshot, Known, Unknown
<1>8. ListedAsTheyAre'
  <2> SUFFICES ASSUME handedOn = {}, NEW q \in Live, q \in Listed'
               PROVE  \/ table[q].closed /\ listed'[q].started = 0
                      \/ /\ listed'[q].started = table[q].born
                         /\ listed'[q].claude = table[q].claude
    BY <1>1, <1>3 DEF AgentsInv, ListedAsTheyAre
  <2>1. CASE q = p
    BY <1>2, <2>1 DEF Known, Unknown
  <2>2. CASE q # p
    BY <1>3, <2>2 DEF AgentsInv, ListedAsTheyAre
  <2> QED BY <2>1, <2>2
<1>9. AgentsAreAgents'
  BY <1>1, <1>2, <1>3 DEF AgentsInv, AgentsAreAgents, Known, Unknown
<1>10. \A q \in Pids, birth \in Nat : Seen(q, birth)' => Seen(q, birth)
  BY <1>1, <1>2, <1>3 DEF Seen, Known, Unknown
<1>11. \A r, q \in Pids, birth \in Nat : SeenUnder(r, q, birth)' => SeenUnder(r, q, birth)
  BY <1>1, <1>2, <1>3 DEF SeenUnder, Known, Unknown, AgentsInv, ListedAsTheyAre
<1>12. (AgentsStartAgents /\ AgentsStartTheMarked)'
  BY <1>1, <1>3, <1>10, <1>11, NothingNewIsSeen
<1> QED BY <1>5, <1>6, <1>7, <1>8, <1>9, <1>12 DEF AgentsInv

(* Nothing is seen of what ends, nor is anything before the next look. *)
LEMMA AgentsKept == AgentsInv /\ [ProcessesNext]_processVars => AgentsInv'
<1> SUFFICES ASSUME AgentsInv, [ProcessesNext]_processVars PROVE AgentsInv'
  OBVIOUS
<1>1. ASSUME NEW p \in Pids, ProcessEnds(p) PROVE AgentsInv'
  <2>1. /\ table' = [table EXCEPT ![p] = Gone]
        /\ UNCHANGED <<births, agents, entries, listed, described, handedOn, answers>>
    BY <1>1 DEF ProcessEnds
  <2>2. ProcessesTypeOK'
    BY <2>1 DEF AgentsInv, ProcessesTypeOK
  <2>3. /\ \A q \in Live' : q \in Live /\ table'[q] = table[q]
        /\ Listed' = Listed
    BY <2>1 DEF Live, Listed, AgentsInv, ProcessesTypeOK
  <2>4. (AgentsStartAgents /\ AgentsStartTheMarked)'
    <3>1. \A q \in Pids, birth \in Nat : Seen(q, birth)' => Seen(q, birth)
      BY <2>1, <2>3 DEF Seen
    <3>2. \A r, q \in Pids, birth \in Nat : SeenUnder(r, q, birth)' => SeenUnder(r, q, birth)
      BY <2>1, <2>3 DEF SeenUnder
    <3> QED BY <2>1, <2>3, <3>1, <3>2, NothingNewIsSeen
  <2> QED BY <2>1, <2>2, <2>3, <2>4
          DEF AgentsInv, BirthsAreCounted, ListsTheSnapshot, ListedAsTheyAre,
              AgentsAreAgents
<1>2. ASSUME NEW p \in Pids, Describes(p) PROVE AgentsInv'
  BY <1>2, DescribingKeepsAgents
<1>3. ASSUME NEW parent \in Pids, NEW p \in Pids, ProcessStarts(parent, p) PROVE AgentsInv'
  BY <1>3, StartingKeepsAgents
<1>4. CASE TakesSnapshot
  <2>1. /\ entries = Nothing
        /\ entries' = [p \in Pids |-> IF p \in Live THEN table[p].ppid ELSE Gone]
        /\ UNCHANGED <<table, births, agents, listed, described, handedOn, answers>>
    BY <1>4 DEF TakesSnapshot
  <2>2. Listed = {} /\ handedOn = {} /\ Listed' = {} /\ Live' = Live
    BY <2>1 DEF AgentsInv, ProcessesTypeOK, ListsTheSnapshot, Listed, Live, Nothing
  <2>3. \A p \in Live : p \in Pids /\ table[p].ppid \in Pids
    BY DEF AgentsInv, ProcessesTypeOK, Live
  <2>4. ProcessesTypeOK'
    BY <2>1, <2>3 DEF AgentsInv, ProcessesTypeOK
  <2>5. (AgentsStartAgents /\ AgentsStartTheMarked)'
    BY <2>1, <2>2 DEF AgentsInv, AgentsStartAgents, AgentsStartTheMarked, Seen, SeenUnder
  <2>6. ListsTheSnapshot'
    BY <2>1, <2>2 DEF ListsTheSnapshot, Listed
  <2>7. ListedAsTheyAre'
    BY <2>1, <2>2, <2>3 DEF ListedAsTheyAre
  <2>8. (BirthsAreCounted /\ AgentsAreAgents)'
    BY <2>1, <2>2 DEF AgentsInv, BirthsAreCounted, AgentsAreAgents
  <2> QED BY <2>4, <2>5, <2>6, <2>7, <2>8 DEF AgentsInv
<1>5. CASE LooksAgain
  <2>1. /\ \A p \in Pids : entries'[p] = Gone /\ listed'[p] = Gone
        /\ handedOn' = {} /\ UNCHANGED <<table, births, agents>>
    BY <1>5 DEF LooksAgain, Nothing
  <2>2. Listed' = {} /\ Live' = Live
    BY <2>1 DEF Listed, Live
  <2>3. ProcessesTypeOK'
    BY <1>5, <2>1 DEF LooksAgain, Nothing, AgentsInv, ProcessesTypeOK
  <2>4. (AgentsStartAgents /\ AgentsStartTheMarked)'
    <3>1. \A q \in Pids, birth \in Nat : Seen(q, birth)' => Seen(q, birth)
      BY <2>1, <2>2 DEF Seen
    <3>2. \A r, q \in Pids, birth \in Nat : SeenUnder(r, q, birth)' => SeenUnder(r, q, birth)
      BY <2>1, <2>2 DEF SeenUnder
    <3> QED BY <2>1, <2>2, <3>1, <3>2, NothingNewIsSeen
  <2>5. (ListsTheSnapshot /\ ListedAsTheyAre)'
    BY <2>1, <2>2 DEF Live, ListsTheSnapshot, ListedAsTheyAre
  <2> QED BY <2>1, <2>2, <2>3, <2>4, <2>5 DEF AgentsInv, BirthsAreCounted, AgentsAreAgents
<1>6. CASE UNCHANGED <<table, births, agents, entries, listed, handedOn>>
           /\ answers' \in [Pids -> {"agent", "his", Gone}]
  BY <1>6 DEF AgentsInv, ProcessesTypeOK, BirthsAreCounted, ListsTheSnapshot,
              ListedAsTheyAre, AgentsAreAgents, AgentsStartAgents, AgentsStartTheMarked,
              Seen, SeenUnder, Live, Listed
<1>7. ASSUME NEW p \in Pids, LeavesOut(p) \/ Answer(p) PROVE AgentsInv'
  <2>1. answers' \in [Pids -> {"agent", "his", Gone}]
    BY <1>7 DEF LeavesOut, Answer, Whose, AgentsInv, ProcessesTypeOK
  <2> QED BY <1>6, <1>7, <2>1 DEF LeavesOut, Answer
<1>8. CASE UNCHANGED processVars
  BY <1>6, <1>8 DEF processVars, AgentsInv, ProcessesTypeOK
<1> QED BY <1>1, <1>2, <1>3, <1>4, <1>5, <1>7, <1>8 DEF ProcessesNext

(* What whose_process goes up through, a parent further at each step. *)
Up(p) ==
  CHOOSE up : up = [n \in 0..Cardinality(Pids) |->
    IF n = 0 THEN {p} ELSE UNION {ParentOf(q) : q \in up[n - 1]}]

LEMMA PidsAreCounted == Cardinality(Pids) \in Nat
BY ProcessesAssumption, FS_CardinalityType

LEMMA UpIsUp ==
  ASSUME NEW p \in Pids
  PROVE  /\ Up(p)[0] = {p}
         /\ \A n \in 1..Cardinality(Pids) :
              Up(p)[n] = UNION {ParentOf(q) : q \in Up(p)[n - 1]}
         /\ \A n \in 0..Cardinality(Pids) : Up(p)[n] \subseteq Pids
         /\ \A q : q \in Ancestors(p)
                     <=> q # p /\ \E n \in 1..Cardinality(Pids) : q \in Up(p)[n]
<1> DEFINE N == Cardinality(Pids)
           Onward == [some \in SUBSET Pids |-> UNION {ParentOf(q) : q \in some}]
           GoesUp(up) == up = [n \in 0..N |->
             IF n = 0 THEN {p} ELSE UNION {ParentOf(q) : q \in up[n - 1]}]
<1>1. N \in Nat
  BY PidsAreCounted
<1>2. \A q : ParentOf(q) \subseteq Pids
  BY DEF ParentOf, Listed
<1>3. Onward \in [SUBSET Pids -> SUBSET Pids] /\ {p} \in SUBSET Pids
  BY <1>2
<1>4. PICK f : StepsOn(f, N, SUBSET Pids, {p}, Onward)
  <2> HIDE DEF N, Onward
  <2> QED BY <1>1, <1>3, StepAfterStep
<1>5. \A n \in 1..N : f[n] = UNION {ParentOf(q) : q \in f[n - 1]}
  <2>1. \A n \in 1..N : n - 1 \in 0..N
    BY <1>1
  <2> QED BY <1>4, <2>1 DEF StepsOn
<1>6. GoesUp(f)
  <2>1. \A n \in 0..N : n = 0 \/ n \in 1..N
    BY <1>1
  <2>2. \A n \in 0..N : f[n] = IF n = 0 THEN {p} ELSE UNION {ParentOf(q) : q \in f[n - 1]}
    BY <1>4, <1>5, <2>1 DEF StepsOn
  <2> QED BY <1>4, <2>2 DEF StepsOn
<1>7. GoesUp(Up(p))
  BY <1>6 DEF Up
<1> HIDE DEF Onward
<1>8. /\ Up(p)[0] = {p}
      /\ \A n \in 1..N : Up(p)[n] = UNION {ParentOf(q) : q \in Up(p)[n - 1]}
  <2>1. 0 \in 0..N /\ \A n \in 1..N : n \in 0..N /\ n # 0
    BY <1>1
  <2> QED BY <1>7, <2>1
<1>9. \A n \in 0..N : Up(p)[n] \subseteq Pids
  <2>1. \A n \in 0..N : n = 0 \/ n \in 1..N
    BY <1>1
  <2> QED BY <1>2, <1>8, <2>1
<1>10. Ancestors(p) = (UNION {Up(p)[n] : n \in 1..N}) \ {p}
  BY DEF Ancestors, Up
<1>11. \A q : q \in Ancestors(p) <=> q # p /\ \E n \in 1..N : q \in Up(p)[n]
  BY <1>10
<1> QED BY <1>8, <1>9, <1>11

(* Whatever an agent's process is above is an agent's. *)
LEMMA AgentsAreAboveAgents ==
  ASSUME AgentsInv, handedOn = {}, NEW p \in Listed, NEW q \in Ancestors(p),
         listed[q].started \in agents
  PROVE  listed[p].started \in agents
<1> DEFINE N == Cardinality(Pids)
           T == {n \in Nat : n <= N =>
                   \A r \in Up(p)[n] : r \in Listed /\ (listed[r].started \in agents
                                                         => listed[p].started \in agents)}
<1>1. N \in Nat /\ p \in Pids
  BY PidsAreCounted DEF Listed
<1>2. 0 \in T
  BY <1>1, UpIsUp
<1>3. ASSUME NEW n \in T PROVE n + 1 \in T
  <2> SUFFICES ASSUME n + 1 <= N, NEW s \in Up(p)[n + 1]
               PROVE  s \in Listed /\ (listed[s].started \in agents
                                         => listed[p].started \in agents)
    OBVIOUS
  <2>1. n + 1 \in 1..N /\ n <= N /\ (n + 1) - 1 = n
    BY <1>1
  <2>2. PICK r \in Up(p)[n] : s \in ParentOf(r)
    <3>1. Up(p)[n + 1] = UNION {ParentOf(r) : r \in Up(p)[n]}
      BY <1>1, <2>1, UpIsUp
    <3> QED BY <3>1
  <2>3. /\ r \in Listed /\ s \in Listed /\ s = listed[r].ppid
        /\ listed[s].started <= listed[r].started
        /\ listed[r].started \in agents => listed[p].started \in agents
    BY <2>1, <2>2 DEF ParentOf
  <2>4. listed[s].started \in agents => listed[r].started \in agents
    <3> SUFFICES ASSUME listed[s].started \in agents PROVE listed[r].started \in agents
      OBVIOUS
    <3>1. /\ listed[s].started \in Nat /\ listed[r].started \in Nat
          /\ listed[s].started # 0 /\ listed[r].started # 0
          /\ s \in Pids /\ r \in Pids
      BY <2>3 DEF AgentsInv, ProcessesTypeOK, BirthsAreCounted, Listed
    <3>2. Seen(s, listed[s].started) /\ SeenUnder(s, r, listed[r].started)
      BY <2>3, <3>1 DEF Seen, SeenUnder
    <3> QED BY <2>3, <3>1, <3>2 DEF AgentsInv, AgentsStartAgents
  <2> QED BY <2>3, <2>4
<1>4. T = Nat
  <2>1. T \subseteq Nat
    OBVIOUS
  <2> HIDE DEF T
  <2> QED BY <1>2, <1>3, <2>1, ByInduction
<1>5. PICK n \in 1..N : q \in Up(p)[n]
  BY <1>1, UpIsUp
<1>6. n \in T /\ n <= N
  BY <1>1, <1>4
<1> QED BY <1>5, <1>6

(* What is told for an agent's is one's, or nothing is known of it. *)
LEMMA WhatIsToldIsAnAgents ==
  ASSUME AgentsInv, handedOn = {}, NEW p \in Listed, Whose(p) = "agent"
  PROVE  listed[p].started \in agents \cup {0}
<1>1. /\ p \in Pids /\ listed[p].started \in Nat
  BY DEF AgentsInv, ProcessesTypeOK, Listed
<1>2. CASE HasMark(p)
  BY <1>2 DEF HasMark, MayBeRead, AgentsInv, ListedAsTheyAre, AgentsAreAgents
<1>3. ASSUME NEW q \in ChildrenOf(p), HasMark(q)
      PROVE  listed[p].started \in agents \cup {0}
  <2>1. /\ q \in Listed /\ listed[q].ppid = p /\ listed[q].started >= listed[p].started
        /\ q \in Live /\ ~table[q].closed /\ table[q].mark /\ q \in Pids
    BY <1>3 DEF ChildrenOf, HasMark, MayBeRead, Live
  <2>2. table[q].ppid = p /\ listed[q].started = table[q].born
    BY <2>1 DEF AgentsInv, ListsTheSnapshot, ListedAsTheyAre, Listed
  <2>3. listed[p].started # 0 => Seen(p, listed[p].started)
    BY DEF Seen
  <2>4. listed[p].started <= table[q].born
    <3>1. listed[q].started \in Nat
      BY <2>1 DEF AgentsInv, ProcessesTypeOK, Listed
    <3> QED BY <1>1, <2>1, <2>2, <3>1
  <2> QED BY <1>1, <2>1, <2>2, <2>3, <2>4 DEF AgentsInv, AgentsStartTheMarked
<1>4. ASSUME NEW q \in Ancestors(p), listed[q].claude
      PROVE  listed[p].started \in agents \cup {0}
  <2>1. q \in Listed
    <3>1. PICK n \in 1..Cardinality(Pids) : q \in Up(p)[n]
      BY <1>1, UpIsUp
    <3>2. Up(p)[n] = UNION {ParentOf(r) : r \in Up(p)[n - 1]}
      BY <1>1, <3>1, UpIsUp
    <3> QED BY <3>1, <3>2 DEF ParentOf
  <2>2. listed[q].started \in agents
    BY <1>4, <2>1 DEF AgentsInv, AgentsAreAgents
  <2> QED BY <1>4, <2>2, AgentsAreAboveAgents
<1> QED BY <1>2, <1>3, <1>4 DEF Whose

(* Nothing but an answer gives one. *)
LEMMA OnlyAnswersAnswer ==
  ASSUME NEW p \in Pids, [ProcessesNext]_processVars, answers[p] = Gone,
         answers'[p] \in {"agent", "his"}, AgentsInv
  PROVE  p \in Listed /\ answers'[p] = Whose(p)
<1>1. answers'[p] # answers[p]
  BY ProcessesAssumption
<1>2. \E q \in Pids : Answer(q)
  <2>1. ~LooksAgain
    BY ProcessesAssumption DEF LooksAgain, Nothing
  <2>2. ~UNCHANGED answers
    BY <1>1
  <2> QED BY <2>1, <2>2 DEF ProcessesNext, processVars, ProcessEnds, Describes, LeavesOut,
                            ProcessStarts, TakesSnapshot
<1>3. PICK q \in Pids : Answer(q)
  BY <1>2
<1>4. q = p
  BY <1>1, <1>3 DEF Answer, AgentsInv, ProcessesTypeOK
<1> QED BY <1>3, <1>4 DEF Answer, AgentsInv, ProcessesTypeOK

(* No process of his is taken for an agent's, for any processes and
   whichever of them start, end and hand on their pids around a look
   (processes.py).                                                        *)
THEOREM NoneOfHisIsTaken == ProcessesSpec => NoneOfHisIsAnAgents
<1>1. ASSUME AgentsInv, [ProcessesNext]_processVars
      PROVE  [\A p \in Pids :
                answers[p] = Gone /\ answers'[p] = "agent" /\ handedOn = {}
                => listed[p].started \in agents \cup {0}]_processVars
  BY <1>1, OnlyAnswersAnswer, WhatIsToldIsAnAgents
<1> QED BY AgentsInitially, AgentsKept, <1>1, PTL DEF ProcessesSpec, NoneOfHisIsAnAgents

(* What runs under Claude Code, a child further at each step. *)
Under ==
  CHOOSE under : under = [n \in 0..Cardinality(Pids) |->
    IF n = 0 THEN {q \in Pids : RanThrough(q) /\ table[q].claude}
    ELSE {q \in Pids : /\ RanThrough(q) /\ table[q].ppid \in under[n - 1]
                       /\ table[table[q].ppid].born < table[q].born}]

LEMMA UnderIsUnder ==
  /\ Under[0] = {q \in Pids : RanThrough(q) /\ table[q].claude}
  /\ \A n \in 1..Cardinality(Pids) :
       Under[n] = {q \in Pids : /\ RanThrough(q) /\ table[q].ppid \in Under[n - 1]
                                /\ table[table[q].ppid].born < table[q].born}
  /\ \A p : RunsUnderClaude(p) <=> \E n \in 1..Cardinality(Pids) : p \in Under[n]
<1> DEFINE N == Cardinality(Pids)
           first == {q \in Pids : RanThrough(q) /\ table[q].claude}
           Below(some) == {q \in Pids : /\ RanThrough(q) /\ table[q].ppid \in some
                                        /\ table[table[q].ppid].born < table[q].born}
           Onward == [some \in SUBSET Pids |-> Below(some)]
           IsUnder(under) == under = [n \in 0..N |-> IF n = 0 THEN first
                                                     ELSE Below(under[n - 1])]
<1>1. N \in Nat
  BY PidsAreCounted
<1>2. Onward \in [SUBSET Pids -> SUBSET Pids] /\ first \in SUBSET Pids
  <2>1. \A some : Below(some) \subseteq Pids
    OBVIOUS
  <2> HIDE DEF Below
  <2> QED BY <2>1
<1>3. PICK f : StepsOn(f, N, SUBSET Pids, first, Onward)
  <2> HIDE DEF N, first, Onward
  <2> QED BY <1>1, <1>2, StepAfterStep
<1>4. \A n \in 1..N : f[n] = Below(f[n - 1])
  <2>1. \A n \in 1..N : n - 1 \in 0..N
    BY <1>1
  <2> HIDE DEF Below
  <2> QED BY <1>3, <2>1 DEF StepsOn
<1> HIDE DEF Below, Onward, first
<1>5. IsUnder(f)
  <2>1. \A n \in 0..N : n = 0 \/ n \in 1..N
    BY <1>1
  <2>2. \A n \in 0..N : f[n] = IF n = 0 THEN first ELSE Below(f[n - 1])
    BY <1>3, <1>4, <2>1 DEF StepsOn
  <2> QED BY <1>3, <2>2 DEF StepsOn
<1>6. Under = CHOOSE under : IsUnder(under)
  BY DEF Under, first, Below
<1>7. IsUnder(Under)
  <2> HIDE DEF IsUnder
  <2> QED BY <1>5, <1>6
<1>8. Under[0] = first /\ \A n \in 1..N : Under[n] = Below(Under[n - 1])
  <2>1. 0 \in 0..N /\ \A n \in 1..N : n \in 0..N /\ n # 0
    BY <1>1
  <2> QED BY <1>7, <2>1
<1>9. \A p : RunsUnderClaude(p) <=> \E n \in 1..N : p \in Under[n]
  BY DEF RunsUnderClaude, Under
<1> QED BY <1>8, <1>9 DEF first, Below

(* Up from what runs under Claude Code the look comes to it. *)
LEMMA ClaudeIsAbove ==
  ASSUME AgentsInv, handedOn = {}, NEW p \in Pids, RunsUnderClaude(p)
  PROVE  \E q \in Ancestors(p) : listed[q].claude
<1> DEFINE N == Cardinality(Pids)
<1>1. N \in Nat
  BY PidsAreCounted
<1>2. PICK n \in 1..N : p \in Under[n]
  BY UnderIsUnder
<1>3. \A k \in 0..N : \A q \in Under[k] : q \in Pids /\ RanThrough(q)
  <2>1. \A k \in 0..N : k = 0 \/ k \in 1..N
    BY <1>1
  <2> QED BY <2>1, UnderIsUnder
<1> DEFINE ComesTo(k, q) == /\ q \in Up(p)[k] /\ q \in Under[n - k]
                            /\ IF k = 0 THEN q = p ELSE table[q].born < table[p].born
           T == {k \in Nat : k <= n => \E q \in Pids : ComesTo(k, q)}
<1>4. 0 \in T
  <2>1. n - 0 = n
    BY <1>1
  <2> QED BY <1>2, <2>1, UpIsUp
<1>5. ASSUME NEW k \in T PROVE k + 1 \in T
  <2> SUFFICES ASSUME k + 1 <= n PROVE \E q \in Pids : ComesTo(k + 1, q)
    OBVIOUS
  <2>1. /\ k \in Nat /\ n - k \in 1..N /\ (n - k) - 1 = n - (k + 1)
        /\ k + 1 \in 1..N /\ (k + 1) - 1 = k /\ n - (k + 1) \in 0..N /\ k <= n
        /\ n - k \in 0..N
    BY <1>1
  <2>2. PICK r \in Pids : ComesTo(k, r)
    BY <2>1
  <2>3. /\ RanThrough(r) /\ table[r].ppid \in Under[n - (k + 1)]
        /\ table[table[r].ppid].born < table[r].born
    BY <2>1, <2>2, UnderIsUnder
  <2> DEFINE q == table[r].ppid
  <2>4. q \in Pids /\ RanThrough(q)
    BY <1>3, <2>1, <2>3
  <2>5. /\ r \in Listed /\ q \in Listed
        /\ listed[q].started = table[q].born /\ listed[r].started = table[r].born
        /\ table[q].born \in Nat /\ table[r].born \in Nat /\ table[p].born \in Nat
    <3>1. RanThrough(p)
      BY <1>1, <1>2, <1>3
    <3> QED BY <2>3, <2>4, <3>1 DEF RanThrough, Live, AgentsInv, ProcessesTypeOK
  <2>6. listed[r].ppid = q
    BY <2>3, <2>5 DEF RanThrough, AgentsInv, ListsTheSnapshot, ListedAsTheyAre, Listed
  <2>7. q \in ParentOf(r)
    BY <2>3, <2>5, <2>6 DEF ParentOf
  <2>8. q \in Up(p)[k + 1]
    <3>1. Up(p)[k + 1] = UNION {ParentOf(s) : s \in Up(p)[k]}
      BY <2>1, UpIsUp
    <3> QED BY <2>2, <2>7, <3>1
  <2>9. table[q].born < table[p].born
    BY <2>2, <2>3, <2>5
  <2>10. ComesTo(k + 1, q)
    BY <2>1, <2>3, <2>8, <2>9
  <2> QED BY <2>4, <2>10
<1>6. T = Nat
  <2>1. T \subseteq Nat
    OBVIOUS
  <2> HIDE DEF T
  <2> QED BY <1>4, <1>5, <2>1, ByInduction
<1>7. PICK q \in Pids : ComesTo(n, q)
  <2>1. n \in Nat /\ n <= n
    BY <1>1
  <2> QED BY <1>6, <2>1
<1>8. q \in Under[0] /\ q \in Up(p)[n] /\ table[q].born < table[p].born /\ n # 0
  <2>1. n - n = 0 /\ n # 0
    BY <1>1
  <2> QED BY <1>7, <2>1
<1>9. RanThrough(q) /\ table[q].claude
  BY <1>8, UnderIsUnder
<1>10. listed[q].claude
  <2>1. table[q].born \in 1..births /\ births \in Nat
    BY <1>9 DEF RanThrough, AgentsInv, BirthsAreCounted, ProcessesTypeOK
  <2>2. listed[q].started # 0
    BY <1>9, <2>1 DEF RanThrough
  <2> QED BY <1>9, <2>2 DEF RanThrough, AgentsInv, ListedAsTheyAre
<1>11. q # p
  <2>1. RanThrough(p)
    BY <1>1, <1>2, <1>3
  <2>2. table[p].born \in Nat
    BY <2>1 DEF RanThrough, Live, AgentsInv, ProcessesTypeOK
  <2> QED BY <1>8, <2>2
<1>12. q \in Ancestors(p)
  BY <1>8, <1>11, UpIsUp
<1> QED BY <1>10, <1>12

(* What runs under Claude Code all through a look is told for an agent's,
   marked or not and however deep, for any processes (processes.py).      *)
THEOREM AgentsAreNotHis == ProcessesSpec => AgentsAreTold
<1>1. ASSUME AgentsInv, [ProcessesNext]_processVars
      PROVE  [\A p \in Pids :
                answers[p] = Gone /\ answers'[p] = "his" /\ handedOn = {}
                => ~RunsUnderClaude(p)]_processVars
  <2> SUFFICES ASSUME NEW p \in Pids, answers[p] = Gone, answers'[p] = "his",
                      handedOn = {}, RunsUnderClaude(p)
               PROVE  FALSE
    OBVIOUS
  <2>1. Whose(p) = "his"
    BY <1>1, OnlyAnswersAnswer
  <2>2. \E q \in Ancestors(p) : listed[q].claude
    BY <1>1, ClaudeIsAbove
  <2> QED BY <2>1, <2>2 DEF Whose
<1> QED BY AgentsInitially, AgentsKept, <1>1, PTL DEF ProcessesSpec, AgentsAreTold

(***************************************************************************)
(* The tests that changed.  A step reaches something new or nothing, so    *)
(* after as many steps as there are definitions nothing is new: what is    *)
(* reached by then is in every set that has what a test mentions and what  *)
(* is mentioned there, and is one.                                         *)
(***************************************************************************)

Files == [tests : [OldTests -> Node], defined : [Definitions -> Node], around : {0, 1},
          imports : BOOLEAN, wording : {0, 1}]
FilesTypeOK == base \in Files /\ tip \in Files

Followed(aFile, names) ==
  UNION {aFile.defined[n].says : n \in {m \in names : aFile.defined[m] # Undefined}}
ReachedBy(aFile, t) ==
  CHOOSE reached : reached = [k \in 0..Cardinality(Definitions) |->
    IF k = 0 THEN aFile.tests[t].says
             ELSE reached[k - 1] \cup Followed(aFile, reached[k - 1])]
IsClosed(aFile, t, names) ==
  /\ names \subseteq Definitions
  /\ aFile.tests[t].says \subseteq names /\ Followed(aFile, names) \subseteq names

LEMMA DefinitionsAreCounted == Cardinality(Definitions) \in Nat
BY FlakesAssumption, FS_CardinalityType

LEMMA NamesAreDefinitions ==
  ASSUME NEW aFile \in Files
  PROVE  /\ \A t \in OldTests : aFile.tests[t] # Undefined
              => aFile.tests[t].says \subseteq Definitions
         /\ \A names \in SUBSET Definitions : Followed(aFile, names) \subseteq Definitions
<1>1. \A node \in Node : node # Undefined => node.says \subseteq Definitions
  BY DEF Node
<1>2. /\ \A t \in OldTests : aFile.tests[t] \in Node
      /\ \A n \in Definitions : aFile.defined[n] \in Node
  BY DEF Files
<1> QED BY <1>1, <1>2 DEF Followed

(* A definition further at each step. *)
LEMMA ReachedStepByStep ==
  ASSUME NEW aFile \in Files, NEW t \in OldTests, aFile.tests[t] # Undefined
  PROVE  /\ ReachedBy(aFile, t)[0] = aFile.tests[t].says
         /\ \A k \in 1..Cardinality(Definitions) :
              ReachedBy(aFile, t)[k] = ReachedBy(aFile, t)[k - 1]
                                         \cup Followed(aFile, ReachedBy(aFile, t)[k - 1])
         /\ \A k \in 0..Cardinality(Definitions) : ReachedBy(aFile, t)[k] \subseteq Definitions
         /\ EverythingReached(aFile, t) = ReachedBy(aFile, t)[Cardinality(Definitions)]
<1> DEFINE N == Cardinality(Definitions)
           Onward == [names \in SUBSET Definitions |-> names \cup Followed(aFile, names)]
           first == aFile.tests[t].says
           IsReached(f) == f = [k \in 0..N |->
             IF k = 0 THEN first ELSE f[k - 1] \cup Followed(aFile, f[k - 1])]
<1>1. N \in Nat
  BY DefinitionsAreCounted
<1>2. Onward \in [SUBSET Definitions -> SUBSET Definitions] /\ first \in SUBSET Definitions
  BY NamesAreDefinitions
<1>3. PICK f : StepsOn(f, N, SUBSET Definitions, first, Onward)
  <2> HIDE DEF N, first, Onward
  <2> QED BY <1>1, <1>2, StepAfterStep
<1>4. \A k \in 1..N : f[k] = f[k - 1] \cup Followed(aFile, f[k - 1])
  <2>1. \A k \in 1..N : k - 1 \in 0..N
    BY <1>1
  <2> QED BY <1>3, <2>1 DEF StepsOn
<1> HIDE DEF Onward, first
<1>5. IsReached(f)
  <2>1. \A k \in 0..N : k = 0 \/ k \in 1..N
    BY <1>1
  <2>2. \A k \in 0..N : f[k] = IF k = 0 THEN first
                                ELSE f[k - 1] \cup Followed(aFile, f[k - 1])
    BY <1>3, <1>4, <2>1 DEF StepsOn
  <2> QED BY <1>3, <2>2 DEF StepsOn
<1>6. ReachedBy(aFile, t) = CHOOSE g : IsReached(g)
  BY DEF ReachedBy, first
<1>7. IsReached(ReachedBy(aFile, t))
  <2> HIDE DEF IsReached
  <2> QED BY <1>5, <1>6
<1>8. /\ ReachedBy(aFile, t)[0] = first
      /\ \A k \in 1..N : ReachedBy(aFile, t)[k] =
           ReachedBy(aFile, t)[k - 1] \cup Followed(aFile, ReachedBy(aFile, t)[k - 1])
  <2>1. 0 \in 0..N /\ \A k \in 1..N : k \in 0..N /\ k # 0
    BY <1>1
  <2> QED BY <1>7, <2>1
<1>9. \A k \in 0..N : ReachedBy(aFile, t)[k] \subseteq Definitions
  <2> DEFINE T == {k \in Nat : k <= N => ReachedBy(aFile, t)[k] \subseteq Definitions}
  <2>1. 0 \in T
    BY <1>2, <1>8
  <2>2. ASSUME NEW k \in T PROVE k + 1 \in T
    <3> SUFFICES ASSUME k + 1 <= N PROVE ReachedBy(aFile, t)[k + 1] \subseteq Definitions
      OBVIOUS
    <3>1. k + 1 \in 1..N /\ (k + 1) - 1 = k /\ k <= N
      BY <1>1
    <3>2. ReachedBy(aFile, t)[k] \subseteq Definitions
      BY <3>1
    <3>3. Followed(aFile, ReachedBy(aFile, t)[k]) \subseteq Definitions
      BY <3>2, NamesAreDefinitions
    <3> QED BY <1>8, <3>1, <3>2, <3>3
  <2>3. T = Nat
    <3>1. T \subseteq Nat
      OBVIOUS
    <3> HIDE DEF T
    <3> QED BY <2>1, <2>2, <3>1, ByInduction
  <2> QED BY <1>1, <2>3
<1>10. EverythingReached(aFile, t) = ReachedBy(aFile, t)[N]
  BY DEF EverythingReached, ReachedBy, Followed
<1> QED BY <1>8, <1>9, <1>10 DEF first

(* As many steps as there are definitions suffice. *)
LEMMA NothingIsNewAtLast ==
  ASSUME NEW aFile \in Files, NEW t \in OldTests, aFile.tests[t] # Undefined
  PROVE  IsClosed(aFile, t, EverythingReached(aFile, t))
<1> DEFINE N == Cardinality(Definitions)
           R(k) == ReachedBy(aFile, t)[k]
           first == aFile.tests[t].says
           T == {k \in Nat : k <= N => /\ first \subseteq R(k)
                                       /\ \/ Followed(aFile, R(k)) \subseteq R(k)
                                          \/ Cardinality(R(k)) >= k}
<1>1. N \in Nat
  BY DefinitionsAreCounted
<1>2. \A k \in 0..N : /\ R(k) \subseteq Definitions /\ IsFiniteSet(R(k))
                      /\ Cardinality(R(k)) \in Nat
  BY FlakesAssumption, ReachedStepByStep, FS_Subset, FS_CardinalityType
<1>3. 0 \in T
  BY <1>1, <1>2, ReachedStepByStep
<1>4. ASSUME NEW k \in T PROVE k + 1 \in T
  <2> SUFFICES ASSUME k + 1 <= N
               PROVE  /\ first \subseteq R(k + 1)
                      /\ \/ Followed(aFile, R(k + 1)) \subseteq R(k + 1)
                         \/ Cardinality(R(k + 1)) >= k + 1
    OBVIOUS
  <2>1. k + 1 \in 1..N /\ (k + 1) - 1 = k /\ k <= N /\ k \in 0..N /\ k + 1 \in 0..N
    BY <1>1
  <2>2. R(k + 1) = R(k) \cup Followed(aFile, R(k))
    BY <2>1, ReachedStepByStep
  <2>3. CASE Followed(aFile, R(k)) \subseteq R(k)
    <3>1. R(k + 1) = R(k)
      BY <2>2, <2>3
    <3> QED BY <2>1, <2>3, <3>1
  <2>4. CASE ~(Followed(aFile, R(k)) \subseteq R(k))
    <3>1. /\ R(k) \in SUBSET R(k + 1) /\ R(k) # R(k + 1) /\ IsFiniteSet(R(k + 1))
          /\ Cardinality(R(k)) \in Nat /\ Cardinality(R(k + 1)) \in Nat
      BY <1>2, <2>1, <2>2, <2>4
    <3>2. Cardinality(R(k)) < Cardinality(R(k + 1))
      <4> HIDE DEF R
      <4>1. Cardinality(R(k)) <= Cardinality(R(k + 1))
            /\ Cardinality(R(k)) # Cardinality(R(k + 1))
        BY <3>1, FS_Subset
      <4> QED BY <3>1, <4>1
    <3>3. Cardinality(R(k)) >= k /\ first \subseteq R(k)
      BY <2>1, <2>4
    <3> QED BY <2>1, <2>2, <3>1, <3>2, <3>3
  <2> QED BY <2>3, <2>4
<1>5. T = Nat
  <2>1. T \subseteq Nat
    OBVIOUS
  <2> HIDE DEF T
  <2> QED BY <1>3, <1>4, <2>1, ByInduction
<1>6. /\ first \subseteq R(N)
      /\ Followed(aFile, R(N)) \subseteq R(N) \/ Cardinality(R(N)) >= N
  <2>1. N <= N
    BY <1>1
  <2> QED BY <1>1, <1>5, <2>1
<1>7. R(N) \subseteq Definitions /\ Cardinality(R(N)) \in Nat
  BY <1>1, <1>2
<1>8. Cardinality(R(N)) >= N => R(N) = Definitions
  <2> HIDE DEF R
  <2>1. Cardinality(R(N)) <= N /\ (Cardinality(Definitions) = Cardinality(R(N))
                                     => Definitions = R(N))
    BY <1>7, FlakesAssumption, FS_Subset
  <2> QED BY <1>1, <1>7, <2>1
<1>9. Followed(aFile, R(N)) \subseteq R(N)
  BY <1>6, <1>7, <1>8, NamesAreDefinitions
<1> QED BY <1>6, <1>7, <1>9, ReachedStepByStep DEF IsClosed

(* And they reach nothing that some closed set lacks. *)
LEMMA NothingElseIsReached ==
  ASSUME NEW aFile \in Files, NEW t \in OldTests, aFile.tests[t] # Undefined,
         NEW names, IsClosed(aFile, t, names)
  PROVE  EverythingReached(aFile, t) \subseteq names
<1> DEFINE N == Cardinality(Definitions)
           T == {k \in Nat : k <= N => ReachedBy(aFile, t)[k] \subseteq names}
<1>1. N \in Nat
  BY DefinitionsAreCounted
<1>2. 0 \in T
  BY ReachedStepByStep DEF IsClosed
<1>3. ASSUME NEW k \in T PROVE k + 1 \in T
  <2> SUFFICES ASSUME k + 1 <= N PROVE ReachedBy(aFile, t)[k + 1] \subseteq names
    OBVIOUS
  <2>1. k + 1 \in 1..N /\ (k + 1) - 1 = k /\ k <= N
    BY <1>1
  <2>2. ReachedBy(aFile, t)[k] \subseteq names
    BY <2>1
  <2>3. Followed(aFile, ReachedBy(aFile, t)[k]) \subseteq Followed(aFile, names)
    BY <2>2 DEF Followed
  <2> QED BY <2>1, <2>2, <2>3, ReachedStepByStep DEF IsClosed
<1>4. T = Nat
  <2>1. T \subseteq Nat
    OBVIOUS
  <2> HIDE DEF T
  <2> QED BY <1>2, <1>3, <2>1, ByInduction
<1> QED BY <1>1, <1>4, ReachedStepByStep

(* So the steps reach what a test reaches. *)
LEMMA ReachedIsReached ==
  ASSUME NEW aFile \in Files, NEW t \in OldTests, aFile.tests[t] # Undefined,
         NEW n \in Definitions
  PROVE  Reaches(aFile, t, n) <=> n \in EverythingReached(aFile, t)
<1>1. \A names \in SUBSET Definitions :
        IsClosed(aFile, t, names)
          <=> /\ aFile.tests[t].says \subseteq names
              /\ \A m \in names : aFile.defined[m] # Undefined
                                    => aFile.defined[m].says \subseteq names
  BY DEF IsClosed, Followed
<1>2. Reaches(aFile, t, n)
        <=> \A names \in SUBSET Definitions : IsClosed(aFile, t, names) => n \in names
  BY <1>1 DEF Reaches
<1>3. \A names \in SUBSET Definitions :
        IsClosed(aFile, t, names) => EverythingReached(aFile, t) \subseteq names
  BY NothingElseIsReached
<1>4. /\ EverythingReached(aFile, t) \in SUBSET Definitions
      /\ IsClosed(aFile, t, EverythingReached(aFile, t))
  BY NothingIsNewAtLast DEF IsClosed
<1> QED BY <1>2, <1>3, <1>4

(* A test of a file the branch touched is named when it means something else. *)
LEMMA NamedWhenChanged ==
  ASSUME FilesTypeOK, NEW t \in OldTests, tip.tests[t] # Undefined
  PROVE  t \in ChangedTests <=> tip # fork /\ ~MeansTheSame(t)
<1>1. CASE base.tests[t] # tip.tests[t] \/ AroundChanged(base, tip)
  BY <1>1 DEF ChangedTests, IsInTheDiff, AroundChanged, MeansTheSame
<1>2. CASE base.tests[t] = tip.tests[t] /\ ~AroundChanged(base, tip)
  <2> DEFINE before == EverythingReached(base, t)
             after == EverythingReached(tip, t)
             Same(n) == base.defined[n] = tip.defined[n]
  <2>1. base \in Files /\ tip \in Files /\ base.tests[t] # Undefined
    BY <1>2 DEF FilesTypeOK
  <2>2. IsClosed(base, t, before) /\ IsClosed(tip, t, after)
    BY <2>1, NothingIsNewAtLast
  <2>3. \A n \in Definitions : /\ Reaches(base, t, n) <=> n \in before
                               /\ Reaches(tip, t, n) <=> n \in after
    BY <2>1, ReachedIsReached
  <2>4. t \in ChangedTests <=> tip # fork /\ \E n \in Definitions : n \in after /\ ~Same(n)
    BY <1>2 DEF ChangedTests, IsInTheDiff, DefinitionsThatMoved
  <2> HIDE DEF before, after
  <2>5. ASSUME \A n \in after : Same(n)
        PROVE  before = after
    <3>1. Followed(base, after) = Followed(tip, after)
      BY <2>5 DEF Followed
    <3>2. IsClosed(base, t, after)
      BY <1>2, <2>2, <3>1 DEF IsClosed
    <3>3. before \subseteq after
      BY <2>1, <3>2, NothingElseIsReached DEF before
    <3>4. Followed(base, before) = Followed(tip, before)
      BY <2>5, <3>3 DEF Followed
    <3>5. IsClosed(tip, t, before)
      BY <1>2, <2>2, <3>4 DEF IsClosed
    <3>6. after \subseteq before
      BY <2>1, <3>5, NothingElseIsReached DEF after
    <3> QED BY <3>3, <3>6
  <2>6. after \subseteq Definitions
    BY <2>2 DEF IsClosed
  <2>7. MeansTheSame(t)
          <=> \A n \in Definitions : (n \in before <=> n \in after) /\ (n \in after => Same(n))
    BY <1>2, <2>3 DEF MeansTheSame, AroundChanged
  <2> QED BY <2>4, <2>5, <2>6, <2>7
<1> QED BY <1>1, <1>2

(* In order they are all there. *)
LEMMA AllAreInOrder ==
  ASSUME NEW tests, tests \subseteq Nat, IsFiniteSet(tests), NEW ids \in InOrderOf(tests)
  PROVE  ToSet(ids) = tests
<1> DEFINE places == 1..Cardinality(tests)
<1>1. Cardinality(tests) \in Nat
  BY FS_CardinalityType
<1>2. ids \in [places -> tests] /\ \A i, j \in places : i < j => ids[i] < ids[j]
  BY DEF InOrderOf
<1>3. \A i, j \in places : ids[i] = ids[j] => i = j
  <2> SUFFICES ASSUME NEW i \in places, NEW j \in places, ids[i] = ids[j], i # j PROVE FALSE
    OBVIOUS
  <2>1. i < j \/ j < i
    BY <1>1
  <2>2. ids[i] \in Nat /\ ids[j] \in Nat
    BY <1>2
  <2> QED BY <1>2, <2>1, <2>2
<1>4. ids \in Injection(places, tests)
  BY <1>2, <1>3 DEF Injection, IsInjective
<1>5. Cardinality(places) = Cardinality(tests)
  BY <1>1, FS_Interval
<1>6. ids \in Surjection(places, tests)
  <2> HIDE DEF places
  <2> QED BY <1>4, <1>5, FS_Injection
<1> QED BY <1>2, <1>6 DEF Surjection, ToSet

(* Files are files. *)
LEMMA FilesKept ==
  /\ FlakesInit => FilesTypeOK
  /\ FilesTypeOK /\ [FlakesNext]_flakeVars => FilesTypeOK'
<1>1. Plain \in Files
  BY DEF Plain, FileOf, Files, Node
<1>2. ASSUME FlakesInit PROVE FilesTypeOK
  <2>1. PICK tests \in [OldTests -> {n \in Node \ {Undefined} : n.body = 0} \cup {Undefined}],
             defined \in [Definitions -> {n \in Node \ {Undefined} : n.body = 0}
                                           \cup {Undefined}] :
          fork = FileOf(tests, defined) /\ base = fork /\ tip = fork
    BY <1>2 DEF FlakesInit
  <2>2. Undefined \in Node
    BY DEF Node
  <2>3. tests \in [OldTests -> Node] /\ defined \in [Definitions -> Node]
    BY <2>2
  <2> QED BY <2>1, <2>3 DEF FilesTypeOK, Files, FileOf
<1>3. ASSUME FilesTypeOK, [FlakesNext]_flakeVars PROVE FilesTypeOK'
  <2>1. ASSUME NEW aFile \in Files PROVE Committed(aFile) \subseteq Files
    <3>1. ASSUME NEW t \in OldTests, NEW node \in Node
          PROVE  [aFile EXCEPT !.tests[t] = node] \in Files
      BY <3>1 DEF Files
    <3>2. ASSUME NEW n \in Definitions, NEW node \in Node
          PROVE  [aFile EXCEPT !.defined[n] = node] \in Files
      BY <3>2 DEF Files
    <3>3. /\ [aFile EXCEPT !.around = 1] \in Files
          /\ [aFile EXCEPT !.wording = 1] \in Files
          /\ \A imported \in BOOLEAN : [aFile EXCEPT !.imports = imported] \in Files
      BY DEF Files
    <3> QED BY <3>1, <3>2, <3>3 DEF Committed
  <2>4. CASE Commits \/ MainCommits
    BY <1>3, <2>1, <2>4 DEF Commits, MainCommits, FilesTypeOK
  <2>2. CASE Deals
    BY <1>1, <2>2 DEF Deals, FilesTypeOK
  <2>3. CASE UNCHANGED <<base, tip>>
    BY <1>3, <2>3 DEF FilesTypeOK
  <2> QED BY <1>3, <2>2, <2>3, <2>4 DEF FlakesNext, flakeVars, TakesChunk, StopsShort,
                                        IsCutShort, ChunkPasses, ChunkFails
<1> QED BY <1>2, <1>3

(* Of the tests that were there, in a file the branch touched the gate
   repeats those that mean something else than at the tip of main and no
   other, and in the rest none, for any tests and definitions, in rings or
   not, and whatever is committed on either side (changed_tests.py).      *)
THEOREM ChangedAreNamed == FlakesSpec => TheChangedAreNamed
<1>1. ASSUME FilesTypeOK, [FlakesNext]_flakeVars
      PROVE  [gate = "out" /\ gate' # "out" =>
                \A t \in OldTests : tip.tests[t] # Undefined =>
                  (t \in ToSet(changedIds') <=> tip # fork /\ ~MeansTheSame(t))]_flakeVars
  <2> SUFFICES ASSUME gate = "out", gate' # "out", NEW t \in OldTests,
                      tip.tests[t] # Undefined
               PROVE  t \in ToSet(changedIds') <=> tip # fork /\ ~MeansTheSame(t)
    OBVIOUS
  <2>1. Deals
    BY <1>1 DEF FlakesNext, flakeVars, Commits, CommitsOne, MainCommits, TakesChunk, StopsShort, IsCutShort,
                ChunkPasses, ChunkFails
  <2> DEFINE named == ChangedTests \cup NewTests
  <2>2. changedIds' \in InOrderOf(named)
    BY <2>1 DEF Deals
  <2>3. named \subseteq OldTests \cup NewTests
    BY DEF ChangedTests
  <2>4. IsFiniteSet(named) /\ named \subseteq Nat
    BY <2>3, FlakesAssumption, FS_Union, FS_Subset
  <2>5. ToSet(changedIds') = named
    <3> HIDE DEF named
    <3> QED BY <2>2, <2>4, AllAreInOrder
  <2>6. t \notin NewTests
    BY FlakesAssumption
  <2> QED BY <1>1, <2>5, <2>6, NamedWhenChanged
<1> QED BY FilesKept, <1>1, PTL DEF FlakesSpec, TheChangedAreNamed

(***************************************************************************)
(* The ratchet.  Main holds what its entries say.  What a branch may hold  *)
(* at a path main holds at the path it is carried from, and nothing is     *)
(* carried from one path to two: so each that is counted on the branch is  *)
(* one of main's.                                                          *)
(***************************************************************************)

RatchetInv ==
  /\ live \in [Keys -> 0..Most] /\ merged.live \in [Keys -> 0..Most]
  /\ \A k \in Keys : merged.onFile[k] = merged.live[k]

LEMMA RatchetHolds ==
  /\ RatchetInit => RatchetInv
  /\ RatchetInv /\ [RatchetNext]_ratchetVars => RatchetInv'
<1>1. RatchetInit => RatchetInv
  BY RatchetAssumption DEF RatchetInit, RatchetInv
<1>2. ASSUME RatchetInv, [RatchetNext]_ratchetVars PROVE RatchetInv'
  <2>1. ASSUME NEW k \in Keys, Edits(k) PROVE RatchetInv'
    BY <1>2, <2>1 DEF Edits, Counts, RatchetInv
  <2>2. ASSUME NEW k \in Keys, SetsEntry(k) PROVE RatchetInv'
    BY <1>2, <2>2 DEF SetsEntry, RatchetInv
  <2>3. ASSUME NEW a \in Keys, NEW b \in Keys, Renames(a, b) PROVE RatchetInv'
    <3>1. live' = [live EXCEPT ![b] = live[a], ![a] = 0] /\ UNCHANGED merged
      BY <2>3 DEF Renames
    <3>2. 0 \in 0..Most
      BY RatchetAssumption
    <3> QED BY <1>2, <3>1, <3>2 DEF RatchetInv
  <2>4. ASSUME NEW a \in Keys, NEW b \in Keys, StatesRename(a, b) PROVE RatchetInv'
    BY <1>2, <2>4 DEF StatesRename, RatchetInv
  <2>5. CASE StatesNone \/ RunsTool
    BY <1>2, <2>5 DEF StatesNone, RunsTool, RatchetInv
  <2>6. CASE LandsBranch
    BY <1>2, <2>6 DEF LandsBranch, CountHolds, RatchetInv
  <2>7. CASE StartsAnew
    BY <1>2, <2>7 DEF StartsAnew, RatchetInv
  <2>8. CASE UNCHANGED ratchetVars
    BY <1>2, <2>8 DEF ratchetVars, RatchetInv
  <2> QED BY <1>2, <2>1, <2>2, <2>3, <2>4, <2>5, <2>6, <2>7, <2>8 DEF RatchetNext
<1> QED BY <1>1, <1>2

(* Where what is carried to a path comes from. *)
CarriedFrom(moved, k) == IF moved[k] # 0 THEN moved[k] ELSE k

LEMMA CarriedFromOne ==
  ASSUME NEW held, NEW renames, NEW moved \in Moved(held, renames), NEW carried,
         carried = [k \in Keys |-> IF moved[k] # 0 THEN held[moved[k]]
                                   ELSE IF k \in DOMAIN renames THEN 0 ELSE held[k]]
  PROVE  /\ \A k \in Keys : carried[k] # 0 => /\ CarriedFrom(moved, k) \in Keys
                                              /\ carried[k] = held[CarriedFrom(moved, k)]
         /\ \A k, l \in Keys :
              carried[k] # 0 /\ carried[l] # 0 /\ CarriedFrom(moved, k) = CarriedFrom(moved, l)
                => k = l
<1>1. \A k \in Keys : moved[k] \in Keys \cup {0}
  BY DEF Moved
<1>2. \A k \in Keys : moved[k] # 0 => moved[k] \in DOMAIN renames /\ renames[moved[k]] = k
  <2> SUFFICES ASSUME NEW k \in Keys, moved[k] # 0
               PROVE  moved[k] \in Movers(held, renames, k)
    BY DEF Movers
  <2>1. moved[k] \in (IF Movers(held, renames, k) = {} THEN {0}
                      ELSE Movers(held, renames, k))
    BY DEF Moved
  <2> QED BY <2>1
<1>3. \A k \in Keys : carried[k] # 0 /\ moved[k] = 0 => k \notin DOMAIN renames
  OBVIOUS
<1>4. \A k \in Keys : carried[k] # 0 => /\ CarriedFrom(moved, k) \in Keys
                                        /\ carried[k] = held[CarriedFrom(moved, k)]
  BY <1>1 DEF CarriedFrom
<1>5. \A k, l \in Keys :
        carried[k] # 0 /\ carried[l] # 0 /\ CarriedFrom(moved, k) = CarriedFrom(moved, l)
          => k = l
  BY <1>2, <1>3 DEF CarriedFrom
<1> QED BY <1>4, <1>5

(* What is counted on the branch is as much of what is counted on main. *)
LEMMA LandingRaisesNothing ==
  ASSUME RatchetInv, LandsBranch
  PROVE  Cardinality(EachCounted(merged'.live)) <= Cardinality(EachCounted(merged.live))
<1>1. merged'.live = live /\ CountHolds
  BY DEF LandsBranch
<1>2. PICK carried \in Carried(merged.onFile, RenamesSeen) :
        \A k \in Keys : onFile[k] <= carried[k]
  BY DEF LandsBranch, NothingStandsAboveMain
<1> DEFINE renames == RenamesSeen
<1>3. PICK moved \in Moved(merged.onFile, renames) :
        carried = [k \in Keys |-> IF moved[k] # 0 THEN merged.onFile[moved[k]]
                                  ELSE IF k \in DOMAIN renames THEN 0 ELSE merged.onFile[k]]
  BY <1>2 DEF Carried
<1> HIDE DEF renames
<1> DEFINE from(k) == CarriedFrom(moved, k)
<1>4. /\ \A k \in Keys : carried[k] # 0 => from(k) \in Keys
                                           /\ carried[k] = merged.onFile[from(k)]
      /\ \A k, l \in Keys : carried[k] # 0 /\ carried[l] # 0 /\ from(k) = from(l) => k = l
  BY <1>3, CarriedFromOne
<1> HIDE DEF from
<1> DEFINE ours == EachCounted(live)
           mains == EachCounted(merged.live)
           one == [c \in ours |-> <<from(c[1]), c[2]>>]
<1>5. \A c \in ours : /\ c[1] \in Keys /\ c[2] \in 1..Most /\ c = <<c[1], c[2]>>
                      /\ carried[c[1]] # 0 /\ from(c[1]) \in Keys
                      /\ c[2] <= merged.live[from(c[1])]
  <2> SUFFICES ASSUME NEW c \in ours
               PROVE  /\ c[1] \in Keys /\ c[2] \in 1..Most /\ c = <<c[1], c[2]>>
                      /\ carried[c[1]] # 0 /\ from(c[1]) \in Keys
                      /\ c[2] <= merged.live[from(c[1])]
    OBVIOUS
  <2>1. c[1] \in Keys /\ c[2] \in 1..Most /\ c = <<c[1], c[2]>> /\ c[2] <= live[c[1]]
    BY DEF EachCounted
  <2>2. live[c[1]] = onFile[c[1]] /\ onFile[c[1]] <= carried[c[1]]
        /\ live[c[1]] \in 0..Most
    BY <1>1, <1>2, <2>1 DEF CountHolds, RatchetInv
  <2>3. carried[c[1]] # 0
    BY <2>1, <2>2
  <2>4. from(c[1]) \in Keys /\ carried[c[1]] = merged.live[from(c[1])]
        /\ merged.live[from(c[1])] \in 0..Most
    BY <1>4, <2>1, <2>3 DEF RatchetInv
  <2> QED BY <2>1, <2>2, <2>3, <2>4
<1>6. one \in [ours -> mains]
  <2> SUFFICES ASSUME NEW c \in ours PROVE <<from(c[1]), c[2]>> \in mains
    OBVIOUS
  <2> QED BY <1>5 DEF EachCounted
<1>7. \A c, d \in ours : one[c] = one[d] => c = d
  <2> SUFFICES ASSUME NEW c \in ours, NEW d \in ours, one[c] = one[d] PROVE c = d
    OBVIOUS
  <2>1. from(c[1]) = from(d[1]) /\ c[2] = d[2]
    OBVIOUS
  <2>2. c[1] = d[1]
    BY <1>4, <1>5, <2>1
  <2>3. c = <<c[1], c[2]>> /\ d = <<d[1], d[2]>>
    BY <1>5
  <2> QED BY <2>1, <2>2, <2>3
<1>8. IsFiniteSet(mains)
  <2>1. IsFiniteSet(Keys \X (1..Most))
    <3>1. 1 \in Int /\ Most \in Int /\ IsFiniteSet(Keys)
      BY RatchetAssumption
    <3>2. IsFiniteSet(1..Most)
      BY <3>1, FS_Interval, Zenon
    <3> QED BY <3>1, <3>2, FS_Product, Zenon
  <2>2. mains \in SUBSET (Keys \X (1..Most))
    BY DEF EachCounted
  <2> HIDE DEF mains
  <2> QED BY <2>1, <2>2, FS_Subset
<1> HIDE DEF ours, mains, one
<1>9. one \in Injection(ours, mains)
  BY <1>6, <1>7 DEF Injection, IsInjective
<1>10. Cardinality(ours) <= Cardinality(mains)
  BY <1>8, <1>9, FS_Injection
<1> QED BY <1>1, <1>10 DEF ours, mains

(* What main holds never rises, for any files, renames, statements and
   entries (gates/baseline.py).                                           *)
THEOREM MainNeverRises == RatchetSpec => NothingRisesOnMain
<1>1. ASSUME RatchetInv, [RatchetNext]_ratchetVars
      PROVE  [merged' # merged =>
                Cardinality(EachCounted(merged'.live)) <= Cardinality(EachCounted(merged.live))
             ]_ratchetVars
  <2>1. merged' # merged => LandsBranch
    BY <1>1 DEF RatchetNext, ratchetVars, Edits, SetsEntry, Renames, StatesRename,
                StatesNone, RunsTool, StartsAnew
  <2> QED BY <1>1, <2>1, LandingRaisesNothing
<1> QED BY RatchetHolds, <1>1, PTL DEF RatchetSpec, NothingRisesOnMain

(***************************************************************************)
(* The family.  Its parts share no state, so a behaviour of the family is  *)
(* a behaviour of every part, most of which stand still in it.             *)
(***************************************************************************)

LEMMA PartsBegin ==
  FamilyInit => /\ HotfixInit /\ ScreenInit /\ ProcessesInit /\ PinsInit
                /\ SweepInit /\ PeersInit /\ HandoffInit /\ SettingsInit
                /\ FlakesInit /\ RatchetInit /\ SiblingsInit /\ ChannelsInit
BY DEF FamilyInit

LEMMA PartsStep ==
  ASSUME [FamilyNext]_familyVars
  PROVE  /\ [HotfixNext]_hotfixVars /\ [ScreenNext]_screenVars
         /\ [ProcessesNext]_processVars /\ [PinsNext]_pinVars
         /\ [SweepNext]_sweepVars /\ [PeersNext]_peerVars
         /\ [HandoffNext]_handoffVars /\ [SettingsNext]_settingsVars
         /\ [FlakesNext]_flakeVars /\ [RatchetNext]_ratchetVars
         /\ [SiblingsNext]_siblingVars /\ [ChannelsNext]_channelVars
BY DEF FamilyNext, familyVars, OfHotfix, OfScreen, OfProcesses, OfPins, OfSweep, OfPeers,
       OfHandoff, OfSettings, OfFlakes, OfRatchet, OfSiblings, OfChannels

(* What programs of the family do is what each part of it allows: so what  *)
(* is proved of a part holds in the family.                                *)
THEOREM FamilyIsItsParts ==
  FamilySafety => /\ HotfixSpec /\ ScreenSpec /\ ProcessesSpec /\ PinsSpec
                  /\ SweepSpec /\ PeersSpec /\ HandoffSpec /\ SettingsSpec
                  /\ FlakesSpec /\ RatchetSpec /\ SiblingsSpec /\ ChannelsSafety
BY PartsBegin, PartsStep, PTL
DEF FamilySafety, HotfixSpec, ScreenSpec, ProcessesSpec, PinsSpec, SweepSpec, PeersSpec,
    HandoffSpec, SettingsSpec, FlakesSpec, RatchetSpec, SiblingsSpec, ChannelsSafety

(* Whatever part a behaviour of the family is of, nothing that this        *)
(* directory states of any part is broken in it.                           *)
THEOREM FamilyIsSafe ==
  FamilySafety =>
    /\ []VersionsAreKept /\ FixesStay
    /\ []ACancelIsHeeded
    /\ NoneOfHisIsAnAgents /\ AgentsAreTold
    /\ []ALandingMends /\ PinsNeverGoBack
    /\ []EachIsBlamedForItself /\ []NothingIsLeftOfAHang
    /\ []WhatHeClosedStaysClosed
    /\ []TakeoversArrive
    /\ []ARunSettles
    /\ []EachIsRepeatedOrNamed /\ TheChangedAreNamed
    /\ NothingRisesOnMain
    /\ []PinsAreWhatImportsReach
    /\ []NoVerbIsLost /\ []VerbsArriveInOrder
    /\ FramesAreWhole /\ FramesComeOnce
BY FamilyIsItsParts, HotfixVersionsAreKept, NoFixIsLeft, CancelsAreHeeded,
   NoneOfHisIsTaken, AgentsAreNotHis, LandingsThatMend, PinsGoForward,
   BlamedForItself, NothingIsLeftBehind, ClosedStaysClosed, EveryTakeoverArrives,
   ARunThatSettles, HeldIsRepeated, ChangedAreNamed, MainNeverRises,
   ImportsReachThePins, NothingIsLost, InTheOrderSent, WholeFrames, FramesOnce, PTL
=============================================================================
