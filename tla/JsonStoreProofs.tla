--------------------------- MODULE JsonStoreProofs ---------------------------
(***************************************************************************)
(* That locked_update loses no edit, for any number of writers, any times  *)
(* and any bounds.  The argument: a writer between its claim and its close *)
(* has its handle open on the file that is at the lock's name, a file that *)
(* is open cannot be unlinked, and a name that is taken cannot be claimed. *)
(***************************************************************************)
EXTENDS JsonStore, TLAPS

(* The writers with an open handle are those that hold the lock, and the
   file at the lock's name is theirs.                                     *)
TheHolderHasItOpen ==
  \A w \in Writers : /\ w \in open <=> pc[w] \in Holding
                     /\ pc[w] \in Holding => lock = w

(* What a writer is about to write over is what it read. *)
WhatWasReadIsThere ==
  \A w \in Writers : pc[w] = "write" => read[w] = document

IInv == TypeOK /\ TheHolderHasItOpen /\ WhatWasReadIsThere /\ NoEditIsLost

(* One more edit in a document is a document again. *)
LEMMA WithType ==
  ASSUME NEW held \in [Writers -> Nat], NEW w \in Writers
  PROVE  Atomic!With(held, w) \in [Writers -> Nat]
  BY DEF Atomic!With

LEMMA InitIInv == Init => IInv
  BY NoOneAssumption, TimesAssumption
  DEF Init, IInv, TypeOK, TheHolderHasItOpen, WhatWasReadIsThere,
      NoEditIsLost, Atomic!NoEdits, Steps, Holding

(* Few actions touch each variable. *)
LEMMA WhatChangesWhat ==
  ASSUME [Next]_vars
  PROVE  /\ UNCHANGED <<document, made>> \/ \E w \in Writers : Write(w)
         /\ UNCHANGED age \/ age' = 0 \/ Tick
         /\ UNCHANGED waited \/ Tick \/ \E w \in Writers : Begin(w)
         /\ UNCHANGED calls \/ \E w \in Writers : Begin(w)
         /\ UNCHANGED crashes \/ crashes' = crashes + 1
  BY DEF Next, AwaitLock, Change, LetGo, Begin, ClaimMade, ClaimMet,
         ClaimDenied, LookAbandoned, LookHeld, TakeOver, Read, Write,
         WriteFails, Close, Release, Crash, Tick, DeleteSettles, disk, vars

LEMMA TypeStep == TypeOK /\ [Next]_vars => TypeOK'
  <1> SUFFICES ASSUME TypeOK, [Next]_vars PROVE TypeOK'
    OBVIOUS
  <1>1. document' \in [Writers -> Nat] /\ made' \in [Writers -> Nat]
    <2>1. CASE UNCHANGED <<document, made>>
      BY <2>1 DEF TypeOK
    <2>2. ASSUME NEW w \in Writers, Write(w)
          PROVE  document' \in [Writers -> Nat] /\ made' \in [Writers -> Nat]
      <3>1. read[w] \in [Writers -> Nat] /\ made \in [Writers -> Nat]
        BY DEF TypeOK
      <3> QED
        BY <2>2, <3>1, WithType DEF Write
    <2> QED
      BY <2>1, <2>2, WhatChangesWhat
  <1>2. age' \in 0..Stale + 1
    BY WhatChangesWhat, TimesAssumption DEF TypeOK, Tick
  <1>3. waited' \in [Writers -> 0..Wait]
    BY WhatChangesWhat, TimesAssumption DEF TypeOK, Tick, Begin, OutOfTime
  <1>4. calls' \in [Writers -> Nat] /\ crashes' \in Nat
    BY WhatChangesWhat DEF TypeOK, Begin
  <1> USE DEF Next, AwaitLock, Change, LetGo, Begin, ClaimMade, ClaimMet,
              ClaimDenied, LookAbandoned, LookHeld, TakeOver, Read, Write,
              WriteFails, Close, Release, Crash, Tick, DeleteSettles, disk,
              vars
  <1>5. lock' \in Writers \cup {NoOne, Deleting} /\ open' \subseteq Writers
    BY DEF TypeOK, Unlink
  <1>6. pc' \in [Writers -> Steps]
    BY DEF TypeOK, Goto, Steps
  <1>7. read' \in [Writers -> [Writers -> Nat]]
    BY DEF TypeOK
  <1> HIDE DEF Next
  <1> QED
    BY <1>1, <1>2, <1>3, <1>4, <1>5, <1>6, <1>7 DEF TypeOK

LEMMA LockStep ==
  TypeOK /\ TheHolderHasItOpen /\ [Next]_vars => TheHolderHasItOpen'
  <1> USE NoOneAssumption
      DEF TypeOK, TheHolderHasItOpen, Steps, Holding, Goto, disk
  <1> SUFFICES ASSUME TypeOK, TheHolderHasItOpen, [Next]_vars
               PROVE  TheHolderHasItOpen'
    OBVIOUS
  <1>1. ASSUME NEW w \in Writers, Begin(w) PROVE TheHolderHasItOpen'
    BY <1>1 DEF Begin
  <1>2. ASSUME NEW w \in Writers, AwaitLock(w) PROVE TheHolderHasItOpen'
    <2>1. CASE ClaimMade(w)
      BY <2>1 DEF ClaimMade
    <2>2. CASE ClaimMet(w) \/ ClaimDenied(w) \/ LookAbandoned(w) \/ LookHeld(w)
      BY <2>2 DEF ClaimMet, ClaimDenied, LookAbandoned, LookHeld
    <2>3. CASE TakeOver(w)
      (* The file it unlinks is nobody's that holds the lock. *)
      BY <2>3 DEF TakeOver, Unlink, Unlinkable
    <2> QED
      BY <1>2, <2>1, <2>2, <2>3 DEF AwaitLock
  <1>3. ASSUME NEW w \in Writers, Change(w) PROVE TheHolderHasItOpen'
    BY <1>3 DEF Change, Read, Write, WriteFails
  <1>4. ASSUME NEW w \in Writers, LetGo(w) PROVE TheHolderHasItOpen'
    BY <1>4 DEF LetGo, Close, Release, Unlink, Unlinkable
  <1>5. ASSUME NEW w \in Writers, Crash(w) PROVE TheHolderHasItOpen'
    BY <1>5 DEF Crash
  <1>6. CASE Tick \/ DeleteSettles \/ UNCHANGED vars
    BY <1>6 DEF Tick, DeleteSettles, vars
  <1> QED
    BY <1>1, <1>2, <1>3, <1>4, <1>5, <1>6 DEF Next

LEMMA TwoHoldersAreOne == TypeOK /\ TheHolderHasItOpen => OneHolder
  BY DEF TheHolderHasItOpen, OneHolder

LEMMA EditStep ==
  IInv /\ [Next]_vars => WhatWasReadIsThere' /\ NoEditIsLost'
  <1> USE DEF Steps, Holding, Goto, disk, WhatWasReadIsThere, NoEditIsLost
  <1> SUFFICES ASSUME IInv, [Next]_vars
               PROVE  WhatWasReadIsThere' /\ NoEditIsLost'
    OBVIOUS
  <1>0. TypeOK /\ TheHolderHasItOpen /\ WhatWasReadIsThere /\ NoEditIsLost
    BY DEF IInv
  <1>1. ASSUME NEW w \in Writers, Begin(w)
        PROVE  WhatWasReadIsThere' /\ NoEditIsLost'
    BY <1>0, <1>1 DEF Begin, TypeOK
  <1>2. ASSUME NEW w \in Writers, AwaitLock(w)
        PROVE  WhatWasReadIsThere' /\ NoEditIsLost'
    BY <1>0, <1>2 DEF AwaitLock, ClaimMade, ClaimMet, ClaimDenied,
                      LookAbandoned, LookHeld, TakeOver, TypeOK
  <1>3. ASSUME NEW w \in Writers, Change(w)
        PROVE  WhatWasReadIsThere' /\ NoEditIsLost'
    <2>1. CASE Read(w)
      BY <1>0, <2>1 DEF Read, TypeOK
    <2>2. CASE Write(w)
      <3>1. read[w] = document /\ document = made
        BY <1>0, <2>2 DEF Write
      <3>2. NoEditIsLost'
        BY <3>1, <2>2 DEF Write
      <3>3. WhatWasReadIsThere'
        (* Nobody else holds the lock, so nobody else is about to write. *)
        BY <1>0, <2>2 DEF Write, TheHolderHasItOpen, TypeOK
      <3> QED
        BY <3>2, <3>3
    <2>3. CASE WriteFails(w)
      BY <1>0, <2>3 DEF WriteFails, TypeOK
    <2> QED
      BY <1>3, <2>1, <2>2, <2>3 DEF Change
  <1>4. ASSUME NEW w \in Writers, LetGo(w)
        PROVE  WhatWasReadIsThere' /\ NoEditIsLost'
    BY <1>0, <1>4 DEF LetGo, Close, Release, TypeOK
  <1>5. ASSUME NEW w \in Writers, Crash(w)
        PROVE  WhatWasReadIsThere' /\ NoEditIsLost'
    BY <1>0, <1>5 DEF Crash, TypeOK
  <1>6. CASE Tick \/ DeleteSettles \/ UNCHANGED vars
    BY <1>0, <1>6 DEF Tick, DeleteSettles, vars
  <1> QED
    BY <1>1, <1>2, <1>3, <1>4, <1>5, <1>6 DEF Next

LEMMA IInvStep == IInv /\ [Next]_vars => IInv'
  BY TypeStep, LockStep, EditStep DEF IInv

(* Every reachable state of locked_update's writers satisfies the inductive
   invariant.                                                             *)
THEOREM Invariance == Spec => []IInv
  BY InitIInv, IInvStep, PTL DEF Spec

(* The variables hold what they are declared to. *)
THEOREM TypeCorrect == Spec => []TypeOK
  <1>1. IInv => TypeOK
    BY DEF IInv
  <1> QED
    BY Invariance, <1>1, PTL

(* The lock of locked_update admits one writer, take-overs included. *)
THEOREM MutualExclusion == Spec => []OneHolder
  <1>1. IInv => OneHolder
    BY TwoHoldersAreOne DEF IInv
  <1> QED
    BY Invariance, <1>1, PTL

(* The document of locked_update holds every edit written to it. *)
THEOREM NoLostEdit == Spec => []NoEditIsLost
  <1>1. IInv => NoEditIsLost
    BY DEF IInv
  <1> QED
    BY Invariance, <1>1, PTL

(* locked_update implements an atomic edit of the document: its write is
   the edit, and no other step touches the document.                      *)
THEOREM Refinement == Spec => EditsAreAtomic
  <1>1. Init => Atomic!Init
    BY DEF Init, Atomic!Init
  <1>2. IInv /\ [Next]_vars => [Atomic!Next]_document
    <2> SUFFICES ASSUME IInv, [Next]_vars PROVE [Atomic!Next]_document
      OBVIOUS
    <2> USE DEF disk
    <2>1. ASSUME NEW w \in Writers, Write(w) PROVE Atomic!Next
      <3>1. read[w] = document
        BY <2>1 DEF Write, IInv, WhatWasReadIsThere
      <3> QED
        BY <2>1, <3>1 DEF Write, Atomic!Next, Atomic!Edit
    <2>2. ASSUME NEW w \in Writers, Begin(w) \/ AwaitLock(w) \/ LetGo(w)
                 \/ Crash(w) \/ Read(w) \/ WriteFails(w)
          PROVE  UNCHANGED document
      BY <2>2 DEF Begin, AwaitLock, ClaimMade, ClaimMet, ClaimDenied,
                  LookAbandoned, LookHeld, TakeOver, LetGo, Close, Release,
                  Crash, Read, WriteFails
    <2>3. CASE Tick \/ DeleteSettles \/ UNCHANGED vars
      BY <2>3 DEF Tick, DeleteSettles, vars
    <2> QED
      BY <2>1, <2>2, <2>3 DEF Next, Change
  <1> QED
    BY <1>1, <1>2, Invariance, PTL DEF Spec, EditsAreAtomic, Atomic!Spec
=============================================================================
