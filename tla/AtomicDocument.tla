--------------------------- MODULE AtomicDocument ---------------------------
(***************************************************************************)
(* What the writers of one shared JSON document are promised: an edit is   *)
(* one step that leaves every other writer's edits where they were.  A     *)
(* document is how many edits of each writer it holds.                     *)
(***************************************************************************)
EXTENDS Naturals

CONSTANT Writers
VARIABLE document

NoEdits == [w \in Writers |-> 0]

With(held, w) == [held EXCEPT ![w] = @ + 1]

Init == document = NoEdits

Edit(w) == document' = With(document, w)

Next == \E w \in Writers : Edit(w)

Spec == Init /\ [][Next]_document
=============================================================================
