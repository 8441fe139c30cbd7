------------------------------- MODULE MCOsr2 -------------------------------
(***************************************************************************)
(* The OSR2's slot between two senders, and with one.                      *)
(***************************************************************************)
EXTENDS Osr2Senders

CONSTANTS portrait, main

OneSender == {portrait}
TwoSenders == {portrait, main}
TwoDials == [s \in OneSender |-> 2]
DialsOfTwo == [s \in TwoSenders |-> IF s = portrait THEN 2 ELSE 1]
=============================================================================
