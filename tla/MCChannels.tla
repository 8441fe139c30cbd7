------------------------------ MODULE MCChannels ------------------------------
(***************************************************************************)
(* Two programs that append and a tool; a window opened twice.              *)
(***************************************************************************)
EXTENDS Channels

CONSTANTS main, portrait, tool

AllWriters == {main, portrait, tool}
TheTool == {tool}
=============================================================================
