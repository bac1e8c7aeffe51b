---------------------------- MODULE MCWindowInput ---------------------------
(* An activity, its dialog and a popup, in any order.                      *)
EXTENDS WindowInput
=============================================================================
