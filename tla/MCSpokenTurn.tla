---------------------------- MODULE MCSpokenTurn ----------------------------
(* Instances of SpokenTurn for TLC. *)
EXTENDS SpokenTurn
=============================================================================
