------------------------------ MODULE MCFanout ------------------------------
(* Two sessions of one connection on a ring of two bytes. *)
EXTENDS Fanout, TLC

CONSTANTS s1, s2
=============================================================================
