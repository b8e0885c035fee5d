------------------------------ MODULE MCPtyLink ------------------------------
(* Two processes that meet the link of a dead one. *)
EXTENDS PtyLink

CONSTANTS p1, p2

MCProcs == {p1, p2}
DeadLink == {<<Gone, Gone>>}
=============================================================================
