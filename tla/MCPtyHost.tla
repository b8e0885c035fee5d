------------------------------ MODULE MCPtyHost ------------------------------
(* Two processes, the second with `--link`, and two daemons by hand. *)
EXTENDS PtyHost

CONSTANTS p1, p2, d1, d2

MCProcs == {p1, p2}
MCNamed == {p2}
MCServers == {d1, d2}
=============================================================================
