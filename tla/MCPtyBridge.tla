----------------------------- MODULE MCPtyBridge -----------------------------
(* The bridge needs no values but numbers. *)
EXTENDS PtyBridge
=============================================================================
