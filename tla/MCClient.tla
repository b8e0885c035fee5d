------------------------------ MODULE MCClient ------------------------------
(* Every command. *)
EXTENDS Client

MCCommands == {"status", "set", "send", "expect", "run", "exec", "tail", "sync", "pty", "reset",
               "reconnect"}
=============================================================================
