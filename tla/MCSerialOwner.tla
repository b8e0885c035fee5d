--------------------------- MODULE MCSerialOwner ---------------------------
(* One device with two settings and three handlers in flight: one for every *)
(* method; one that can close the port under it, or keep the control channel *)
(* filled together with it; and one that writes.                            *)
EXTENDS SerialOwner, TLC

CONSTANTS h1, h2, h3

TwoFields == {1, 2}
Initial == [f \in TwoFields |-> "a"]

\* An update of both settings, which can be refused half-way.
Both == { 1 :> "b" @@ 2 :> "b" }

\* A break that cannot be asserted stands for the other line operations.
AllOps == (Control \ {"line"}) \cup {"write", "reconnect"}

ThreeOps == h1 :> AllOps @@ h2 :> {"break", "disconnect"} @@ h3 :> {"write"}
=============================================================================
