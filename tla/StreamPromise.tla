--------------------------- MODULE StreamPromise ---------------------------
(***************************************************************************)
(* What a session is promised about the device's output (sections 7.1, 7.2 *)
(* and 9 of docs/PROTOCOL.md, the module comment of tetherd/buffer.rs):    *)
(* its notifications follow on one another without a gap.  A `data`        *)
(* carries the very bytes it numbers; a `lag` owns up to bytes that the    *)
(* ring, which keeps the last Capacity bytes, has really let go.           *)
(***************************************************************************)
EXTENDS Integers

CONSTANTS Sessions, Capacity

VARIABLES
  produced,  \* bytes the device has sent so far
  note       \* the last notification of each session

NoNote == [kind |-> "none", lo |-> 0, hi |-> 0, data |-> << >>]

Oldest == IF produced > Capacity THEN produced - Capacity ELSE 0

Init == produced = 0 /\ note = [s \in Sessions |-> NoNote]

Produce == produced' \in Nat /\ produced' > produced /\ UNCHANGED note

\* The session starts at the seq its attach answer names.
Open(s) ==
  /\ note[s] = NoNote
  /\ LET p == note'[s].hi IN
     /\ p \in Nat
     /\ note' = [note EXCEPT ![s] = [kind |-> "attach", lo |-> p, hi |-> p, data |-> << >>]]
  /\ UNCHANGED produced

Data(s) ==
  /\ note[s] # NoNote
  /\ \E hi \in note[s].hi + 1 .. produced :
       note' = [note EXCEPT ![s] =
         [kind |-> "data", lo |-> @.hi, hi |-> hi,
          data |-> [i \in 1 .. hi - @.hi |-> @.hi + i - 1]]]
  /\ UNCHANGED produced

Lag(s) ==
  /\ note[s] # NoNote
  /\ \E hi \in note[s].hi + 1 .. Oldest :
       note' = [note EXCEPT ![s] =
         [kind |-> "lag", lo |-> @.hi, hi |-> hi, data |-> << >>]]
  /\ UNCHANGED produced

Next == Produce \/ \E s \in Sessions : Open(s) \/ Data(s) \/ Lag(s)

Spec == Init /\ [][Next]_<<produced, note>>
=============================================================================
