------------------------------ MODULE LossyPipe ------------------------------
(***************************************************************************)
(* What each direction of a PTY bridge promises: a pipe without retries.   *)
(* Bytes go in numbered 0, 1, 2, ...  Each is settled in its turn, once    *)
(* and for good: it comes out or it is lost.                               *)
(***************************************************************************)
EXTENDS Naturals, Sequences

VARIABLES
  fed,     \* bytes that went in
  settled, \* those of them that are through or lost, from the first on
  out      \* what came out, in order

Init == fed = 0 /\ settled = 0 /\ out = <<>>

\* What is new in `out` is of the bytes that are settled now, each after the last.
Comes ==
  /\ Len(out') >= Len(out)
  /\ \A i \in 1..Len(out) : out'[i] = out[i]
  /\ \A i \in Len(out) + 1 .. Len(out') : out'[i] \in settled .. settled' - 1
  /\ \A i, j \in Len(out) + 1 .. Len(out') : i < j => out'[i] < out'[j]

Next ==
  /\ fed' \in Nat /\ fed' >= fed
  /\ settled' \in settled .. fed'
  /\ out' \in Seq(Nat)
  /\ Comes

Spec == Init /\ [][Next]_<<fed, settled, out>>
=============================================================================
