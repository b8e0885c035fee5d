----------------------------- MODULE RingBuffer -----------------------------
(***************************************************************************)
(* The ring buffer of one device (tetherd/buffer.rs) as operators on its   *)
(* locked interior [buf, head_seq, tail_seq].                              *)
(*                                                                         *)
(* What a byte says is of no matter here: a byte is its own number in the  *)
(* device's output, so that the byte of sequence number n is n.            *)
(***************************************************************************)
EXTENDS Integers, Sequences

CONSTANT Capacity   \* --buffer-capacity; 0 would break `push`

ASSUME CapacityPositive == Capacity \in Nat \ {0}

EmptyRing == [buf |-> <<>>, head_seq |-> 0, tail_seq |-> 0]

\* The n bytes the device sends next.
Fresh(r, n) == [i \in 1..n |-> r.head_seq + i - 1]

\* The body of `push`'s loop: one byte, head_seq aside.
PushByte(r, b) ==
  IF Len(r.buf) = Capacity
  THEN [r EXCEPT !.buf = Append(Tail(@), b), !.tail_seq = @ + 1]
  ELSE [r EXCEPT !.buf = Append(@, b)]

\* Fault: a push that does not fit keeps one byte too many.
PushOverfull(r, bytes) ==
  LET all  == r.buf \o bytes
      lost == IF Len(all) > Capacity + 1 THEN Len(all) - Capacity - 1 ELSE 0
  IN [buf |-> SubSeq(all, lost + 1, Len(all)),
      head_seq |-> r.head_seq + Len(bytes), tail_seq |-> r.tail_seq + lost]

\* The whole of `push` at once: append, and drop the oldest that do not fit.
Push(r, bytes) ==
  LET all  == r.buf \o bytes
      lost == IF Len(all) > Capacity THEN Len(all) - Capacity ELSE 0
  IN [buf |-> SubSeq(all, lost + 1, Len(all)),
      head_seq |-> r.head_seq + Len(bytes), tail_seq |-> r.tail_seq + lost]

Reads == [data: Seq(Nat), resume: Nat, cursor: Nat, lag: BOOLEAN]

\* Fault: bytes that were overwritten are skipped without a lag.
ReadWithoutLag(r, from) ==
  LET resume == IF from < r.tail_seq THEN r.tail_seq ELSE from IN
  IF from >= r.head_seq
  THEN [data |-> <<>>, resume |-> from, cursor |-> from, lag |-> FALSE]
  ELSE [data |-> SubSeq(r.buf, resume - r.tail_seq + 1, r.head_seq - r.tail_seq),
        resume |-> resume, cursor |-> r.head_seq, lag |-> FALSE]

\* read_from: everything from `from` on.  With `lag`, the bytes from `from`
\* to `resume` were overwritten before they could be read.
ReadFrom(r, from) ==
  LET resume == IF from < r.tail_seq THEN r.tail_seq ELSE from IN
  IF from >= r.head_seq
  THEN [data |-> <<>>, resume |-> from, cursor |-> from, lag |-> FALSE]
  ELSE [data |-> SubSeq(r.buf, resume - r.tail_seq + 1, r.head_seq - r.tail_seq),
        resume |-> resume, cursor |-> r.head_seq, lag |-> from < r.tail_seq]
=============================================================================
