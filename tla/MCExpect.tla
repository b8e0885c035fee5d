------------------------------ MODULE MCExpect ------------------------------
(* Devices that say the pattern "pq" among other things. *)
EXTENDS Expect

CONSTANTS s1

PQ == <<"p", "q">>

\* Every text of four bytes p and q, one without the pattern that is too long
\* for max_bytes, and some with escape sequences before the pattern, inside it
\* and over a part of it.
Texts == [1..4 -> {"p", "q"}] \cup
  {<<"esc", "[", "1", "p", "q">>, <<"p", "esc", "[", "q", "q">>,
   <<"p", "esc", "1", "q", "q">>, <<"esc", "p", "q", "p", "q">>,
   <<"p", "p", "p", "p", "p", "p">>}
=============================================================================
