------------------------------ MODULE MCChunks ------------------------------
(***************************************************************************)
(* What is read in chunks means the same however it is cut: either the     *)
(* user types into a shell, or a peer sends to a decoder, and the other    *)
(* one has nothing to read.                                                *)
(***************************************************************************)
EXTENDS Shell, Codec

CONSTANT MaxBytes \* bound: bytes that a peer sends in all

ChunksInit ==
  \/ \E keys \in BoundedSeq(Keys, MaxKeys) : ShellInit(keys) /\ CodecInit(<<>>)
  \/ \E bytes \in BoundedSeq(Bytes, MaxBytes) : ShellInit(<<>>) /\ CodecInit(bytes)

ChunksNext ==
  \/ ShellNext /\ UNCHANGED codecVars
  \/ CodecNext /\ UNCHANGED shellVars

\* The loop goes on, its timer included; the user, the peer and the daemon owe
\* nothing.
ChunksSpec ==
  ChunksInit /\ [][ChunksNext]_<<shellVars, codecVars>>
    /\ WF_<<shellVars, codecVars>>(ShellStep /\ UNCHANGED codecVars)
=============================================================================
