---------------------------- MODULE LockPromise ----------------------------
(***************************************************************************)
(* What a client is promised about the writer lock of a device: sections   *)
(* 6.6 and 6.14 of docs/PROTOCOL.md, as `run`, `lock`, `unlock` and the    *)
(* teardown paths of tetherd/handlers.rs carry them out.  One session owns *)
(* the lock, perhaps exclusively; a transaction runs inside its session's  *)
(* ownership, alone, from its first byte to its last, unless it is seized  *)
(* or its session leaves.  That a session which has left gets no lock is   *)
(* not promised: a request it made before may still be granted.            *)
(***************************************************************************)
CONSTANTS Sessions, NoSession

VARIABLES
  owner,      \* the session that owns the lock, or NoSession
  exclusive,  \* owned through `lock`: kept until unlocked or torn down
  inside,     \* the session whose transaction is running, or NoSession
  present     \* the sessions that have not left

Available(s) == owner \in {NoSession, s}

Init ==
  /\ owner = NoSession /\ exclusive = FALSE
  /\ inside = NoSession /\ present = Sessions

Begin(s) ==
  /\ Available(s) /\ inside = NoSession
  /\ owner' = s /\ inside' = s
  /\ UNCHANGED <<exclusive, present>>

\* A transaction gives up what it took, and not what its session locked.
End(s) ==
  /\ inside = s
  /\ inside' = NoSession
  /\ owner' = IF exclusive THEN owner ELSE NoSession
  /\ UNCHANGED <<exclusive, present>>

Lock(s) ==
  /\ Available(s) /\ inside = NoSession
  /\ owner' = s /\ exclusive' = TRUE
  /\ UNCHANGED <<inside, present>>

Unlock(s) ==
  /\ owner = s /\ inside = NoSession
  /\ owner' = NoSession /\ exclusive' = FALSE
  /\ UNCHANGED <<inside, present>>

\* detach or the end of the connection: the lock is freed, even under a
\* transaction that goes on.
Leave(s) ==
  /\ s \in present
  /\ present' = present \ {s}
  /\ IF owner = s
     THEN owner' = NoSession /\ exclusive' = FALSE /\ inside' = NoSession
     ELSE UNCHANGED <<owner, exclusive, inside>>

\* `preempt: "force"`, by `lock` or by `run`.
Seize(s) ==
  /\ owner' = s
  /\ \/ exclusive' = TRUE  /\ inside' = NoSession
     \/ exclusive' = FALSE /\ inside' = s
  /\ UNCHANGED present

Next == \E s \in Sessions : \/ Begin(s) \/ End(s) \/ Lock(s) \/ Unlock(s)
                            \/ Leave(s) \/ Seize(s)

Spec == Init /\ [][Next]_<<owner, exclusive, inside, present>>
=============================================================================
