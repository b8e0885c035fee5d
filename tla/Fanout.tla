------------------------------- MODULE Fanout -------------------------------
(***************************************************************************)
(* How the device's output reaches the sessions of one connection: the     *)
(* owner task pushes into the ring buffer, the connection's fan-out task   *)
(* for that device (tetherd/conn.rs) reads it for every session that is    *)
(* attached, and `attach` and `detach` (tetherd/handlers.rs) come and go   *)
(* beside it.                                                              *)
(*                                                                         *)
(* The fan-out task is the only one to use a session's notify_cursor.  It  *)
(* goes over the sessions pass by pass, and sleeps on the buffer's Notify  *)
(* after a pass in which it found nothing to send.                         *)
(***************************************************************************)
EXTENDS RingBuffer

CONSTANTS
  Sessions,  \* sessions of this connection, each attached once (fresh ids)
  NoSession, \* not a session
  Replays,   \* where clients ask to start: "start", "now" or "seq"
  MaxSeq,    \* bound: bytes the device sends in all
  MaxChunk   \* bound: bytes in one push

ASSUME FanoutConstants ==
  NoSession \notin Sessions /\ Replays \subseteq {"start", "now", "seq"} /\ MaxSeq \in Nat /\ MaxChunk \in Nat

VARIABLES
  ring,           \* RingBuffer.inner
  notifying,      \* push has let the lock go and not yet called notify_waiters
  fan,            \* the fan-out task
  attaching,      \* the attach handler in progress (inline: one at most)
  attached,       \* ConnState.sessions
  notify_cursor,  \* Session.notify_cursor
  note,           \* history: the last notification of each session
  pass            \* history: head_seq and the sessions when the task last began
                  \* a pass or sent something

vars == <<ring, notifying, fan, attaching, attached, notify_cursor, note, pass>>

Kinds == {"none", "attach", "data", "lag"}

\* lo and hi of an attach are both the cursor_seq of its answer.
Note(kind, lo, hi, data) == [kind |-> kind, lo |-> lo, hi |-> hi, data |-> data]

NoNote == Note("none", 0, 0, <<>>)

NoAttach == [sess |-> NoSession, cursor |-> 0]

\* The read in hand, while its notifications are being sent.
NoRead == [data |-> <<>>, resume |-> 0, cursor |-> 0, lag |-> FALSE]

Notes == [kind: Kinds, lo: Nat, hi: Nat, data: Seq(Nat)]

Fans == [pc: {"pass", "emit", "parked"}, todo: SUBSET Sessions, emitted: BOOLEAN,
         sess: Sessions \cup {NoSession}, got: Reads]

\* The shape of the state; the ring never outgrows its capacity.
TypeOK ==
  /\ ring \in [buf: Seq(Nat), head_seq: Nat, tail_seq: Nat]
  /\ Len(ring.buf) <= Capacity
  /\ notifying \in BOOLEAN
  /\ fan \in Fans
  /\ attaching \in [sess: Sessions \cup {NoSession}, cursor: Nat]
  /\ attached \in SUBSET Sessions
  /\ notify_cursor \in [Sessions -> Nat]
  /\ note \in [Sessions -> Notes]
  /\ pass \in [head: Nat, sessions: SUBSET Sessions]

Now == [head |-> ring.head_seq, sessions |-> attached]

NewPass == [pc |-> "pass", todo |-> attached, emitted |-> FALSE, sess |-> NoSession,
            got |-> NoRead]

Init ==
  /\ ring = EmptyRing /\ notifying = FALSE
  /\ attached = {} /\ attaching = NoAttach
  /\ fan = NewPass
  /\ notify_cursor = [s \in Sessions |-> 0]
  /\ note = [s \in Sessions |-> NoNote]
  /\ pass = [head |-> 0, sessions |-> {}]

-----------------------------------------------------------------------------
(* The owner task: `push`, under the lock and after it.                    *)

PushBytes ==
  /\ ~notifying
  /\ \E n \in 1..MaxChunk :
       /\ ring.head_seq + n <= MaxSeq
       /\ ring' = Push(ring, Fresh(ring, n))
  /\ notifying' = TRUE
  /\ UNCHANGED <<fan, attaching, attached, notify_cursor, note, pass>>

\* Only a fan-out task that already sleeps is woken.
NotifyWaiters ==
  /\ notifying
  /\ notifying' = FALSE
  /\ \/ /\ fan.pc = "parked"
        /\ fan' = NewPass /\ pass' = Now
     \/ fan.pc # "parked" /\ UNCHANGED <<fan, pass>>
  /\ UNCHANGED <<ring, attaching, attached, notify_cursor, note>>

-----------------------------------------------------------------------------
(* The fan-out task.                                                       *)

\* One session of the pass: skip it if it has gone or nothing is new for it,
\* else start sending what was read.
Visit(s) ==
  LET got == ReadFrom(ring, notify_cursor[s]) IN
  /\ fan.pc = "pass" /\ s \in fan.todo
  /\ fan' = IF s \notin attached \/ (got.data = <<>> /\ ~got.lag)
            THEN [fan EXCEPT !.todo = @ \ {s}]
            ELSE [fan EXCEPT !.todo = @ \ {s}, !.pc = "emit", !.sess = s, !.got = got]
  /\ UNCHANGED <<ring, notifying, attaching, attached, notify_cursor, note, pass>>

\* `lag` goes out first, ...
EmitLag ==
  LET s == fan.sess IN
  /\ fan.pc = "emit" /\ fan.got.lag
  /\ note' = [note EXCEPT ![s] = Note("lag", notify_cursor[s], fan.got.resume, <<>>)]
  /\ fan' = [fan EXCEPT !.got.lag = FALSE, !.emitted = TRUE,
                        !.pc = IF fan.got.data = <<>> THEN "pass" ELSE "emit"]
  /\ pass' = Now
  /\ UNCHANGED <<ring, notifying, attaching, attached, notify_cursor>>

\* Fault: the cursor is not advanced.
EmitDataAgain ==
  LET s == fan.sess
      got == fan.got
  IN
  /\ fan.pc = "emit" /\ ~got.lag
  /\ note' = [note EXCEPT ![s] =
       Note("data", got.cursor - Len(got.data), got.cursor, got.data)]
  /\ fan' = [fan EXCEPT !.pc = "pass", !.sess = NoSession, !.got = NoRead, !.emitted = TRUE]
  /\ pass' = Now
  /\ UNCHANGED <<ring, notifying, attaching, attached, notify_cursor>>

\* ... then `data`, and the cursor moves.
EmitData ==
  LET s == fan.sess
      got == fan.got
  IN
  /\ fan.pc = "emit" /\ ~got.lag
  /\ note' = [note EXCEPT ![s] =
       Note("data", got.cursor - Len(got.data), got.cursor, got.data)]
  /\ notify_cursor' = [notify_cursor EXCEPT ![s] = got.cursor]
  /\ fan' = [fan EXCEPT !.pc = "pass", !.sess = NoSession, !.got = NoRead, !.emitted = TRUE]
  /\ pass' = Now
  /\ UNCHANGED <<ring, notifying, attaching, attached>>

\* Fault: the task sleeps after every pass.
SleepAlways ==
  /\ fan.pc = "pass" /\ fan.todo = {}
  /\ fan' = [NewPass EXCEPT !.pc = "parked", !.todo = {}]
  /\ UNCHANGED <<ring, notifying, attaching, attached, notify_cursor, note, pass>>

\* The pass is over: another one if it sent anything, else `wait`.
EndPass ==
  /\ fan.pc = "pass" /\ fan.todo = {}
  /\ \/ /\ fan.emitted
        /\ fan' = NewPass /\ pass' = Now
     \/ /\ ~fan.emitted
        /\ fan' = [NewPass EXCEPT !.pc = "parked", !.todo = {}]
        /\ UNCHANGED pass
  /\ UNCHANGED <<ring, notifying, attaching, attached, notify_cursor, note>>

-----------------------------------------------------------------------------
(* attach and detach.                                                      *)

\* The buffer is looked at, ...
AttachLook(s) ==
  /\ attaching = NoAttach /\ note[s] = NoNote
  /\ \/ "start" \in Replays /\ attaching' = [sess |-> s, cursor |-> ring.tail_seq]
     \/ "now" \in Replays /\ attaching' = [sess |-> s, cursor |-> ring.head_seq]
     \/ /\ "seq" \in Replays
        /\ \E seq \in 0..MaxSeq : attaching' = [sess |-> s, cursor |-> seq]
  /\ UNCHANGED <<ring, notifying, fan, attached, notify_cursor, note, pass>>

\* ... and the session created and entered in the connection's set.  NoSession
\* wakes the fan-out task.
AttachAdd ==
  LET s == attaching.sess IN
  /\ attaching # NoAttach
  /\ attached' = attached \cup {s}
  /\ notify_cursor' = [notify_cursor EXCEPT ![s] = attaching.cursor]
  /\ note' = [note EXCEPT ![s] = Note("attach", attaching.cursor, attaching.cursor, <<>>)]
  /\ attaching' = NoAttach
  /\ UNCHANGED <<ring, notifying, fan, pass>>

\* A read in hand is sent all the same.
Detach(s) ==
  /\ attaching = NoAttach /\ s \in attached
  /\ attached' = attached \ {s}
  /\ UNCHANGED <<ring, notifying, fan, attaching, notify_cursor, note, pass>>

Next ==
  \/ PushBytes \/ NotifyWaiters
  \/ EmitLag \/ EmitData \/ EndPass \/ AttachAdd
  \/ \E s \in Sessions : Visit(s) \/ AttachLook(s) \/ Detach(s)

Spec == Init /\ [][Next]_vars

\* Tasks go on; clients and the device owe nothing.
Fairness ==
  /\ WF_vars(NotifyWaiters) /\ WF_vars(EmitLag) /\ WF_vars(EmitData)
  /\ WF_vars(EndPass) /\ WF_vars(AttachAdd)
  /\ \A s \in Sessions : WF_vars(Visit(s))

FairSpec == Spec /\ Fairness

-----------------------------------------------------------------------------
(* Properties.                                                             *)

\* The closed form of `push` is what its loop does, byte by byte.
PushIsBytewise ==
  \A n \in 1..MaxChunk :
    LET bytes == Fresh(ring, n)
        loop[i \in 0..n] == IF i = 0 THEN ring ELSE PushByte(loop[i - 1], bytes[i])
    IN Push(ring, bytes) = [loop[n] EXCEPT !.head_seq = @ + n]

\* Every session's notifications follow on one another without a gap, with
\* the right bytes, and own up to exactly what the ring has let go.
Promise == INSTANCE StreamPromise WITH produced <- ring.head_seq
KeepsStreamPromise == Promise!Spec

\* A sleeping fan-out task has served every session up to what the ring held
\* when it last sent anything, to whichever session, and when its last pass
\* began: the wakeup it can lose is worth no more than the bytes of one pass
\* over sessions that all had nothing to read (conn.rs loops until then).
SleepMissesOnlyItsPass ==
  fan.pc = "parked" =>
    \A s \in attached \cap pass.sessions : notify_cursor[s] >= pass.head

\* The fan-out task comes to rest when the device is quiet.
FanoutRests == []<>(fan.pc = "parked")

\* A session gets what the ring holds for it ("without it ... we'd sleep on
\* wait() with un-emitted data already buffered", conn.rs).
DataDelivered ==
  \A s \in Sessions :
    s \in attached /\ notify_cursor[s] < ring.head_seq
      ~> s \notin attached \/ notify_cursor[s] >= ring.head_seq
=============================================================================
