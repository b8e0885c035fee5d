------------------------------ MODULE PtyBridge ------------------------------
(***************************************************************************)
(* The virtual serial port of one device (tetherd/pty.rs): a pseudo        *)
(* terminal whose slave a serial tool opens, and two tasks of the daemon   *)
(* that copy bytes between its master and the device.                      *)
(*                                                                         *)
(* "Up" is from the tool to the device, beside a session whose writes and  *)
(* whose lock share the wire; "down" from the device's ring to the tool.   *)
(* A byte is its own number in the stream it belongs to.                   *)
(***************************************************************************)
EXTENDS RingBuffer, SequencesExt

CONSTANTS
  Room,     \* bytes the kernel keeps for a tool that does not read
  MaxChunk, \* bound: bytes in one push, and in one read of the master (4096)
  MaxSeq,   \* bound: bytes the device sends in all
  MaxTyped  \* bound: bytes the tool sends in all

ASSUME BridgeConstants ==
  Room \in Nat \ {0} /\ MaxChunk \in Nat \ {0} /\ MaxSeq \in Nat /\ MaxTyped \in Nat

VARIABLES
  hold,      \* WriterLock.holder: nobody's, a session's, or a session's exclusively
  queue,     \* write jobs at the serial owner: the bridge's and the session's
  typed,     \* bytes the tool has sent so far
  up,        \* the task from the tool to the device
  wire,      \* the tool's bytes that reached the device
  strays,    \* history: the bridge's writes to reach it in this exclusive hold
  ring,      \* RingBuffer.inner
  notifying, \* push has not called notify_waiters yet
  down,      \* the task from the device to the tool
  unread,    \* bytes the kernel keeps for the tool
  shown      \* the device's bytes that the kernel took

upVars == <<hold, queue, typed, up, wire, strays>>
downVars == <<ring, notifying, down, unread, shown>>
vars == <<hold, queue, typed, up, wire, strays, ring, notifying, down, unread, shown>>

\* The shape of the state.
TypeOK ==
  /\ hold \in {"free", "shared", "exclusive"}
  /\ queue \in Seq({"bridge", "session"})
  /\ typed \in Nat /\ wire \in Seq(Nat) /\ strays \in Nat
  /\ up \in [pc: {"read", "check", "send", "write"}, taken: Nat, chunk: Seq(Nat)]
  /\ ring \in [buf: Seq(Nat), head_seq: Nat, tail_seq: Nat] /\ notifying \in BOOLEAN
  /\ down \in [pc: {"start", "read", "park", "parked", "write"}, cursor: Nat, chunk: Seq(Nat)]
  /\ unread \in 0..Room /\ shown \in Seq(Nat)

Init ==
  /\ hold = "free" /\ queue = <<>> /\ typed = 0 /\ wire = <<>> /\ strays = 0
  /\ up = [pc |-> "read", taken |-> 0, chunk |-> <<>>]
  /\ ring = EmptyRing /\ notifying = FALSE
  /\ down = [pc |-> "start", cursor |-> 0, chunk |-> <<>>]
  /\ unread = 0 /\ shown = <<>>

-----------------------------------------------------------------------------
(* Up.                                                                     *)

ToolTypes ==
  /\ typed < MaxTyped /\ typed' = typed + 1
  /\ UNCHANGED <<hold, queue, up, wire, strays, downVars>>

\* PtyMaster::read: some of what the tool has sent.
UpRead ==
  /\ up.pc = "read" /\ up.taken < typed
  /\ \E n \in 1..MaxChunk :
       /\ up.taken + n <= typed
       /\ up' = [pc |-> "check", taken |-> up.taken + n,
                 chunk |-> [i \in 1..n |-> up.taken + i - 1]]
  /\ UNCHANGED <<hold, queue, typed, wire, strays, downVars>>

UpReady == [up EXCEPT !.pc = "read", !.chunk = <<>>]

\* Fault: the bridge writes whoever holds the lock.
UpUnchecked ==
  /\ up.pc = "check" /\ up' = [up EXCEPT !.pc = "send"]
  /\ UNCHANGED <<hold, queue, typed, wire, strays, downVars>>

\* Fault: the bridge waits for the lock to be free, with the bytes in hand.
UpWaits ==
  /\ up.pc = "check" /\ hold # "exclusive" /\ up' = [up EXCEPT !.pc = "send"]
  /\ UNCHANGED <<hold, queue, typed, wire, strays, downVars>>

\* Under an exclusive hold the bytes are dropped, else they may be sent; the
\* lock is looked at and let go of.
UpCheck ==
  /\ up.pc = "check"
  /\ up' = IF hold = "exclusive" THEN UpReady ELSE [up EXCEPT !.pc = "send"]
  /\ UNCHANGED <<hold, queue, typed, wire, strays, downVars>>

\* SerialWriter::write: queued, ...
UpSend ==
  /\ up.pc = "send" /\ up' = [up EXCEPT !.pc = "write"]
  /\ queue' = Append(queue, "bridge")
  /\ UNCHANGED <<hold, typed, wire, strays, downVars>>

\* Fault: a write that failed is tried again from its first byte.
WrittenOrRetried ==
  /\ queue # <<>> /\ Head(queue) = "bridge"
  /\ \E k \in 0..Len(up.chunk) :
       /\ wire' = wire \o SubSeq(up.chunk, 1, k)
       /\ up' = IF k = Len(up.chunk) THEN UpReady ELSE [up EXCEPT !.pc = "send"]
       /\ strays' = strays + IF hold = "exclusive" /\ k > 0 THEN 1 ELSE 0
  /\ queue' = Tail(queue)
  /\ UNCHANGED <<hold, typed, downVars>>

\* ... and written by the owner, to the end or to where the device fails; the
\* bridge goes on all the same.
Written ==
  /\ queue # <<>> /\ Head(queue) = "bridge"
  /\ \E k \in 0..Len(up.chunk) :
       /\ wire' = wire \o SubSeq(up.chunk, 1, k)
       /\ strays' = strays + IF hold = "exclusive" /\ k > 0 THEN 1 ELSE 0
  /\ up' = UpReady
  /\ queue' = Tail(queue)
  /\ UNCHANGED <<hold, typed, downVars>>

\* A session takes the lock, in one way or the other, or frees it, ...
TakeLock ==
  /\ hold = "free" /\ hold' \in {"shared", "exclusive"} /\ strays' = 0
  /\ UNCHANGED <<queue, typed, up, wire, downVars>>

FreeLock ==
  /\ hold # "free" /\ hold' = "free"
  /\ UNCHANGED <<queue, typed, up, wire, strays, downVars>>

\* ... and writes, one job at a time.
SessionSends ==
  /\ "session" \notin Range(queue) /\ queue' = Append(queue, "session")
  /\ UNCHANGED <<hold, typed, up, wire, strays, downVars>>

SessionWritten ==
  /\ queue # <<>> /\ Head(queue) = "session" /\ queue' = Tail(queue)
  /\ UNCHANGED <<hold, typed, up, wire, strays, downVars>>

-----------------------------------------------------------------------------
(* Down.                                                                   *)

PushBytes ==
  /\ ~notifying /\ notifying' = TRUE
  /\ \E n \in 1..MaxChunk : ring.head_seq + n <= MaxSeq /\ ring' = Push(ring, Fresh(ring, n))
  /\ UNCHANGED <<upVars, down, unread, shown>>

\* Only a task that sleeps already is woken.
NotifyWaiters ==
  /\ notifying /\ notifying' = FALSE
  /\ down' = IF down.pc = "parked" THEN [down EXCEPT !.pc = "read"] ELSE down
  /\ UNCHANGED <<upVars, ring, unread, shown>>

\* The task begins where the device is.
DownStart ==
  /\ down.pc = "start"
  /\ down' = [down EXCEPT !.pc = "read", !.cursor = ring.head_seq]
  /\ UNCHANGED <<upVars, ring, notifying, unread, shown>>

\* read_from, its lag ignored; the cursor is past the chunk before that is
\* written.
DownRead ==
  LET got == ReadFrom(ring, down.cursor) IN
  /\ down.pc = "read"
  /\ down' = [pc |-> IF got.data = <<>> THEN "park" ELSE "write",
              cursor |-> got.cursor, chunk |-> got.data]
  /\ UNCHANGED <<upVars, ring, notifying, unread, shown>>

DownPark ==
  /\ down.pc = "park" /\ down' = [down EXCEPT !.pc = "parked"]
  /\ UNCHANGED <<upVars, ring, notifying, unread, shown>>

DownReady == [down EXCEPT !.pc = "read", !.chunk = <<>>]

\* PtyMaster::write_all: the kernel takes as much as it has room for, and the
\* task waits for more.
DownWrite ==
  /\ down.pc = "write"
  /\ \E n \in 1..Len(down.chunk) :
       /\ unread + n <= Room /\ unread' = unread + n
       /\ shown' = shown \o SubSeq(down.chunk, 1, n)
       /\ down' = IF n = Len(down.chunk) THEN DownReady
                  ELSE [down EXCEPT !.chunk = SubSeq(@, n + 1, Len(@))]
  /\ UNCHANGED <<upVars, ring, notifying>>

\* Fault: the wait has no end.
GiveUpNever == FALSE /\ UNCHANGED vars

\* Fault: the chunk that timed out is read again.
GiveUpAndRetry ==
  /\ down.pc = "write"
  /\ down' = [DownReady EXCEPT !.cursor = IF @ > Capacity THEN @ - Capacity ELSE 0]
  /\ UNCHANGED <<upVars, ring, notifying, unread, shown>>

\* After 200 ms, or an error of the pty, what is left of the chunk is dropped.
GiveUp ==
  /\ down.pc = "write" /\ down' = DownReady
  /\ UNCHANGED <<upVars, ring, notifying, unread, shown>>

\* The tool reads, or throws away, what the kernel has for it.
ToolReads ==
  /\ \E n \in 1..unread : unread' = unread - n
  /\ UNCHANGED <<upVars, ring, notifying, down, shown>>

Next ==
  \/ ToolTypes \/ UpRead \/ UpCheck \/ UpSend \/ Written
  \/ TakeLock \/ FreeLock \/ SessionSends \/ SessionWritten
  \/ PushBytes \/ NotifyWaiters \/ DownStart \/ DownRead \/ DownPark
  \/ DownWrite \/ GiveUp \/ ToolReads

\* The daemon's tasks and the timer go on, the owner answers every write job;
\* the tool, the session and the device owe nothing.
Fairness ==
  /\ WF_vars(UpRead) /\ WF_vars(UpCheck) /\ WF_vars(UpSend)
  /\ WF_vars(Written) /\ WF_vars(SessionWritten)
  /\ WF_vars(NotifyWaiters) /\ WF_vars(DownStart) /\ WF_vars(DownRead)
  /\ WF_vars(DownPark) /\ WF_vars(GiveUp)

Spec == Init /\ [][Next]_vars /\ Fairness

-----------------------------------------------------------------------------
(* Properties.                                                             *)

\* The first byte of each stream that is neither through nor lost.
UpNext == up.taken - Len(up.chunk)
DownNext == IF down.pc = "start" THEN ring.head_seq ELSE down.cursor - Len(down.chunk)

\* From tool to device and from device to tool: nothing comes twice, nothing
\* out of order, and nothing that was given up comes after all ("we must not
\* retry (that would risk duplicating whatever prefix got through)").
UpPipe == INSTANCE LossyPipe WITH fed <- typed, settled <- UpNext, out <- wire
DownPipe == INSTANCE LossyPipe WITH fed <- ring.head_seq, settled <- DownNext, out <- shown

ToolToDevice == UpPipe!Spec
DeviceToTool == DownPipe!Spec

\* "It must back off while another session holds it exclusively": of the
\* bridge's writes at most the one that was past its look at the lock reaches
\* the wire in the time of an exclusive hold.
OneStray == hold = "exclusive" => strays <= 1

\* The bridge runs on: whatever the tool sent is written or dropped in the end,
\* whoever holds the lock and for however long; and a tool that does not read
\* never stops the other direction ("an unbounded write_all would park this
\* task forever, freezing the cursor").
NeverFrozen ==
  /\ \A b \in 0..MaxTyped - 1 : typed > b ~> UpNext > b
  /\ down.pc = "write" ~> down.pc # "write"
=============================================================================
