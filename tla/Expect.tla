------------------------------- MODULE Expect -------------------------------
(***************************************************************************)
(* `send`, `expect` and `run` as readers of the ring (tetherd/handlers.rs):*)
(* where they begin to read, how they collect and search what the device   *)
(* says, how they wait, and what becomes of the session's consumer_cursor. *)
(*                                                                         *)
(* A session has one call in flight, as with every client here.  That      *)
(* transactions exclude each other is WriterLock's matter, that sessions   *)
(* come and go is Fanout's.  The device says one of the Scripts; the ring  *)
(* holds the numbers of the bytes, and so does what a call has collected,  *)
(* so that it is known which bytes a match consists of.                    *)
(***************************************************************************)
EXTENDS RingBuffer, FiniteSetsExt, SequencesExt

CONSTANTS
  Sessions,
  Scripts,    \* what the device may say in all, each a sequence of bytes
  Pattern,    \* what is waited for, a non-empty sequence of bytes
  FromSeqs,   \* from_seq of those `expect` that name one
  Strips,     \* values of strip_ansi
  SentBytes,  \* length of what `send` and `run` write
  MaxBytes,   \* max_bytes of `expect` and `run`
  MaxChunk    \* bound: bytes in one push

ASSUME ExpectConstants ==
  /\ FromSeqs \subseteq Nat /\ Strips \subseteq BOOLEAN
  /\ SentBytes \in Nat /\ MaxBytes \in Nat /\ MaxChunk \in Nat
  /\ Scripts \subseteq Seq(STRING)
  /\ Pattern \in Seq(STRING) /\ Len(Pattern) > 0

VARIABLES
  script,           \* what the device says in this behaviour
  ring,             \* RingBuffer.inner
  notifying,        \* push has let the lock go and not yet called notify_waiters
  call,             \* the call of each session
  consumer_cursor,  \* Session.consumer_cursor
  answer,           \* history: how the session's last call ended
  consumed,         \* history: past the last byte that was matched for it
  skewed            \* history: an answer has skipped lost or stripped bytes

vars == <<script, ring, notifying, call, consumer_cursor, answer, consumed, skewed>>

Idle == [op |-> "none", pc |-> "idle", from |-> 0, cursor |-> 0, acc |-> <<>>,
         strip |-> FALSE, timed |-> FALSE, eat |-> FALSE, lag |-> FALSE,
         late |-> FALSE, due |-> 0]

\* lo and hi are the first and the last byte of the match; after is where
\* the match before it ended.
NoAnswer == [kind |-> "none", from |-> 0, strip |-> FALSE, lag |-> FALSE, due |-> 0,
             lo |-> 0, hi |-> 0, end_seq |-> 0, after |-> 0]

Pcs == {"idle", "queue", "write", "acked", "look", "read", "gap", "parked", "matched"}

\* In expect_loop, or with its answer.
Collecting == {"look", "read", "gap", "parked", "matched"}

\* The shape of the state; a call collects at most one ring more than it may.
TypeOK ==
  /\ script \in Scripts
  /\ ring.head_seq \in 0..Len(script) /\ ring.tail_seq \in 0..ring.head_seq
  /\ Len(ring.buf) <= Capacity
  /\ notifying \in BOOLEAN
  /\ consumer_cursor \in [Sessions -> Nat] /\ consumed \in [Sessions -> Nat]
  /\ skewed \in [Sessions -> BOOLEAN]
  /\ \A s \in Sessions :
       /\ DOMAIN call[s] = DOMAIN Idle /\ DOMAIN answer[s] = DOMAIN NoAnswer
       /\ call[s].pc \in Pcs /\ call[s].op \in {"none", "send", "expect", "run"}
       /\ Len(call[s].acc) <= MaxBytes + Capacity

Init ==
  /\ script \in Scripts
  /\ ring = EmptyRing /\ notifying = FALSE
  /\ call = [s \in Sessions |-> Idle]
  /\ consumer_cursor = [s \in Sessions |-> 0]
  /\ answer = [s \in Sessions |-> NoAnswer]
  /\ consumed = [s \in Sessions |-> 0]
  /\ skewed = [s \in Sessions |-> FALSE]

-----------------------------------------------------------------------------
(* Text.                                                                   *)

\* The byte of number n.
Says(n) == script[n + 1]

\* A final byte of a CSI sequence, 0x40 to 0x7e: '[' is one, ESC and digits
\* are not.
Final(n) == Says(n) \notin {"esc", "1"}

\* strip_ansi_bytes byte by byte: ESC with one byte goes, or ESC [ up to a final
\* byte, and also what of these the text ends with.
StripByte(st, n) ==
  CASE st.mode = "text" -> IF Says(n) = "esc"
                           THEN [st EXCEPT !.mode = "esc"]
                           ELSE [st EXCEPT !.out = Append(@, n)]
    [] st.mode = "esc"  -> [st EXCEPT !.mode = IF Says(n) = "[" THEN "csi" ELSE "text"]
    [] st.mode = "csi"  -> [st EXCEPT !.mode = IF Final(n) THEN "text" ELSE "csi"]

StripAnsi(text) == FoldLeft(StripByte, [mode |-> "text", out |-> <<>>], text).out

\* Where Pattern begins in a text (find_substring returns the first).
Found(text) ==
  {i \in 1 .. Len(text) - Len(Pattern) + 1 :
     \A k \in DOMAIN Pattern : Says(text[i + k - 1]) = Pattern[k]}

Haystack(strip, acc) == IF strip THEN StripAnsi(acc) ELSE acc

-----------------------------------------------------------------------------
(* The owner task.                                                         *)

PushBytes ==
  /\ ~notifying
  /\ \E n \in 1..MaxChunk :
       /\ ring.head_seq + n <= Len(script)
       /\ ring' = Push(ring, Fresh(ring, n))
  /\ notifying' = TRUE
  /\ UNCHANGED <<script, call, consumer_cursor, answer, consumed, skewed>>

NotifyWaiters ==
  /\ notifying
  /\ notifying' = FALSE
  /\ call' = [s \in Sessions |->
       IF call[s].pc = "parked" THEN [call[s] EXCEPT !.pc = "look"] ELSE call[s]]
  /\ UNCHANGED <<script, ring, consumer_cursor, answer, consumed, skewed>>

Ends(s, how) ==
  /\ call' = [call EXCEPT ![s] = Idle]
  /\ answer' = [answer EXCEPT ![s] = how]

\* The job is written with nothing read in between, and acknowledged with the
\* head_seq of before; or it fails.
WriteJob(s) ==
  /\ call[s].pc = "write"
  /\ \/ /\ call' = [call EXCEPT ![s].pc = IF call[s].op = "run" THEN "look" ELSE "acked",
                                ![s].from = ring.head_seq, ![s].cursor = ring.head_seq]
        /\ UNCHANGED answer
     \/ Ends(s, NoAnswer)
  /\ UNCHANGED <<script, ring, notifying, consumer_cursor, consumed, skewed>>

-----------------------------------------------------------------------------
(* The handlers.                                                           *)

Begins(s, c) ==
  /\ call[s].pc = "idle"
  /\ call' = [call EXCEPT ![s] = c]
  /\ answer' = [answer EXCEPT ![s] = NoAnswer]
  /\ UNCHANGED <<script, ring, notifying, consumer_cursor, skewed>>

SendCall(s) ==
  /\ \E eat \in BOOLEAN :
       Begins(s, [Idle EXCEPT !.op = "send", !.pc = "write", !.eat = eat])
  /\ UNCHANGED consumed

\* The answer of a send; eat_echo skips as many bytes as were written.
SendEnd(s) ==
  /\ call[s].pc = "acked"
  /\ consumer_cursor' = [consumer_cursor EXCEPT ![s] =
       IF call[s].eat THEN call[s].from + SentBytes ELSE @]
  /\ Ends(s, NoAnswer)
  /\ UNCHANGED <<script, ring, notifying, consumed, skewed>>

\* A run asks for the lock, ...
RunCall(s) ==
  /\ \E strip \in Strips, timed \in BOOLEAN :
       Begins(s, [Idle EXCEPT !.op = "run", !.pc = "queue", !.strip = strip, !.timed = timed])
  /\ UNCHANGED consumed

\* ... gets it and writes, is turned away, or stays in acquire_lock's queue for
\* as long as that takes, its timeout_ms not yet running.
AcquireLock(s) ==
  /\ call[s].pc = "queue"
  /\ \/ call' = [call EXCEPT ![s].pc = "write"] /\ UNCHANGED answer
     \/ Ends(s, NoAnswer)
  /\ UNCHANGED <<script, ring, notifying, consumer_cursor, consumed, skewed>>

\* An expect begins where the session has got to, or where it is told.
ExpectCall(s) ==
  \E strip \in Strips, timed \in BOOLEAN :
    LET c(from) == [Idle EXCEPT !.op = "expect", !.pc = "look", !.strip = strip,
                                !.timed = timed, !.from = from, !.cursor = from]
    IN \/ Begins(s, c(consumer_cursor[s])) /\ UNCHANGED consumed
       \/ \E from_seq \in FromSeqs :
            /\ Begins(s, c(from_seq))
            /\ consumed' = [consumed EXCEPT ![s] = IF from_seq < @ THEN from_seq ELSE @]

Outcome(c, kind) ==
  [NoAnswer EXCEPT !.kind = kind, !.from = c.from, !.strip = c.strip,
                   !.lag = c.lag, !.due = c.due]

\* Fault: only what has just been read is kept.
CollectLast(c, got) ==
  [c EXCEPT !.cursor = got.cursor, !.acc = got.data, !.lag = @ \/ got.lag]

\* A lag is not looked at: what comes after it is put right behind what came
\* before.
Collect(c, got) ==
  [c EXCEPT !.cursor = got.cursor, !.acc = @ \o got.data, !.lag = @ \/ got.lag]

\* Fault: no limit.
NeverTooMuch(c) == FALSE

TooMuch(c) == Len(c.acc) > MaxBytes

\* A turn of expect_loop: read on and search everything.
Look(s) ==
  LET c   == Collect(call[s], ReadFrom(ring, call[s].cursor))
      hit == Found(Haystack(c.strip, c.acc)) # {}
  IN
  /\ call[s].pc = "look"
  /\ \/ hit  /\ call' = [call EXCEPT ![s] = [c EXCEPT !.pc = "matched"]] /\ UNCHANGED answer
     \/ ~hit /\ TooMuch(c) /\ Ends(s, Outcome(c, "overflow"))
     \/ /\ ~hit /\ ~TooMuch(c)
        /\ call' = [call EXCEPT ![s] = [c EXCEPT !.pc = "read"]]
        /\ UNCHANGED answer
  /\ UNCHANGED <<script, ring, notifying, consumer_cursor, consumed, skewed>>

\* Nothing matched: look at the clock, and give up or wait.  What was pushed
\* since the read is not looked at first.
CheckTime(s) ==
  /\ call[s].pc = "read"
  /\ \/ call[s].late /\ Ends(s, Outcome(call[s], "timeout"))
     \/ ~call[s].late /\ call' = [call EXCEPT ![s].pc = "gap"] /\ UNCHANGED answer
  /\ UNCHANGED <<script, ring, notifying, consumer_cursor, consumed, skewed>>

\* wait(): only a call that has got here is woken by a push.
Park(s) ==
  /\ call[s].pc = "gap"
  /\ call' = [call EXCEPT ![s].pc = "parked"]
  /\ UNCHANGED <<script, ring, notifying, consumer_cursor, answer, consumed, skewed>>

\* timeout_ms has passed since the loop began.  `due` is how much the ring had
\* received by then; or, if the loop has read and has yet to look at the clock,
\* by that read.
Deadline(s) ==
  /\ call[s].timed /\ ~call[s].late
  /\ call[s].pc \in {"look", "read", "gap", "parked"}
  /\ call' = [call EXCEPT ![s].late = TRUE,
                          ![s].due = IF call[s].pc = "read" THEN call[s].cursor
                                                            ELSE ring.head_seq]
  /\ UNCHANGED <<script, ring, notifying, consumer_cursor, answer, consumed, skewed>>

\* Fault: the call ends as soon as its wait does.
ExpireAtOnce(s) ==
  /\ call[s].pc = "parked" /\ call[s].late
  /\ Ends(s, Outcome(call[s], "timeout"))
  /\ UNCHANGED <<script, ring, notifying, consumer_cursor, consumed, skewed>>

\* Fault: only `expect` hands its timeout on.
ExpireOfExpect(s) ==
  /\ call[s].pc = "parked" /\ call[s].late /\ call[s].op = "expect"
  /\ call' = [call EXCEPT ![s].pc = "look"]
  /\ UNCHANGED <<script, ring, notifying, consumer_cursor, answer, consumed, skewed>>

\* The wait ends with the time; there is another turn all the same.
Expire(s) ==
  /\ call[s].pc = "parked" /\ call[s].late
  /\ call' = [call EXCEPT ![s].pc = "look"]
  /\ UNCHANGED <<script, ring, notifying, consumer_cursor, answer, consumed, skewed>>

\* Fault: the cursor goes to the end of what was read.
EndOfRead(c, start) == c.cursor

\* Fault: the cursor goes to where the match begins.
StartOfMatch(c, start) == c.from + start - 1

\* end_seq: counted in the text that was searched.
EndSeq(c, start) == c.from + start + Len(Pattern) - 1

\* The match is answered, and the session's cursor put behind it.
Matched(s) ==
  LET c     == call[s]
      text  == Haystack(c.strip, c.acc)
      start == Min(Found(text))
      hi    == text[start + Len(Pattern) - 1]
      end   == EndSeq(c, start)
  IN
  /\ c.pc = "matched"
  /\ consumer_cursor' = [consumer_cursor EXCEPT ![s] = end]
  /\ Ends(s, [Outcome(c, "match") EXCEPT !.lo = text[start], !.hi = hi, !.end_seq = end,
                                         !.after = consumed[s]])
  /\ consumed' = [consumed EXCEPT ![s] = IF hi >= @ THEN hi + 1 ELSE @]
  /\ skewed' = [skewed EXCEPT ![s] = @ \/ c.lag \/ Len(text) # Len(c.acc)]
  /\ UNCHANGED <<script, ring, notifying>>

Next ==
  \/ PushBytes \/ NotifyWaiters
  \/ \E s \in Sessions :
       \/ SendCall(s) \/ RunCall(s) \/ AcquireLock(s) \/ ExpectCall(s)
       \/ WriteJob(s) \/ SendEnd(s)
       \/ Look(s) \/ CheckTime(s) \/ Park(s) \/ Deadline(s) \/ Expire(s) \/ Matched(s)

Spec == Init /\ [][Next]_vars

\* Tasks and timers go on.  Clients and the device owe nothing, nor is it said
\* that the lock is ever granted, or that a write ends.
Fairness ==
  /\ WF_vars(NotifyWaiters)
  /\ \A s \in Sessions :
       /\ WF_vars(SendEnd(s)) /\ WF_vars(Look(s)) /\ WF_vars(CheckTime(s))
       /\ WF_vars(Park(s)) /\ WF_vars(Deadline(s)) /\ WF_vars(Expire(s))
       /\ WF_vars(Matched(s))

FairSpec == Spec /\ Fairness

-----------------------------------------------------------------------------
(* Properties.                                                             *)

\* All that the device says from number `from` up to, not including, `to`.
Output(from, to) == IF from < to THEN [i \in 1 .. to - from |-> from + i - 1] ELSE <<>>

\* What matches is the first occurrence in everything the device says from
\* where the call began, however the bytes came in and wherever an escape
\* sequence was cut in two (`expect_loop`), unless the ring was overrun.
FirstMatch ==
  \A s \in Sessions :
    LET a == answer[s] IN
    a.kind = "match" /\ ~a.lag =>
      LET text  == Haystack(a.strip, Output(a.from, Len(script)))
          start == Min(Found(text))
      IN a.lo = text[start] /\ a.hi = text[start + Len(Pattern) - 1]

\* A call that times out had nothing to match in what the ring received
\* before its time was up, even if it slept through a wakeup; except that, if
\* time runs out between a read and the look at the clock that follows it,
\* what came after that read is passed over, in time as it was.
TimeoutHonest ==
  \A s \in Sessions :
    LET a == answer[s] IN
    a.kind = "timeout" /\ ~a.lag => Found(Haystack(a.strip, Output(a.from, a.due))) = {}

\* Calls of one session, `send` with eat_echo among them, never match a byte
\* twice unless they are told to go back (docs/OVERVIEW.md, "Two cursors per
\* session"), as long as no bytes were lost or stripped.
ConsumedOnce ==
  \A s \in Sessions :
    answer[s].kind = "match" /\ ~skewed[s] => answer[s].lo >= answer[s].after

\* end_seq, and with it the session's cursor, is never past the match: nothing
\* the client has not seen is skipped, even after a lag.
NeverPastMatch ==
  \A s \in Sessions : answer[s].kind = "match" => answer[s].end_seq <= answer[s].hi + 1

\* Once it has begun to collect, a call with a timeout is answered, in time or
\* by it; a `run` that waits for the lock, or for its write, may never be.
TimedAnswered ==
  \A s \in Sessions : call[s].timed /\ call[s].pc \in Collecting ~> call[s].pc = "idle"

\* "seq just past the match (next cursor candidate)" (docs/PROTOCOL.md).
EndSeqPastMatch ==
  \A s \in Sessions : answer[s].kind = "match" => answer[s].end_seq = answer[s].hi + 1
=============================================================================
