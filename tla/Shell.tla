-------------------------------- MODULE Shell --------------------------------
(***************************************************************************)
(* The interactive shell (tether.rs, shell_loop): keys arrive in chunks as *)
(* the terminal has them; Ctrl-A makes the next one a command, and all     *)
(* others are sent to the device.  A command waits for its answer among    *)
(* those of sends that nobody waits for.                                   *)
(*                                                                         *)
(* One plain key stands for all, "d" for the two keys that toggle a line   *)
(* (DTR, RTS), "b" for those that ask without one (break, lines, config,   *)
(* ports); keys without a meaning show a message and no more.              *)
(***************************************************************************)
EXTENDS Naturals, SequencesExt

CONSTANTS
  MaxKeys,   \* bound: keys typed in all
  MaxPending \* bound: requests that the daemon has not answered

CtrlA == "^A"
Keys == {"x", "d", "b", "q", CtrlA}

VARIABLES
  typing,  \* all that the user will type
  unread,  \* what of it the terminal still has
  chunk,   \* what of the chunk in hand has not been looked at
  buffer,  \* plain keys of this chunk, not sent yet
  escape_pending,
  dtr_on,  \* the shell's belief
  next_id,
  want,    \* the id that an escape waits for, or 0
  shell,   \* where the loop is
  sent,    \* what went out, sends key by key
  queue,   \* requests the daemon has not handled
  answers, \* responses the shell has not looked at
  daemon,  \* up, or it has closed the connection
  line,    \* DTR itself
  moved,    \* history: another hand has moved the line since this shell set it
  timedout  \* history: an escape went without its answer

shellVars == <<typing, unread, chunk, buffer, escape_pending, dtr_on, next_id, want, shell, sent,
               queue, answers, daemon, line, moved, timedout>>
daemonVars == <<queue, answers, daemon, line>>
history == <<moved, timedout>>

\* The shape of the state.
ShellTypeOK ==
  /\ typing \in Seq(Keys) /\ IsSuffix(unread, typing)
  /\ chunk \in Seq(Keys) /\ buffer \in Seq(Keys)
  /\ escape_pending \in BOOLEAN /\ dtr_on \in BOOLEAN /\ line \in BOOLEAN
  /\ next_id \in Nat /\ want \in Nat /\ shell \in {"read", "keys", "await", "over"}
  /\ sent \in Seq(Keys \cup {"DTR", "ASK"})
  /\ daemon \in {"up", "closed"}

\* Lines are asserted when the port is opened; one that is not was moved.
ShellInit(keys) ==
  /\ typing = keys /\ unread = keys /\ chunk = <<>> /\ buffer = <<>>
  /\ escape_pending = FALSE /\ dtr_on = TRUE /\ next_id = 1 /\ want = 0 /\ shell = "read"
  /\ sent = <<>> /\ queue = <<>> /\ answers = <<>> /\ daemon = "up"
  /\ line \in BOOLEAN /\ moved = ~line /\ timedout = FALSE

\* A chunk from the stdin thread, or the end of stdin.
ReadChunk ==
  /\ shell = "read"
  /\ \/ /\ \E n \in 1..Len(unread) :
             chunk' = SubSeq(unread, 1, n) /\ unread' = SubSeq(unread, n + 1, Len(unread))
        /\ shell' = "keys"
     \/ unread = <<>> /\ shell' = "over" /\ UNCHANGED <<chunk, unread>>
  /\ UNCHANGED <<typing, buffer, escape_pending, dtr_on, next_id, want, sent, daemonVars, history>>

\* send_bytes and the requests of escapes: into the channel of the sender
\* task, out of which nothing comes once the daemon has gone.
Post(msgs) ==
  /\ next_id' = next_id + Len(msgs)
  /\ queue' = IF daemon = "closed" THEN queue
              ELSE queue \o [i \in 1..Len(msgs) |-> [msgs[i] EXCEPT !.id = next_id + i - 1]]

Plain(keys) == IF keys = <<>> THEN <<>> ELSE <<[op |-> "send", on |-> FALSE, id |-> 0]>>
Room(n) == Len(queue) + n <= MaxPending

\* Fault: a chunk begins anew.
EndChunkForgets ==
  /\ shell = "keys" /\ chunk = <<>> /\ Room(1)
  /\ Post(Plain(buffer)) /\ sent' = sent \o buffer /\ buffer' = <<>>
  /\ escape_pending' = FALSE /\ shell' = "read"
  /\ UNCHANGED <<typing, unread, chunk, dtr_on, want, answers, daemon, line, history>>

\* The chunk is done: what is left over of plain keys is sent, and the loop
\* ends if that fails.
EndChunk ==
  /\ shell = "keys" /\ chunk = <<>> /\ Room(1)
  /\ Post(Plain(buffer)) /\ sent' = sent \o buffer /\ buffer' = <<>>
  /\ \/ shell' = "read"
     \/ daemon = "closed" /\ buffer # <<>> /\ shell' = "over"
  /\ UNCHANGED <<typing, unread, chunk, escape_pending, dtr_on, want, answers, daemon, line, history>>

Key == Head(chunk)
Look == shell = "keys" /\ chunk # <<>> /\ chunk' = Tail(chunk)

PlainKey ==
  /\ Look /\ ~escape_pending
  /\ IF Key = CtrlA THEN escape_pending' = TRUE /\ UNCHANGED buffer
     ELSE buffer' = Append(buffer, Key) /\ UNCHANGED escape_pending
  /\ UNCHANGED <<typing, unread, dtr_on, next_id, want, shell, sent, daemonVars, history>>

Escape == Look /\ escape_pending /\ escape_pending' = FALSE

\* Ctrl-A twice is one for the device; a key that means nothing is dropped.
LiteralKey ==
  /\ Escape /\ Key \in {CtrlA, "x"}
  /\ buffer' = IF Key = CtrlA THEN Append(buffer, Key) ELSE buffer
  /\ UNCHANGED <<typing, unread, dtr_on, next_id, want, shell, sent, daemonVars, history>>

\* The plain keys before it first; the end of the loop drains what was posted.
Quit ==
  /\ Escape /\ Key = "q" /\ Room(1)
  /\ Post(Plain(buffer)) /\ sent' = sent \o buffer /\ buffer' = <<>> /\ shell' = "over"
  /\ UNCHANGED <<typing, unread, dtr_on, want, answers, daemon, line, history>>

\* Fault: what was typed before the command goes out after it.
AskUnflushed(op) ==
  /\ Post(<<[op |-> op, on |-> dtr_on', id |-> 0]>>)
  /\ sent' = Append(sent, op) /\ UNCHANGED buffer

\* The plain keys before it, then the request, whose answer is awaited.
Ask(op) ==
  /\ Post(Plain(buffer) \o <<[op |-> op, on |-> dtr_on', id |-> 0]>>)
  /\ sent' = Append(sent \o buffer, op) /\ buffer' = <<>>

AskKey ==
  /\ Escape /\ Key \in {"d", "b"} /\ Room(2)
  /\ dtr_on' = IF Key = "d" THEN ~dtr_on ELSE dtr_on
  /\ Ask(IF Key = "d" THEN "DTR" ELSE "ASK")
  /\ want' = next_id' - 1 /\ shell' = "await"
  /\ UNCHANGED <<typing, unread, answers, daemon, line, history>>

\* What is awaited is the answer to a toggle.
Toggled == Last(sent) = "DTR"

\* Fault: the answer that comes is taken for the one that is awaited.
HearAny ==
  /\ shell = "await" /\ answers # <<>>
  /\ LET ok == Head(answers).ok IN
     /\ want' = 0 /\ shell' = "keys"
     /\ dtr_on' = IF Toggled /\ ~ok THEN ~dtr_on ELSE dtr_on
  /\ answers' = Tail(answers)
  /\ UNCHANGED <<typing, unread, chunk, buffer, escape_pending, next_id, sent, queue, daemon, line,
                 history>>

\* recv_response_for: answers of others are thrown away; an error takes the
\* toggle back.
Hear ==
  /\ shell = "await" /\ answers # <<>>
  /\ LET a == Head(answers)
         mine == a.id = want
     IN
     /\ want' = IF mine THEN 0 ELSE want
     /\ shell' = IF mine THEN "keys" ELSE shell
     /\ dtr_on' = IF mine /\ Toggled /\ ~a.ok THEN ~dtr_on ELSE dtr_on
  /\ answers' = Tail(answers)
  /\ UNCHANGED <<typing, unread, chunk, buffer, escape_pending, next_id, sent, queue, daemon, line,
                 history>>

\* Fault: only the end of the connection ends the wait.
HearNothingWaits ==
  /\ shell = "await" /\ daemon = "closed" /\ answers = <<>>
  /\ want' = 0 /\ shell' = "keys" /\ timedout' = TRUE /\ UNCHANGED dtr_on
  /\ UNCHANGED <<typing, unread, chunk, buffer, escape_pending, next_id, sent, daemonVars, moved>>

\* 2 s in all, or no more answers: the toggle is taken back, done or not.
HearNothing ==
  /\ shell = "await"
  /\ want' = 0 /\ shell' = "keys" /\ timedout' = TRUE
  /\ dtr_on' = IF Toggled THEN ~dtr_on ELSE dtr_on
  /\ UNCHANGED <<typing, unread, chunk, buffer, escape_pending, next_id, sent, daemonVars, moved>>

\* The daemon: all of these are handled in their order; a line that is not set
\* is an error.  Nothing depends on how a send or a question went.
Serve ==
  LET r == Head(queue) IN
  /\ daemon = "up" /\ queue # <<>> /\ queue' = Tail(queue)
  /\ \E ok \in IF r.op = "DTR" THEN BOOLEAN ELSE {TRUE} :
       /\ answers' = IF shell = "over" THEN answers
                     ELSE Append(answers, [id |-> r.id, ok |-> ok])
       /\ line' = IF r.op = "DTR" /\ ok THEN r.on ELSE line
       /\ moved' = (moved /\ ~(r.op = "DTR" /\ ok))
  /\ UNCHANGED <<typing, unread, chunk, buffer, escape_pending, dtr_on, next_id, want, shell, sent,
                 daemon, timedout>>

\* Another client sets the line or resets the board, or the port is reopened:
\* nobody tells the shell.
OthersMove ==
  /\ line' = ~line /\ moved' = TRUE
  /\ UNCHANGED <<typing, unread, chunk, buffer, escape_pending, dtr_on, next_id, want, shell, sent,
                 queue, answers, daemon, timedout>>

LoseShellDaemon ==
  /\ daemon = "up" /\ daemon' = "closed"
  /\ UNCHANGED <<typing, unread, chunk, buffer, escape_pending, dtr_on, next_id, want, shell, sent,
                 queue, answers, line, history>>

ShellStep ==
  \/ EndChunk \/ PlainKey \/ LiteralKey \/ Quit \/ AskKey \/ Hear \/ HearNothing

ShellNext == ReadChunk \/ ShellStep \/ Serve \/ OthersMove \/ LoseShellDaemon

-----------------------------------------------------------------------------
(* Properties.                                                             *)

\* What a key means, given what came before it.
Reads(st, k) ==
  IF st.over THEN st
  ELSE IF ~st.escaped
       THEN IF k = CtrlA THEN [st EXCEPT !.escaped = TRUE] ELSE [st EXCEPT !.out = Append(@, k)]
       ELSE CASE k = CtrlA -> [st EXCEPT !.escaped = FALSE, !.out = Append(@, k)]
              [] k = "q" -> [st EXCEPT !.over = TRUE]
              [] k = "d" -> [st EXCEPT !.escaped = FALSE, !.out = Append(@, "DTR")]
              [] k = "b" -> [st EXCEPT !.escaped = FALSE, !.out = Append(@, "ASK")]
              [] OTHER -> [st EXCEPT !.escaped = FALSE]

Meaning(keys) == FoldLeft(Reads, [out |-> <<>>, escaped |-> FALSE, over |-> FALSE], keys).out

\* What goes out to the device is what was typed, whichever way the terminal
\* cut it into chunks: an escape may be in two of them, and keys typed before
\* a command reach the daemon before it ("Flush any keystrokes accumulated
\* before the escape").
KeysAsTyped ==
  /\ IsPrefix(sent, Meaning(typing))
  /\ shell = "over" /\ daemon # "closed" => sent = Meaning(typing)

\* The line that the shell will toggle next is as it believes, as long as every
\* escape has had its answer and nobody else has moved the line since the port
\* was opened or the shell last set it: a foreign answer is not taken for the
\* toggle's, a toggle that failed is taken back, and the next one that succeeds
\* makes the belief right again, whoever moved the line before.
BeliefHolds ==
  ~moved /\ ~timedout /\ shell \in {"read", "keys"} => dtr_on = line

\* An escape lets go of the keyboard again ("or `timeout` elapses").
EscapeReturns == shell = "await" ~> shell # "await"
=============================================================================
