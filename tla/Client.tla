------------------------------- MODULE Client -------------------------------
(***************************************************************************)
(* One `tether` command on its connection to the daemon (tether.rs,        *)
(* run_with_stream): the calls it makes one by one, each of which reads    *)
(* past whatever else arrives until its own answer is there; what of it is *)
(* tried again; and the two ways to go on reading afterwards, `tail` and   *)
(* the bridge of `pty`.                                                    *)
(*                                                                         *)
(* The daemon is what these calls can notice of it: WriterLock,            *)
(* SerialOwner, Fanout and Expect have its inside.  A byte is its own      *)
(* number in the stream it belongs to.                                     *)
(***************************************************************************)
EXTENDS Naturals, FiniteSets, SequencesExt

CONSTANTS
  Commands,  \* the commands that may be given, of those Steps knows
  MaxSeq,    \* bound: bytes the device sends in all
  MaxTyped,  \* bound: bytes a tool sends through the bridge in all
  MaxChunk,  \* bound: bytes in one notification, and in one read of the pty
  MaxProbes  \* bound: probes of one `sync`

ASSUME ClientConstants ==
  /\ Commands \subseteq {"status", "set", "send", "expect", "run", "exec", "tail", "sync", "reset",
                          "pty", "reconnect"}
  /\ MaxSeq \in Nat /\ MaxTyped \in Nat /\ MaxChunk \in Nat \ {0} /\ MaxProbes \in Nat

VARIABLES
  cmd,       \* the command and the options that matter
  pc,        \* between calls, sending a request, awaiting its answer, in a stream, or over
  todo,      \* the steps left, the one under way first
  id,        \* the id of the last request
  outcome,   \* how the command ended
  hand,      \* the bridge: bytes it is writing to the pty
  taken,     \* the bridge: bytes it has read from the pty
  link,      \* the daemon answers, is silent, or has closed the connection
  requests,  \* on their way to the daemon
  serving,   \* the daemon: the answers it is working on
  inbox,     \* on their way to the client
  attached,  \* the daemon: the session is there
  cursor,    \* the daemon: the session's notify_cursor
  produced,  \* bytes the device has sent so far
  typed,     \* bytes the tool has sent so far
  done,      \* what the daemon has done for the command, step by step
  written,   \* the tool's bytes that reached the device
  shown      \* the device's bytes that reached the terminal or the pty

ours == <<cmd, todo, id, outcome, taken>>
theirs == <<serving, attached, cursor, produced, done, written>>
vars == <<cmd, pc, todo, id, outcome, hand, taken, link, requests, serving, inbox,
          attached, cursor, produced, typed, done, written, shown>>

-----------------------------------------------------------------------------
(* The commands.  A step is a call: one that must succeed, one whose       *)
(* failure is passed over, or one that may be tried again.                 *)

Must(m) == [method |-> m, how |-> "must"]
May(m) == [method |-> m, how |-> "may"]
Retry(m) == [method |-> m, how |-> "retry"]

\* hello, and the choice of a device if there are several and somebody to ask.
Greeting == <<Must("hello")>> \o IF cmd.ask THEN <<Must("list_devices")>> ELSE <<>>

StatusSteps == <<Must("status")>>
SetSteps == <<Must("set")>>
ReconnectSteps == <<Must("reconnect")>>
SendSteps == <<Must("attach"), Retry("send")>>
ExpectSteps == <<Must("attach"), Retry("expect")>>
RunSteps == <<May("list_devices"), Must("attach"), Retry("run")>>
ExecSteps == <<May("personality"), Must("attach"), Retry("run")>>
TailSteps == <<Must("attach")>>
SyncSteps == <<May("list_devices"), Must("attach"), Must("send"), [method |-> "expect", how |-> "probe"]>>
PtySteps == <<Must("attach")>> \o IF cmd.lock THEN <<Must("lock")>> ELSE <<>>

\* The preset of `reset`; the waits in between do nothing.
ResetSteps == <<Must("dtr=0"), Must("rts=1"), Must("dtr=1"), Must("rts=0"), Must("dtr=0")>>
Lines == {"dtr=0", "dtr=1", "rts=0", "rts=1"}

Steps(name) ==
  Greeting \o
  CASE name = "status" -> StatusSteps [] name = "set" -> SetSteps [] name = "send" -> SendSteps
    [] name = "expect" -> ExpectSteps [] name = "run" -> RunSteps [] name = "exec" -> ExecSteps
    [] name = "tail" -> TailSteps [] name = "sync" -> SyncSteps [] name = "reset" -> ResetSteps
    [] name = "pty" -> PtySteps [] name = "reconnect" -> ReconnectSteps

\* What a command is there to do to the device, the bytes of streams aside.
Effects == {"send", "run", "set", "lock"} \cup Lines
Wanted ==
  CASE cmd.name \in {"send", "sync"} -> <<"send">> [] cmd.name \in {"run", "exec"} -> <<"run">>
    [] cmd.name = "set" -> <<"set">>
    [] cmd.name = "reset" -> <<"dtr=0", "rts=1", "dtr=1", "rts=0", "dtr=0">>
    [] cmd.name = "pty" /\ cmd.lock -> <<"lock">> [] OTHER -> <<>>

Streaming == {"tail", "bridge"}
Answer(i, m, r) == [kind |-> "answer", id |-> i, method |-> m, result |-> r]
Message(kind, lo, hi) == [kind |-> kind, lo |-> lo, hi |-> hi]

\* The shape of the state.
TypeOK ==
  /\ cmd \in [name: Commands, auto: BOOLEAN, ask: BOOLEAN, many: BOOLEAN, lock: BOOLEAN,
              from: {"start", "now"}, read_only: BOOLEAN]
  /\ pc \in {"next", "send", "await", "over"} \cup Streaming
  /\ outcome \in {"none", "ok", "failed"} /\ link \in {"up", "silent", "closed"}
  /\ id \in Nat /\ taken \in 0..MaxTyped /\ typed \in 0..MaxTyped
  /\ cursor \in 0..MaxSeq /\ produced \in 0..MaxSeq /\ attached \in BOOLEAN
  /\ Cardinality(serving) <= 1
  /\ Len(done) <= Len(Wanted) /\ Len(written) <= MaxTyped /\ Len(shown) <= MaxSeq

Init ==
  /\ cmd \in [name: Commands, auto: BOOLEAN, ask: BOOLEAN, many: BOOLEAN, lock: BOOLEAN,
              from: {"start", "now"}, read_only: BOOLEAN]
  /\ cmd.auto \/ cmd.many => cmd.name \in {"send", "expect", "run", "exec"}
  /\ cmd.lock \/ cmd.read_only => cmd.name = "pty"
  /\ cmd.ask => cmd.many
  /\ cmd.from = "start" => cmd.name = "tail"
  /\ pc = "next" /\ todo = Steps(cmd.name) /\ id = 0 /\ outcome = "none"
  /\ hand = <<>> /\ taken = 0
  /\ link = "up" /\ requests = <<>> /\ serving = {} /\ inbox = <<>>
  /\ attached = FALSE /\ cursor = 0 /\ produced = 0 /\ typed = 0
  /\ done = <<>> /\ written = <<>> /\ shown = <<>>

-----------------------------------------------------------------------------
(* The daemon.                                                             *)

\* Whether a request takes effect, and its answer.  `disconnected` is only
\* said while the port is closed, when nothing has been written.
Plain == {<<FALSE, "ok">>, <<FALSE, "error">>}
Outcomes(m) ==
  CASE m \in {"hello", "list_devices", "personality", "status", "attach"} -> Plain
    [] m = "expect" -> Plain \cup {<<FALSE, "timeout">>}
    [] m = "reconnect" -> IF cmd.many THEN {<<FALSE, "error">>} ELSE Plain \cup {<<FALSE, "closed">>}
    [] m = "lock" -> {<<TRUE, "ok">>, <<FALSE, "error">>}
    [] m = "run" -> {<<TRUE, "ok">>, <<TRUE, "timeout">>, <<TRUE, "error">>,
                     <<FALSE, "disconnected">>, <<FALSE, "error">>}
    [] OTHER -> {<<TRUE, "ok">>, <<TRUE, "error">>, <<FALSE, "disconnected">>, <<FALSE, "error">>}

\* A call is taken up; its answer comes later.
Handle ==
  LET r == Head(requests) IN
  /\ link = "up" /\ requests # <<>> /\ serving = {} /\ r.method # "typed"
  /\ \E o \in Outcomes(r.method) :
       /\ serving' = {Answer(r.id, r.method, o[2])}
       /\ done' = IF o[1] THEN Append(done, r.method) ELSE done
       /\ \/ /\ o = <<FALSE, "ok">> /\ r.method = "attach"
             /\ attached' = TRUE /\ cursor' = IF cmd.from = "now" THEN produced ELSE 0
          \/ ~(o = <<FALSE, "ok">> /\ r.method = "attach") /\ UNCHANGED <<attached, cursor>>
  /\ requests' = Tail(requests)
  /\ UNCHANGED <<ours, pc, hand, link, inbox, produced, typed, written, shown>>

\* The bridge's sends, one after another; one may fail in the middle.
HandleTyped ==
  LET r == Head(requests) IN
  /\ link = "up" /\ requests # <<>> /\ serving = {} /\ r.method = "typed"
  /\ \E k \in 0..Len(r.data) :
       /\ written' = written \o SubSeq(r.data, 1, k)
       /\ serving' = {Answer(r.id, "typed", IF k = Len(r.data) THEN "ok" ELSE "error")}
  /\ requests' = Tail(requests)
  /\ UNCHANGED <<ours, pc, hand, link, inbox, attached, cursor, produced, typed, done, shown>>

Reply ==
  /\ link = "up"
  /\ \E a \in serving : inbox' = Append(inbox, a) /\ serving' = serving \ {a}
  /\ UNCHANGED <<ours, pc, hand, link, requests, attached, cursor, produced, typed, done, written,
                 shown>>

DeviceSends ==
  /\ produced < MaxSeq /\ produced' = produced + 1
  /\ UNCHANGED <<ours, pc, hand, link, requests, serving, inbox, attached, cursor, typed, done,
                 written, shown>>

\* The fan-out: what follows the cursor, or a lag.
Notify ==
  /\ link = "up" /\ attached
  /\ \E hi \in cursor + 1 .. produced : \E kind \in {"data", "lag"} :
       /\ hi - cursor <= MaxChunk
       /\ inbox' = Append(inbox, Message(kind, cursor, hi)) /\ cursor' = hi
  /\ UNCHANGED <<ours, pc, hand, link, requests, serving, attached, produced, typed, done, written,
                 shown>>

\* The daemon hangs or cannot be reached any more, or it ends.
LoseDaemon ==
  /\ link = "up" /\ link' \in {"silent", "closed"}
  /\ UNCHANGED <<ours, theirs, pc, hand, requests, inbox, typed, shown>>

-----------------------------------------------------------------------------
(* The calls.                                                              *)

Request(m, data) == [id |-> id + 1, method |-> m, data |-> data]

End(o) == pc' = "over" /\ outcome' = o

\* The failure of a step: the command's, unless it is passed over.
Fails ==
  \/ /\ Head(todo).how = "may"
     /\ pc' = "next" /\ todo' = Tail(todo) /\ UNCHANGED outcome
  \/ Head(todo).how # "may" /\ End("failed") /\ UNCHANGED todo

\* call: the request is written to the socket, ...
Call ==
  /\ pc = "next" /\ todo # <<>> /\ pc' = "send"
  /\ Head(todo).how = "probe" => id < MaxProbes + 4
  /\ UNCHANGED <<ours, theirs, hand, link, requests, inbox, typed, shown>>

\* ... and goes out under a fresh id once there is room, for which no time is
\* set: never perhaps, to a daemon that no longer reads.
SendOut ==
  /\ pc = "send" /\ link # "closed"
  /\ requests' = Append(requests, Request(Head(todo).method, <<>>))
  /\ id' = id + 1 /\ pc' = "await"
  /\ UNCHANGED <<theirs, cmd, todo, outcome, taken, hand, link, inbox, typed, shown>>

\* The connection is closed.
SendFails ==
  /\ pc = "send" /\ link = "closed" /\ Fails /\ id' = id + 1
  /\ UNCHANGED <<theirs, cmd, taken, hand, link, requests, inbox, typed, shown>>

\* run: neither the command line nor the device's personality has a pattern.
NoPattern ==
  /\ pc = "next" /\ cmd.name = "run" /\ todo = Tail(RunSteps) /\ End("failed")
  /\ UNCHANGED <<theirs, cmd, todo, id, taken, hand, link, requests, inbox, typed, shown>>

\* The last step is done: the command is, or it goes on reading.
Finish ==
  /\ pc = "next" /\ todo = <<>>
  /\ \/ cmd.name = "tail" /\ pc' = "tail" /\ UNCHANGED <<outcome, id>>
     \/ cmd.name = "pty" /\ pc' = "bridge" /\ id' = 0 /\ UNCHANGED outcome
     \/ cmd.name \notin {"tail", "pty"} /\ End("ok") /\ UNCHANGED id
  /\ UNCHANGED <<theirs, cmd, todo, taken, hand, link, requests, inbox, typed, shown>>

First == Head(inbox)
Mine == First.kind = "answer" /\ First.id = id

\* What is no answer to this call is read and forgotten, bytes included.
Skip ==
  /\ pc = "await" /\ inbox # <<>> /\ ~Mine
  /\ inbox' = Tail(inbox)
  /\ UNCHANGED <<ours, theirs, pc, hand, link, requests, typed, shown>>

Returns(result) ==
  /\ pc = "await" /\ inbox # <<>> /\ Mine /\ First.result = result
  /\ inbox' = Tail(inbox)
  /\ UNCHANGED <<theirs, cmd, id, taken, hand, link, requests, typed, shown>>

\* A result; `sync` probes on, `exec` gives up on a device without a shell, and
\* `status` on one the daemon does not have.
ReturnOk ==
  /\ Returns("ok")
  /\ \/ Head(todo).how = "probe" /\ pc' = "next" /\ UNCHANGED <<todo, outcome>>
     \/ Head(todo).how # "probe" /\ pc' = "next" /\ todo' = Tail(todo) /\ UNCHANGED outcome
     \/ Head(todo).method \in {"personality", "status"} /\ End("failed") /\ UNCHANGED todo

\* call_or_retry: reconnect, and once more.
Again == <<Must("reconnect"), Must(Head(todo).method)>> \o Tail(todo)

\* Fault: whatever the error is.
RetryOnAny ==
  /\ \E r \in {"disconnected", "error", "timeout"} : Returns(r)
  /\ IF Head(todo).how = "retry" /\ cmd.auto
     THEN pc' = "next" /\ todo' = Again /\ UNCHANGED outcome
     ELSE Fails

\* The device is gone.
ReturnDisconnected ==
  /\ Returns("disconnected")
  /\ IF Head(todo).how = "retry" /\ cmd.auto
     THEN pc' = "next" /\ todo' = Again /\ UNCHANGED outcome
     ELSE Fails

\* Fault: a step that fails is left out.
ReturnErrorGoesOn ==
  /\ Returns("error")
  /\ pc' = "next" /\ todo' = Tail(todo) /\ UNCHANGED outcome

\* Any other error.
ReturnError == Returns("error") /\ Fails

\* A reconnect that brings nothing back is a failure too, but to
\* `tether --json reconnect`, which prints what it is told.
ReturnClosed ==
  /\ Returns("closed")
  /\ \/ Fails
     \/ /\ cmd.name = "reconnect" /\ Head(todo).method = "reconnect"
        /\ pc' = "next" /\ todo' = Tail(todo) /\ UNCHANGED outcome

\* A probe that times out finds the device idle, or is followed by another.
ReturnTimeout ==
  /\ Returns("timeout")
  /\ \/ /\ Head(todo).how = "probe"
        /\ pc' = "next" /\ todo' \in {todo, Tail(todo)} /\ UNCHANGED outcome
     \/ Head(todo).how # "probe" /\ Fails

\* sync_until_idle: its own time is over.
StopProbing ==
  /\ pc = "next" /\ todo # <<>> /\ Head(todo).how = "probe"
  /\ todo' = Tail(todo)
  /\ UNCHANGED <<theirs, cmd, pc, id, outcome, taken, hand, link, requests, inbox, typed, shown>>

\* Fault: only the end of the connection ends a call.
AwaitEof ==
  /\ pc = "await" /\ inbox = <<>> /\ link = "closed" /\ Fails
  /\ UNCHANGED <<theirs, cmd, id, taken, hand, link, requests, inbox, typed, shown>>

\* 120 s without a message, or the end of the connection.
NoAnswer ==
  /\ pc = "await" /\ inbox = <<>> /\ Fails
  /\ UNCHANGED <<theirs, cmd, id, taken, hand, link, requests, inbox, typed, shown>>

-----------------------------------------------------------------------------
(* The streams.                                                            *)

Numbers(m) == [i \in 1 .. m.hi - m.lo |-> m.lo + i - 1]

\* tail_loop: data is shown, everything else passed by.
TailReads ==
  /\ pc = "tail" /\ inbox # <<>>
  /\ shown' = IF First.kind = "data" THEN shown \o Numbers(First) ELSE shown
  /\ inbox' = Tail(inbox)
  /\ UNCHANGED <<ours, theirs, pc, hand, link, requests, typed>>

\* Fault: a send that failed is sent again, its last byte at least.
BridgeResends ==
  /\ pc = "bridge" /\ hand = <<>> /\ inbox # <<>>
  /\ hand' = IF First.kind = "data" THEN Numbers(First) ELSE <<>>
  /\ \/ /\ First.kind = "answer" /\ First.result = "error"
        /\ requests' = Append(requests, Request("typed", <<taken - 1>>))
     \/ First.kind # "answer" /\ UNCHANGED requests
  /\ inbox' = Tail(inbox)
  /\ UNCHANGED <<ours, theirs, pc, link, typed, shown>>

\* run_pty_bridge takes a notification in hand, passes an answer by, ...
BridgeReads ==
  /\ pc = "bridge" /\ hand = <<>> /\ inbox # <<>>
  /\ hand' = IF First.kind = "data" THEN Numbers(First) ELSE <<>>
  /\ inbox' = Tail(inbox)
  /\ UNCHANGED <<ours, theirs, pc, link, requests, typed, shown>>

\* ... writes what the pty has room for, ...
BridgeWrites ==
  /\ pc = "bridge"
  /\ \E n \in 1..Len(hand) :
       shown' = shown \o SubSeq(hand, 1, n) /\ hand' = SubSeq(hand, n + 1, Len(hand))
  /\ UNCHANGED <<ours, theirs, pc, link, requests, inbox, typed>>

\* Fault: the write waits for the tool.
BridgeWaits == FALSE /\ UNCHANGED vars

\* Fault: what did not fit in time is put back, all of it.
BridgePutsBack ==
  /\ pc = "bridge" /\ hand # <<>> /\ hand' = <<>>
  /\ inbox' = <<Message("data", hand[Len(hand)], hand[Len(hand)] + 1)>> \o inbox
  /\ shown' = shown \o hand
  /\ UNCHANGED <<ours, theirs, pc, link, requests, typed>>

\* ... and drops the rest after 200 ms.
BridgeDrops ==
  /\ pc = "bridge" /\ hand # <<>> /\ hand' = <<>>
  /\ UNCHANGED <<ours, theirs, pc, link, requests, inbox, typed, shown>>

ToolTypes ==
  /\ pc = "bridge" /\ typed < MaxTyped /\ typed' = typed + 1
  /\ UNCHANGED <<ours, theirs, pc, hand, link, requests, inbox, shown>>

\* The tool's bytes go out as a send that nobody waits for, or nowhere; the
\* bridge ends when they cannot be sent.
BridgeTakes ==
  /\ pc = "bridge" /\ hand = <<>>
  /\ \E n \in 1..MaxChunk :
       /\ taken + n <= typed /\ taken' = taken + n
       /\ \/ cmd.read_only /\ UNCHANGED <<id, requests, pc, outcome>>
          \/ /\ ~cmd.read_only /\ link # "closed"
             /\ requests' = Append(requests, Request("typed", [i \in 1..n |-> taken + i - 1]))
             /\ id' = id + 1 /\ UNCHANGED <<pc, outcome>>
          \/ ~cmd.read_only /\ link = "closed" /\ End("failed") /\ UNCHANGED <<id, requests>>
  /\ UNCHANGED <<theirs, cmd, todo, hand, link, inbox, typed, shown>>

\* A signal, the exit of the child, or an error of the pty.
BridgeEnds ==
  /\ pc = "bridge"
  /\ \/ hand = <<>> /\ End("ok")
     \/ End("failed")
  /\ UNCHANGED <<theirs, cmd, todo, id, taken, hand, link, requests, inbox, typed, shown>>

\* The daemon has gone: all right for `tail`, an error for `pty`.
StreamEof ==
  /\ pc \in Streaming /\ hand = <<>> /\ inbox = <<>> /\ link = "closed"
  /\ End(IF pc = "tail" THEN "ok" ELSE "failed")
  /\ UNCHANGED <<theirs, cmd, todo, id, taken, hand, link, requests, inbox, typed, shown>>

ClientStep ==
  \/ Call \/ SendFails \/ NoPattern \/ Finish \/ Skip \/ ReturnOk \/ ReturnDisconnected \/ ReturnError
  \/ ReturnClosed \/ ReturnTimeout \/ StopProbing \/ NoAnswer \/ TailReads \/ BridgeReads \/ BridgeDrops \/ StreamEof

Next ==
  \/ ClientStep \/ SendOut \/ BridgeWrites \/ BridgeTakes \/ BridgeEnds \/ ToolTypes
  \/ Handle \/ HandleTyped \/ Reply \/ DeviceSends \/ Notify \/ LoseDaemon

\* The client goes on, timers included; the daemon, the tool and the device
\* owe nothing, nor does the socket.
Spec == Init /\ [][Next]_vars /\ WF_vars(ClientStep)

-----------------------------------------------------------------------------
(* Properties.                                                             *)

\* Nothing is done twice to the device, or out of order, whatever is tried
\* again; and a command that says it went well, or begins to stream, had all
\* of it done: all steps of a reset, the one write of a `send` that met a
\* closed port, the lock of a `pty --lock`.
DoneOnce == IsPrefix(done, Wanted)
OkMeansDone == outcome = "ok" \/ pc \in Streaming => done = Wanted

\* The first byte that is neither shown nor lost: it is in hand, on its way,
\* or still the daemon's.
ShownNext ==
  LET news == {i \in DOMAIN inbox : inbox[i].kind = "data"} IN
  IF hand # <<>> THEN Head(hand)
  ELSE IF news # {} THEN inbox[CHOOSE i \in news : \A j \in news : i <= j].lo
  ELSE cursor

\* Likewise of the tool's bytes.
TypedNext ==
  LET sends == {i \in DOMAIN requests : requests[i].method = "typed"} IN
  IF sends = {} THEN taken
  ELSE Head(requests[CHOOSE i \in sends : \A j \in sends : i <= j].data)

\* The terminal, or the tool on the pty, is shown the device's bytes once and
\* in order; what a call, a lag or a slow tool has swallowed never comes late.
\* And the device gets the tool's bytes once and in order, although nobody waits
\* for the answers of the bridge's sends.
Shown == INSTANCE LossyPipe WITH fed <- produced, settled <- ShownNext, out <- shown
Typed == INSTANCE LossyPipe WITH fed <- typed, settled <- TypedNext, out <- written
StreamsInOrder == Shown!Spec /\ Typed!Spec

\* Every command but the streams ends, whatever the daemon answers and whenever
\* it stops to, as long as the device does not talk for ever; but for one whose
\* request never gets out, the write of which has no time limit.  And a tool
\* that does not read never stops the bridge ("never park forever").
CommandEnds ==
  /\ cmd.name \notin {"tail", "pty"} => <>(pc = "over") \/ <>[](pc = "send")
  /\ hand # <<>> ~> hand = <<>> \/ pc = "over"
=============================================================================
