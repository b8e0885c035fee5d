---------------------------- MODULE SerialOwner ----------------------------
(***************************************************************************)
(* The owner task of one serial device (tetherd/serial.rs, spawn and       *)
(* run_io_session) and the handlers of tetherd/handlers.rs that talk to it *)
(* through its control channel, its write channel and the force_reconnect  *)
(* and reconnected Notifies.                                               *)
(*                                                                         *)
(* The owner alone opens and closes the port.  It is at one of its await   *)
(* points: opening the port, waiting to retry, parked, in the select of an *)
(* open session, holding a break, writing, or in the gap after a session.  *)
(* Time (backoff, timeouts) is abstracted to "sooner or later", the bytes  *)
(* that are read belong to RingBuffer, and the counters shown by `status`  *)
(* are left out.                                                           *)
(***************************************************************************)
EXTENDS Naturals, Sequences

CONSTANTS
  Calls,      \* bound: the handlers that may be in flight at once
  Backends,   \* what the device opens as: "real" for a tty, "fd" for a PTY or
              \* a pipe, or for a tty that tokio-serial fails to open
  Fields,     \* the settings, 1..n in the order the code sets them; 1 is baud
  Values,     \* what a setting can be
  Default,    \* the configuration the daemon was started with
  Updates,    \* the partial configurations clients ask for with set_device
  Ops,        \* the methods that each handler may be called for
  CtrlCap,    \* capacity of the control channel (8 in the code)
  WriteCap    \* capacity of the write channel (64 in the code)

Control == {"apply", "line", "break", "disconnect", "connect"}

ASSUME SerialOwnerConstants ==
  /\ Backends \subseteq {"real", "fd"} /\ Backends # {}
  /\ Fields \subseteq Nat /\ 1 \in Fields
  /\ Default \in [Fields -> Values]
  /\ \A u \in Updates : DOMAIN u \subseteq Fields /\ u \in [DOMAIN u -> Values]
  /\ Ops \in [Calls -> SUBSET (Control \cup {"write", "reconnect"})]
  /\ CtrlCap \in Nat \ {0} /\ WriteCap \in Nat \ {0}

VARIABLES
  pc,                       \* where the owner task awaits
  plugged,                  \* the device exists and can be opened
  connected,                \* DeviceState.connected
  explicitly_disconnected,  \* DeviceState.explicitly_disconnected
  cfg,                      \* the shared SerialConfig
  snapshot,                 \* the clone the owner opens the port with
  line,                     \* the settings the open tty really has; NoUpdate
                            \* when the port is closed or an fd backend
  ctrl_rx, rx,              \* the two channels, as sequences of calls
  kicked,                   \* the owner's force_reconnect.notified() is ready
  call,                     \* the handlers
  seen,                     \* history: the last connect/disconnect event sent
  shut,                     \* history: a disconnect_device closed the port and
                            \* no connect_device has been handled since
  drift                     \* history: a setting was refused by the tty, or a
                            \* set_device accepted between two attempts to open

ownerVars == <<pc, connected, explicitly_disconnected, cfg, snapshot, line,
               kicked, seen, shut, drift>>
vars == <<ownerVars, plugged, ctrl_rx, rx, call>>

Configs == [Fields -> Values]

NoUpdate == [f \in {} |-> f]

RealBackend == line # NoUpdate

Idle == [op |-> "none", want |-> NoUpdate, pc |-> "idle", woken |-> FALSE]

\* `woken`: the reconnected.notified() of a `reconnect` is ready.
CallStates ==
  [op: Control \cup {"write", "reconnect", "none"}, want: Updates \cup {NoUpdate},
   pc: {"idle", "send", "ack", "break", "write", "subscribe", "kick", "pulse"},
   woken: BOOLEAN]

\* The shape of the state.
TypeOK ==
  /\ pc \in {"open", "wait", "parked", "io", "break", "write", "gap"}
  /\ {plugged, connected, explicitly_disconnected, kicked, shut, drift} \subseteq BOOLEAN
  /\ {cfg, snapshot} \subseteq Configs /\ line \in Configs \cup {NoUpdate}
  /\ ctrl_rx \in Seq(Calls) /\ Len(ctrl_rx) <= CtrlCap
  /\ rx \in Seq(Calls) /\ Len(rx) <= WriteCap
  /\ call \in [Calls -> CallStates]
  /\ seen \in {"none", "reconnected", "disconnected"}

Init ==
  /\ pc = "open" /\ plugged = TRUE
  /\ connected = FALSE /\ explicitly_disconnected = FALSE
  /\ cfg = Default /\ snapshot = Default /\ line = NoUpdate
  /\ ctrl_rx = <<>> /\ rx = <<>> /\ kicked = FALSE
  /\ call = [c \in Calls |-> Idle]
  /\ seen = "none" /\ shut = FALSE /\ drift = FALSE

-----------------------------------------------------------------------------
(* Helpers.                                                                *)

\* write_apply_to_cfg, and what a full apply_to_real leaves on the line.
Updated(u, config) ==
  [f \in Fields |-> IF f \in DOMAIN u THEN u[f] ELSE config[f]]

\* What of the update precedes setting k in apply_to_real.
Before(u, k) == [f \in {g \in DOMAIN u : g < k} |-> u[f]]

\* The owner's answer through the oneshot.  Only connect_device goes on.
Acked(c) ==
  [call EXCEPT ![c] = IF @.op = "connect" THEN [@ EXCEPT !.pc = "subscribe"] ELSE Idle]

\* reconnected.notify_waiters().  The waiter of connect_device is let be: its
\* outcome, woken or timed out, is the same.
Pulsed ==
  [c \in Calls |-> IF call[c].op = "reconnect" THEN [call[c] EXCEPT !.woken = TRUE]
                                               ELSE call[c]]

\* Fault: the configuration is not read again before the port is reopened.
OpenOldConfig(config) ==
  /\ pc' = "open"
  /\ drift' = FALSE
  /\ UNCHANGED snapshot

\* The outer loop takes its snapshot and goes to open the port.
OpenNext(config) ==
  /\ pc' = "open"
  /\ snapshot' = config
  /\ drift' = FALSE

\* Fault: the session ends without telling.
EndSilently ==
  /\ connected' = FALSE /\ line' = NoUpdate
  /\ pc' = "gap" /\ kicked' = FALSE
  /\ UNCHANGED seen

\* run_io_session returned: the port is closed, then the 200 ms gap.
EndSession ==
  /\ connected' = FALSE /\ line' = NoUpdate
  /\ seen' = "disconnected"
  /\ pc' = "gap" /\ kicked' = FALSE

-----------------------------------------------------------------------------
(* The owner between sessions.                                             *)

\* The gap is over: the top of the outer loop.
Resume ==
  /\ pc = "gap"
  /\ \/ explicitly_disconnected /\ pc' = "parked" /\ UNCHANGED <<snapshot, drift>>
     \/ ~explicitly_disconnected /\ OpenNext(cfg)
  /\ UNCHANGED <<plugged, connected, explicitly_disconnected, cfg, line, ctrl_rx,
                 rx, kicked, call, seen, shut>>

\* SerialPort::open sets up a tty from the snapshot; settings it refuses after
\* the baud rate are skipped with a warning.
Configure(refused) ==
  /\ line' = [f \in Fields |-> IF f \in refused THEN Default[f] ELSE snapshot[f]]
  /\ drift' = (drift \/ refused # {})

OpenOk ==
  /\ pc = "open" /\ plugged
  /\ connected' = TRUE
  /\ seen' = IF connected THEN seen ELSE "reconnected"
  /\ call' = Pulsed
  /\ \/ "fd" \in Backends /\ UNCHANGED <<line, drift>>
     \/ "real" \in Backends /\ \E refused \in SUBSET (Fields \ {1}) : Configure(refused)
  /\ pc' = "io"
  /\ UNCHANGED <<plugged, explicitly_disconnected, cfg, snapshot, ctrl_rx, rx,
                 kicked, shut>>

OpenFail ==
  /\ pc = "open" /\ ~plugged
  /\ connected' = FALSE
  /\ pc' = "wait"
  /\ UNCHANGED <<plugged, explicitly_disconnected, cfg, snapshot, line, ctrl_rx,
                 rx, kicked, call, seen, shut, drift>>

\* The backoff has elapsed, or a kick cuts it short: the open loop goes round
\* with the snapshot it has, whatever the flag says by now.
Retry ==
  /\ pc = "wait"
  /\ pc' = "open" /\ kicked' = FALSE
  /\ UNCHANGED <<plugged, connected, explicitly_disconnected, cfg, snapshot, line,
                 ctrl_rx, rx, call, seen, shut, drift>>

\* Fault: a parked owner lets write jobs wait.
FailWriteWhileRetrying ==
  /\ pc = "wait" /\ rx # <<>>
  /\ call' = Acked(Head(rx)) /\ rx' = Tail(rx)
  /\ kicked' = FALSE
  /\ UNCHANGED <<pc, plugged, connected, explicitly_disconnected, cfg, snapshot,
                 line, ctrl_rx, seen, shut, drift>>

\* A write job while the port is closed is failed at once.  The select is
\* built anew, so a kick it had heard is dropped.
FailWrite ==
  /\ pc \in {"wait", "parked"} /\ rx # <<>>
  /\ call' = Acked(Head(rx)) /\ rx' = Tail(rx)
  /\ kicked' = FALSE
  /\ UNCHANGED <<pc, plugged, connected, explicitly_disconnected, cfg, snapshot,
                 line, ctrl_rx, seen, shut, drift>>

\* Fault: whatever is handled in the park leaves it.
LeaveUnchecked(config, unapplied) ==
  \/ pc = "wait" /\ pc' = "open" /\ drift' = (drift \/ unapplied) /\ UNCHANGED snapshot
  \/ pc = "parked" /\ OpenNext(config)

\* Fault: the park is never left.
LeaveWaitOnly(config, unapplied) ==
  \/ pc = "wait" /\ pc' = "open" /\ drift' = (drift \/ unapplied) /\ UNCHANGED snapshot
  \/ pc = "parked" /\ UNCHANGED <<pc, snapshot, drift>>

\* What the two closed loops do with CtrlOutcome::ExitSession.
LeaveClosed(config, unapplied) ==
  \/ pc = "wait" /\ pc' = "open" /\ drift' = (drift \/ unapplied) /\ UNCHANGED snapshot
  \/ pc = "parked" /\ explicitly_disconnected' /\ UNCHANGED <<pc, snapshot, drift>>
  \/ pc = "parked" /\ ~explicitly_disconnected' /\ OpenNext(config)

\* handle_ctrl_closed, in the wait and in the park.
ClosedControl ==
  LET c == Head(ctrl_rx) IN
  /\ pc \in {"wait", "parked"} /\ ctrl_rx # <<>>
  /\ ctrl_rx' = Tail(ctrl_rx) /\ call' = Acked(c) /\ kicked' = FALSE
  /\ \/ /\ call[c].op = "apply"
        /\ cfg' = Updated(call[c].want, cfg)
        /\ UNCHANGED <<explicitly_disconnected, shut>>
        /\ LeaveClosed(Updated(call[c].want, cfg), TRUE)
     \/ /\ call[c].op \in {"line", "break"}
        /\ UNCHANGED <<pc, snapshot, cfg, explicitly_disconnected, shut, drift>>
     \/ /\ call[c].op = "disconnect"
        /\ explicitly_disconnected' = TRUE
        /\ UNCHANGED <<pc, snapshot, cfg, shut, drift>>
     \/ /\ call[c].op = "connect"
        /\ explicitly_disconnected' = FALSE /\ shut' = FALSE
        /\ UNCHANGED cfg
        /\ LeaveClosed(cfg, FALSE)
  /\ UNCHANGED <<plugged, connected, line, rx, seen>>

-----------------------------------------------------------------------------
(* The owner in a session.  The select is biased: a kick, then the control *)
(* channel, then writes, then reads.                                       *)

Forced ==
  /\ pc = "io" /\ kicked
  /\ EndSession
  /\ UNCHANGED <<plugged, explicitly_disconnected, cfg, snapshot, ctrl_rx, rx, call,
                 shut, drift>>

\* A refused setting leaves those before it in force.  An fd backend refuses
\* every update and remembers it all the same.
LiveApply(c) ==
  /\ call[c].op = "apply"
  /\ \/ /\ RealBackend
        /\ line' = Updated(call[c].want, line) /\ cfg' = Updated(call[c].want, cfg)
        /\ UNCHANGED drift
     \/ /\ RealBackend
        /\ \E k \in DOMAIN call[c].want :
             line' = Updated(Before(call[c].want, k), line)
        /\ drift' = TRUE
        /\ UNCHANGED cfg
     \/ /\ ~RealBackend
        /\ cfg' = Updated(call[c].want, cfg)
        /\ UNCHANGED <<line, drift>>
  /\ UNCHANGED <<pc, connected, explicitly_disconnected, seen, shut, kicked>>
  /\ call' = Acked(c)

\* set_dtr, set_rts, read_modem_status, a break that cannot be asserted, and
\* every line operation of an fd backend.
LiveLine(c) ==
  /\ call[c].op \in {"line", "break"}
  /\ call' = Acked(c)
  /\ UNCHANGED <<pc, connected, explicitly_disconnected, cfg, line, seen, shut,
                 drift, kicked>>

\* The break is held across a sleep, outside the select.
LiveBreak(c) ==
  /\ call[c].op = "break" /\ RealBackend
  /\ pc' = "break"
  /\ call' = [call EXCEPT ![c].pc = "break"]
  /\ UNCHANGED <<connected, explicitly_disconnected, cfg, line, seen, shut, drift,
                 kicked>>

LiveDisconnect(c) ==
  /\ call[c].op = "disconnect"
  /\ explicitly_disconnected' = TRUE /\ shut' = TRUE
  /\ EndSession
  /\ call' = Acked(c)
  /\ UNCHANGED <<cfg, drift>>

LiveConnect(c) ==
  /\ call[c].op = "connect"
  /\ explicitly_disconnected' = FALSE /\ shut' = FALSE
  /\ call' = Acked(c)
  /\ UNCHANGED <<pc, connected, cfg, line, seen, drift, kicked>>

\* handle_ctrl_real and handle_ctrl_fd.
LiveControl ==
  LET c == Head(ctrl_rx) IN
  /\ pc = "io" /\ ~kicked /\ ctrl_rx # <<>>
  /\ \/ LiveApply(c) \/ LiveLine(c) \/ LiveBreak(c)
     \/ LiveDisconnect(c) \/ LiveConnect(c)
  /\ ctrl_rx' = Tail(ctrl_rx)
  /\ UNCHANGED <<plugged, snapshot, rx>>

\* The break is over and its message answered.
BreakDone(c) ==
  /\ call[c].pc = "break"
  /\ pc' = "io"
  /\ call' = Acked(c)
  /\ UNCHANGED <<plugged, connected, explicitly_disconnected, cfg, snapshot, line,
                 ctrl_rx, rx, kicked, seen, shut, drift>>

\* write_all begins, outside the select, ...
LiveWrite ==
  /\ pc = "io" /\ ~kicked /\ ctrl_rx = <<>> /\ rx # <<>>
  /\ pc' = "write" /\ call' = [call EXCEPT ![Head(rx)].pc = "write"] /\ rx' = Tail(rx)
  /\ UNCHANGED <<plugged, connected, explicitly_disconnected, cfg, snapshot, line,
                 ctrl_rx, kicked, seen, shut, drift>>

\* ... and succeeds, or fails and ends the session; how long a device that
\* takes nothing may hold it is not limited.
WriteDone(c) ==
  /\ call[c].pc = "write"
  /\ call' = Acked(c)
  /\ \/ plugged /\ pc' = "io" /\ UNCHANGED <<connected, line, seen, kicked>>
     \/ EndSession
  /\ UNCHANGED <<plugged, explicitly_disconnected, cfg, snapshot, ctrl_rx, rx, shut,
                 drift>>

\* A read returns 0 or an error.
ReadEnds ==
  /\ pc = "io" /\ ~kicked /\ ctrl_rx = <<>> /\ rx = <<>>
  /\ EndSession
  /\ UNCHANGED <<plugged, explicitly_disconnected, cfg, snapshot, ctrl_rx, rx, call,
                 shut, drift>>

-----------------------------------------------------------------------------
(* The device and the handlers.                                            *)

Plug ==
  /\ plugged' = ~plugged
  /\ UNCHANGED <<ownerVars, ctrl_rx, rx, call>>

\* A client calls a method.  reconnect creates its waiter first thing.
Call(c) ==
  /\ call[c] = Idle
  /\ \E op \in Ops[c], u \in Updates \cup {NoUpdate} :
       /\ (op = "apply") = (u \in Updates)
       /\ call' = [call EXCEPT ![c] =
            [op |-> op, want |-> u, woken |-> FALSE,
             pc |-> IF op = "reconnect" THEN "kick" ELSE "send"]]
  /\ UNCHANGED <<ownerVars, plugged, ctrl_rx, rx>>

\* Fault: the channels are unbounded.
EnqueueUnbounded(c) ==
  /\ call[c].pc = "send"
  /\ \/ call[c].op \in Control /\ ctrl_rx' = Append(ctrl_rx, c) /\ UNCHANGED rx
     \/ call[c].op = "write" /\ rx' = Append(rx, c) /\ UNCHANGED ctrl_rx
  /\ call' = [call EXCEPT ![c].pc = "ack"]
  /\ UNCHANGED <<ownerVars, plugged>>

\* The message enters its channel, once there is room.
Enqueue(c) ==
  /\ call[c].pc = "send"
  /\ \/ /\ call[c].op \in Control /\ Len(ctrl_rx) < CtrlCap
        /\ ctrl_rx' = Append(ctrl_rx, c) /\ UNCHANGED rx
     \/ /\ call[c].op = "write" /\ Len(rx) < WriteCap
        /\ rx' = Append(rx, c) /\ UNCHANGED ctrl_rx
  /\ call' = [call EXCEPT ![c].pc = "ack"]
  /\ UNCHANGED <<ownerVars, plugged>>

\* reconnect: notify_waiters is heard only by an owner that sits in a select
\* with the future; one that is busy, or between two polls, never learns.
\* With `wait` false the answer goes out at once.
Kick(c) ==
  /\ call[c].pc = "kick"
  /\ \E heard \in BOOLEAN :
       /\ heard => pc \in {"wait", "io"}
       /\ kicked' = (kicked \/ heard)
  /\ \/ call' = [call EXCEPT ![c].pc = "pulse"]
     \/ call' = [call EXCEPT ![c] = Idle]
  /\ UNCHANGED <<plugged, pc, connected, explicitly_disconnected, cfg, snapshot,
                 line, ctrl_rx, rx, seen, shut, drift>>

\* connect_device creates its waiter after the acknowledgement.
Subscribe(c) ==
  /\ call[c].pc = "subscribe"
  /\ call' = [call EXCEPT ![c].pc = "pulse"]
  /\ UNCHANGED <<ownerVars, plugged, ctrl_rx, rx>>

\* The waiter is woken, or times out.
Finish(c) ==
  /\ call[c].pc = "pulse"
  /\ call' = [call EXCEPT ![c] = Idle]
  /\ UNCHANGED <<ownerVars, plugged, ctrl_rx, rx>>

Owner == \/ Resume \/ OpenOk \/ OpenFail \/ Retry \/ FailWrite \/ ClosedControl
         \/ Forced \/ LiveControl \/ LiveWrite \/ ReadEnds
         \/ \E c \in Calls : BreakDone(c) \/ WriteDone(c)

Handler(c) == Call(c) \/ Enqueue(c) \/ Kick(c) \/ Subscribe(c) \/ Finish(c)

Next == Owner \/ Plug \/ \E c \in Calls : Handler(c)

Spec == Init /\ [][Next]_vars

\* The owner goes on whenever it can.  Its select starts at a random branch
\* while the port is closed and the channels serve their senders in order, so
\* what is ready again and again is taken at last.  Reads, kicks and clients
\* owe nothing, nor does a write once it has begun.
Fairness ==
  /\ WF_vars(Resume) /\ WF_vars(OpenOk \/ OpenFail) /\ WF_vars(Retry)
  /\ WF_vars(Forced)
  /\ SF_vars(FailWrite \/ LiveWrite) /\ SF_vars(ClosedControl \/ LiveControl)
  /\ \A c \in Calls : /\ WF_vars(BreakDone(c))
                      /\ SF_vars(Enqueue(c)) /\ WF_vars(Kick(c))
                      /\ WF_vars(Subscribe(c)) /\ WF_vars(Finish(c))

FairSpec == Spec /\ Fairness

-----------------------------------------------------------------------------
(* Properties.                                                             *)

\* The settings in force on an open tty are the configured ones, through any
\* number of outages and reopens, unless an update was refused half-way or
\* accepted between two attempts to open ("so the same settings survive an
\* auto-reconnect", docs/PROTOCOL.md).
SettingsInForce ==
  RealBackend /\ ~drift => line = cfg

\* A port that disconnect_device closed stays closed until connect_device,
\* whatever else is called meanwhile (the park loop).
DisconnectHolds == shut => pc \in {"gap", "parked"} /\ explicitly_disconnected

\* A client that follows the device events knows whether the port is open.
EventsTellState == connected = (seen = "reconnected")

\* The owner is where it would take a write: with the port open it looks at
\* control messages first.
TakesWrites == pc \in {"wait", "parked"} \/ (pc = "io" /\ ~kicked /\ ctrl_rx = <<>>)

\* Every call is answered, with the port open, closed or flapping, and with
\* the channels full; but for two things that the code sets no limit to, one
\* write to the device that never ends, and, for a write, control messages
\* that come without a pause.
CallsAnswered ==
  \/ <>[](pc = "write")
  \/ \A c \in Calls :
       /\ call[c].pc # "idle" /\ call[c].op # "write" ~> call[c].pc = "idle"
       /\ []<>TakesWrites => (call[c].pc # "idle" ~> call[c].pc = "idle")

\* The port comes back once the device is there and nobody wants it closed:
\* no park, wait or gap is for ever.
Reopens ==
  plugged /\ ~explicitly_disconnected
    ~> connected \/ ~plugged \/ explicitly_disconnected

\* No port is opened while it is explicitly disconnected ("stops
\* auto-reconnecting until `connect_device` clears it", state.rs).
NoOpenWhileDisconnected ==
  [][~connected /\ connected' => ~explicitly_disconnected]_vars

\* A tty is opened at the baud rate of the moment ("Snapshot the latest
\* config before each open, so a `set_device` applied while we were waiting
\* to reconnect actually takes effect", serial.rs).
OpensWithLatestConfig ==
  [][line = NoUpdate /\ line' # NoUpdate => line'[1] = cfg[1]]_vars

\* A reconnect that reports success has had the port reopened, or will have:
\* its kick was heard ("drop the current device handle and reopen it", "we
\* always notify the serial task", handlers.rs).
ReconnectReopens ==
  [][\A c \in Calls :
       /\ call[c].op = "reconnect" /\ call[c].pc = "pulse" /\ call'[c].pc = "idle"
       /\ connected
       => call[c].woken \/ kicked]_vars
=============================================================================
