------------------------- MODULE SerialOwnerProofs -------------------------
(***************************************************************************)
(* What the owner task keeps to, for any number of handlers, any settings  *)
(* and channels of any size.                                               *)
(***************************************************************************)
EXTENDS SerialOwner, TLAPS

USE SerialOwnerConstants

-----------------------------------------------------------------------------
(* The invariant.                                                          *)

\* A break or a write in progress holds the owner, and there is one at a time.
\* Nothing but the owner's answer ends it, so no session ends or begins meanwhile.
Holding(h) == h.pc \in {"break", "write"}

HolderAlone ==
  /\ \A c \in Calls : Holding(call[c]) => pc = call[c].pc
  /\ \A c, d \in Calls : Holding(call[c]) /\ Holding(call[d]) => c = d

\* Outside a session the port is closed and everybody has been told.
Closed ==
  pc \in {"open", "wait", "gap", "parked"} => line = NoUpdate /\ ~connected

\* What the owner is about to open the port with is what it is configured to,
\* but for an update that came between two attempts.
SnapshotFresh == pc \in {"open", "wait"} /\ ~drift => snapshot = cfg

OwnerInv ==
  /\ TypeOK
  /\ HolderAlone
  /\ Closed
  /\ SnapshotFresh
  /\ SettingsInForce
  /\ DisconnectHolds
  /\ EventsTellState

-----------------------------------------------------------------------------
(* Lemmas about settings.                                                  *)

\* An update of a configuration is a configuration, and that of an open tty never
\* looks like a closed port.
LEMMA UpdatedTyped ==
  ASSUME NEW u \in Updates \cup {NoUpdate}, NEW config \in Configs
  PROVE  Updated(u, config) \in Configs
<1>1. \A f \in DOMAIN u : u[f] \in Values
  BY DEF NoUpdate
<1> QED
  BY <1>1 DEF Updated, Configs

\* The same of an update that was refused half-way.
LEMMA RefusedTyped ==
  ASSUME NEW u \in Updates \cup {NoUpdate}, NEW k \in DOMAIN u, NEW config \in Configs
  PROVE  Updated(Before(u, k), config) \in Configs
<1>1. \A f \in DOMAIN u : u[f] \in Values
  BY DEF NoUpdate
<1>2. /\ DOMAIN Before(u, k) \subseteq DOMAIN u
      /\ \A f \in DOMAIN Before(u, k) : Before(u, k)[f] = u[f]
  BY DEF Before
<1> QED
  BY <1>1, <1>2 DEF Updated, Configs

\* A port that is open as a tty has a baud rate; a closed one has none.
LEMMA OpenIsReal ==
  ASSUME NEW config \in Configs
  PROVE  config # NoUpdate
  BY DEF Configs, NoUpdate

-----------------------------------------------------------------------------
(* Lemmas about the handlers.                                              *)

\* An answer ends the call of one handler, or lets a connect_device go on.
LEMMA AckedTyped ==
  ASSUME NEW c \in Calls, call \in [Calls -> CallStates]
  PROVE  /\ Acked(c) \in [Calls -> CallStates]
         /\ ~Holding(Acked(c)[c])
         /\ \A d \in Calls \ {c} : Acked(c)[d] = call[d]
<1>1. Idle \in CallStates /\ Idle.pc = "idle"
  BY DEF Idle, CallStates
<1>2. \A s \in CallStates : /\ [s EXCEPT !.pc = "subscribe"] \in CallStates
                            /\ [s EXCEPT !.pc = "subscribe"].pc = "subscribe"
  BY DEF CallStates
<1> QED
  BY <1>1, <1>2 DEF Acked, Holding

\* A wake-up moves no handler.
LEMMA PulsedTyped ==
  ASSUME call \in [Calls -> CallStates]
  PROVE  /\ Pulsed \in [Calls -> CallStates]
         /\ \A d \in Calls : Pulsed[d].pc = call[d].pc
<1>1. \A s \in CallStates : /\ [s EXCEPT !.woken = TRUE] \in CallStates
                            /\ [s EXCEPT !.woken = TRUE].pc = s.pc
  BY DEF CallStates
<1> QED
  BY <1>1 DEF Pulsed

\* A handler that goes from one await to the next.
LEMMA Advanced ==
  ASSUME NEW c \in Calls, call \in [Calls -> CallStates],
         NEW at \in {"idle", "send", "ack", "break", "write", "subscribe", "kick", "pulse"}
  PROVE  /\ [call EXCEPT ![c].pc = at] \in [Calls -> CallStates]
         /\ [call EXCEPT ![c].pc = at][c].pc = at
         /\ \A d \in Calls \ {c} : [call EXCEPT ![c].pc = at][d] = call[d]
<1>1. \A s \in CallStates : /\ [s EXCEPT !.pc = at] \in CallStates
                            /\ [s EXCEPT !.pc = at].pc = at
  BY DEF CallStates
<1> QED
  BY <1>1


\* The owner takes messages from the front of a channel.
LEMMA Dequeued ==
  ASSUME NEW S, NEW cap \in Nat, NEW q \in Seq(S), q # <<>>, Len(q) <= cap
  PROVE  /\ Head(q) \in S
         /\ Tail(q) \in Seq(S) /\ Len(Tail(q)) <= cap
OBVIOUS

\* Handlers add theirs at the end, once there is room.
LEMMA Enqueued ==
  ASSUME NEW S, NEW cap \in Nat, NEW q \in Seq(S), NEW e \in S, Len(q) < cap
  PROVE  Append(q, e) \in Seq(S) /\ Len(Append(q, e)) <= cap
OBVIOUS

\* Answering a call keeps who holds the owner alone, and starts no new hold.
LEMMA AckedAlone ==
  ASSUME TypeOK, HolderAlone, NEW c \in Calls, call' = Acked(c),
         \/ pc' = pc
         \/ pc \notin {"break", "write"}
         \/ Holding(call[c])
  PROVE  HolderAlone' /\ call' \in [Calls -> CallStates]
<1>1. call \in [Calls -> CallStates]
  BY DEF TypeOK
<1> QED
  BY <1>1, AckedTyped DEF HolderAlone, Holding

\* A handler that moves by itself does not hold the owner, nor does it begin to.
LEMMA MovedAlone ==
  ASSUME TypeOK, HolderAlone, NEW c \in Calls, pc' = pc,
         call' \in [Calls -> CallStates], ~Holding(call'[c]),
         \A d \in Calls \ {c} : call'[d] = call[d]
  PROVE  HolderAlone'
  BY DEF HolderAlone

-----------------------------------------------------------------------------
(* The owner between sessions.                                             *)

\* The daemon starts with the port closed, its settings those of the start.
LEMMA InvInit == Init => OwnerInv
<1> SUFFICES ASSUME Init PROVE OwnerInv
  OBVIOUS
<1>1. Idle \in CallStates /\ Idle.pc = "idle"
  BY DEF Idle, CallStates
<1>2. TypeOK
  <2>1. call \in [Calls -> CallStates]
    BY <1>1 DEF Init
  <2>2. /\ ctrl_rx \in Seq(Calls) /\ Len(ctrl_rx) <= CtrlCap
        /\ rx \in Seq(Calls) /\ Len(rx) <= WriteCap
    BY DEF Init
  <2> QED
    BY <2>1, <2>2 DEF Init, TypeOK, Configs
<1>3. HolderAlone
  BY <1>1 DEF Init, HolderAlone, Holding
<1>4. Closed /\ SnapshotFresh /\ SettingsInForce /\ DisconnectHolds /\ EventsTellState
  BY DEF Init, Closed, SnapshotFresh, SettingsInForce, DisconnectHolds,
         EventsTellState, RealBackend
<1> QED
  BY <1>2, <1>3, <1>4 DEF OwnerInv

\* Opening: the tty gets the settings of the snapshot, and everybody is told.
LEMMA OpenInv == ASSUME OwnerInv, OpenOk PROVE OwnerInv'
<1> USE DEF OwnerInv, OpenOk
<1>1. /\ call' \in [Calls -> CallStates]
      /\ \A d \in Calls : call'[d].pc = call[d].pc
  BY PulsedTyped DEF TypeOK
<1>2. HolderAlone'
  BY <1>1 DEF HolderAlone, Holding
<1>3. line = NoUpdate /\ ~connected /\ ~shut
  BY DEF Closed, DisconnectHolds
<1>4. /\ line' \in Configs \cup {NoUpdate} /\ drift' \in BOOLEAN
      /\ line' # NoUpdate /\ ~drift' => line' = snapshot /\ ~drift
  <2>1. CASE UNCHANGED <<line, drift>>
    BY <2>1, <1>3 DEF TypeOK
  <2>2. ASSUME NEW refused \in SUBSET (Fields \ {1}), Configure(refused)
        PROVE  <1>4
    <3>1. snapshot \in [Fields -> Values] /\ Default \in [Fields -> Values]
      BY DEF TypeOK, Configs
    <3>2. line' \in Configs
      BY <2>2, <3>1 DEF Configure, Configs
    <3>3. refused = {} => line' = snapshot
      BY <2>2, <3>1 DEF Configure
    <3> QED
      BY <2>2, <3>2, <3>3 DEF Configure, TypeOK
  <2> QED
    BY <2>1, <2>2
<1>5. TypeOK'
  BY <1>1, <1>4 DEF TypeOK
<1>6. SettingsInForce'
  BY <1>4 DEF SettingsInForce, RealBackend, SnapshotFresh
<1>7. Closed' /\ SnapshotFresh' /\ DisconnectHolds' /\ EventsTellState'
  BY <1>3 DEF Closed, SnapshotFresh, DisconnectHolds, EventsTellState
<1> QED
  BY <1>2, <1>5, <1>6, <1>7

\* Control messages while the port is closed: what may open it again opens it with
\* the settings of the moment, or says that it does not.
LEMMA ClosedControlInv == ASSUME OwnerInv, ClosedControl PROVE OwnerInv'
<1> USE DEF OwnerInv
<1> DEFINE c == Head(ctrl_rx)
<1>1. /\ pc \in {"wait", "parked"} /\ c \in Calls
      /\ ctrl_rx' \in Seq(Calls) /\ Len(ctrl_rx') <= CtrlCap
      /\ call' = Acked(c) /\ kicked' = FALSE
      /\ UNCHANGED <<plugged, connected, line, rx, seen>>
  BY Dequeued DEF ClosedControl, TypeOK
<1>2. HolderAlone' /\ call' \in [Calls -> CallStates]
  BY <1>1, AckedAlone
<1>3. line = NoUpdate /\ ~connected
  BY <1>1 DEF Closed
<1>4. call[c].want \in Updates \cup {NoUpdate} /\ cfg \in Configs
  BY <1>1 DEF TypeOK, CallStates
<1>5. /\ cfg' \in Configs /\ snapshot' \in Configs
      /\ {explicitly_disconnected', shut', drift'} \subseteq BOOLEAN
      /\ pc' \in {"open", "wait", "parked"}
      /\ pc' \in {"open", "wait"} /\ ~drift' => snapshot' = cfg'
      /\ shut' => pc' = "parked" /\ explicitly_disconnected'
  <2>1. CASE call[c].op = "apply"
    <3>1. /\ cfg' = Updated(call[c].want, cfg)
          /\ UNCHANGED <<explicitly_disconnected, shut>>
          /\ LeaveClosed(cfg', TRUE)
      BY <2>1 DEF ClosedControl
    <3>2. cfg' \in Configs
      BY <3>1, <1>4, UpdatedTyped
    <3> QED
      BY <1>1, <3>1, <3>2 DEF LeaveClosed, OpenNext, TypeOK, DisconnectHolds
  <2>2. CASE call[c].op \in {"line", "break"}
    <3>1. UNCHANGED <<pc, snapshot, cfg, explicitly_disconnected, shut, drift>>
      BY <2>2 DEF ClosedControl
    <3> QED
      BY <1>1, <3>1 DEF TypeOK, DisconnectHolds, SnapshotFresh
  <2>3. CASE call[c].op = "disconnect"
    BY <2>3, <1>1 DEF ClosedControl, TypeOK, DisconnectHolds, SnapshotFresh
  <2>4. CASE call[c].op = "connect"
    <3>1. /\ explicitly_disconnected' = FALSE /\ shut' = FALSE
          /\ cfg' = cfg /\ LeaveClosed(cfg, FALSE)
      BY <2>4 DEF ClosedControl
    <3> QED
      BY <1>1, <3>1 DEF LeaveClosed, OpenNext, TypeOK, SnapshotFresh
  <2> QED
    BY <2>1, <2>2, <2>3, <2>4 DEF ClosedControl
<1>6. TypeOK'
  BY <1>1, <1>2, <1>5 DEF TypeOK
<1>7. SnapshotFresh' /\ DisconnectHolds'
  BY <1>5 DEF SnapshotFresh, DisconnectHolds
<1>8. Closed' /\ SettingsInForce' /\ EventsTellState'
  BY <1>1, <1>3 DEF Closed, SettingsInForce, RealBackend, EventsTellState
<1> QED
  BY <1>2, <1>6, <1>7, <1>8

\* The rest of what the owner does while the port is closed.
LEMMA BetweenInv ==
  ASSUME OwnerInv, Resume \/ OpenFail \/ Retry \/ FailWrite
  PROVE  OwnerInv'
<1> USE DEF OwnerInv
<1>1. CASE Resume
  <2> USE <1>1 DEF Resume
  <2>1. TypeOK' /\ SnapshotFresh' /\ DisconnectHolds'
    BY DEF TypeOK, OpenNext, SnapshotFresh, DisconnectHolds
  <2>2. HolderAlone' /\ Closed' /\ SettingsInForce' /\ EventsTellState'
    BY DEF HolderAlone, Holding, Closed, SettingsInForce, RealBackend, EventsTellState
  <2> QED
    BY <2>1, <2>2
<1>2. CASE OpenFail
  <2> USE <1>2 DEF OpenFail
  <2>1. TypeOK' /\ SnapshotFresh' /\ DisconnectHolds'
    BY DEF TypeOK, SnapshotFresh, DisconnectHolds
  <2>2. HolderAlone' /\ Closed' /\ SettingsInForce' /\ EventsTellState'
    BY DEF HolderAlone, Holding, Closed, SettingsInForce, RealBackend, EventsTellState
  <2> QED
    BY <2>1, <2>2
<1>3. CASE Retry
  <2> USE <1>3 DEF Retry
  <2>1. TypeOK' /\ SnapshotFresh' /\ DisconnectHolds'
    BY DEF TypeOK, SnapshotFresh, DisconnectHolds
  <2>2. HolderAlone' /\ Closed' /\ SettingsInForce' /\ EventsTellState'
    BY DEF HolderAlone, Holding, Closed, SettingsInForce, RealBackend, EventsTellState
  <2> QED
    BY <2>1, <2>2
<1>4. CASE FailWrite
  <2>1. /\ Head(rx) \in Calls
        /\ rx' \in Seq(Calls) /\ Len(rx') <= WriteCap
    BY <1>4, Dequeued DEF FailWrite, TypeOK
  <2>2. HolderAlone' /\ call' \in [Calls -> CallStates]
    BY <1>4, <2>1, AckedAlone DEF FailWrite
  <2>3. TypeOK'
    BY <1>4, <2>1, <2>2 DEF FailWrite, TypeOK
  <2>4. Closed' /\ SettingsInForce' /\ EventsTellState' /\ SnapshotFresh' /\ DisconnectHolds'
    BY <1>4 DEF FailWrite, Closed, SettingsInForce, RealBackend, EventsTellState,
                SnapshotFresh, DisconnectHolds
  <2> QED
    BY <2>2, <2>3, <2>4
<1> QED
  BY <1>1, <1>2, <1>3, <1>4

-----------------------------------------------------------------------------
(* The owner in a session.                                                 *)

\* A session that ends closes the port and tells.
LEMMA SessionEndInv ==
  ASSUME OwnerInv, pc \in {"io", "write"}, EndSession, HolderAlone', ctrl_rx' \in Seq(Calls),
         Len(ctrl_rx') <= CtrlCap, rx' \in Seq(Calls), Len(rx') <= WriteCap,
         call' \in [Calls -> CallStates],
         UNCHANGED <<plugged, cfg, snapshot, drift>>,
         \/ UNCHANGED <<explicitly_disconnected, shut>>
         \/ explicitly_disconnected' = TRUE /\ shut' = TRUE
  PROVE  OwnerInv'
<1> USE DEF OwnerInv, EndSession
<1>1. TypeOK'
  BY DEF TypeOK
<1>2. Closed' /\ SnapshotFresh' /\ SettingsInForce' /\ EventsTellState'
  BY DEF Closed, SnapshotFresh, SettingsInForce, RealBackend, EventsTellState
<1>3. DisconnectHolds'
  BY DEF DisconnectHolds
<1> QED
  BY <1>1, <1>2, <1>3

\* An update in a session is in force and remembered, or in force in part and
\* owned up to.
LEMMA LiveApplyInv ==
  ASSUME OwnerInv, pc = "io", NEW c \in Calls, LiveApply(c)
  PROVE  /\ cfg' \in Configs /\ line' \in Configs \cup {NoUpdate}
         /\ drift' \in BOOLEAN
         /\ SettingsInForce'
<1> USE DEF OwnerInv
<1> DEFINE u == call[c].want
<1>1. u \in Updates \cup {NoUpdate} /\ cfg \in Configs /\ drift \in BOOLEAN
  BY DEF TypeOK, CallStates
<1>2. CASE /\ RealBackend
           /\ line' = Updated(u, line) /\ cfg' = Updated(u, cfg)
           /\ UNCHANGED drift
  <2>1. line \in Configs
    BY <1>2 DEF RealBackend, TypeOK
  <2>2. line' \in Configs /\ cfg' \in Configs
    BY <1>1, <1>2, <2>1, UpdatedTyped
  <2>3. line = cfg => line' = cfg'
    BY <1>2
  <2> QED
    BY <1>1, <1>2, <2>2, <2>3 DEF SettingsInForce
<1>3. CASE /\ RealBackend
           /\ \E k \in DOMAIN u : line' = Updated(Before(u, k), line)
           /\ drift' = TRUE
           /\ UNCHANGED cfg
  <2>1. line \in Configs
    BY <1>3 DEF RealBackend, TypeOK
  <2>2. line' \in Configs
    BY <1>1, <1>3, <2>1, RefusedTyped
  <2> QED
    BY <1>1, <1>3, <2>2 DEF SettingsInForce
<1>4. CASE ~RealBackend /\ cfg' = Updated(u, cfg) /\ UNCHANGED <<line, drift>>
  <2>1. cfg' \in Configs
    BY <1>1, <1>4, UpdatedTyped
  <2> QED
    BY <1>1, <1>4, <2>1 DEF SettingsInForce, RealBackend, TypeOK
<1> QED
  BY <1>2, <1>3, <1>4 DEF LiveApply

\* Control messages in a session.
LEMMA LiveControlInv == ASSUME OwnerInv, LiveControl PROVE OwnerInv'
<1> USE DEF OwnerInv
<1> DEFINE c == Head(ctrl_rx)
<1>1. /\ pc = "io" /\ c \in Calls
      /\ ctrl_rx' \in Seq(Calls) /\ Len(ctrl_rx') <= CtrlCap
      /\ rx' = rx /\ rx \in Seq(Calls) /\ Len(rx) <= WriteCap
      /\ UNCHANGED <<plugged, snapshot>>
      /\ call \in [Calls -> CallStates]
  BY Dequeued DEF LiveControl, TypeOK
<1>2. ASSUME call' = Acked(c)
      PROVE  HolderAlone' /\ call' \in [Calls -> CallStates]
  BY <1>1, <1>2, AckedAlone
<1>3. CASE LiveApply(c)
  <2>1. UNCHANGED <<pc, connected, explicitly_disconnected, seen, shut, kicked>>
    BY <1>3 DEF LiveApply
  <2>2. HolderAlone' /\ call' \in [Calls -> CallStates]
    BY <1>2, <1>3 DEF LiveApply
  <2>3. /\ cfg' \in Configs /\ line' \in Configs \cup {NoUpdate}
        /\ drift' \in BOOLEAN /\ SettingsInForce'
    BY <1>1, <1>3, LiveApplyInv
  <2>4. TypeOK'
    BY <1>1, <2>1, <2>2, <2>3 DEF TypeOK
  <2>5. Closed' /\ SnapshotFresh' /\ DisconnectHolds' /\ EventsTellState'
    BY <1>1, <2>1 DEF Closed, SnapshotFresh, DisconnectHolds, EventsTellState
  <2> QED
    BY <2>2, <2>3, <2>4, <2>5
<1>4. CASE LiveLine(c)
  <2>1. UNCHANGED <<pc, connected, explicitly_disconnected, cfg, line, seen, shut,
                    drift, kicked>>
    BY <1>4 DEF LiveLine
  <2>2. HolderAlone' /\ call' \in [Calls -> CallStates]
    BY <1>2, <1>4 DEF LiveLine
  <2>3. TypeOK'
    BY <1>1, <2>1, <2>2 DEF TypeOK
  <2>4. Closed' /\ SnapshotFresh' /\ DisconnectHolds' /\ EventsTellState' /\ SettingsInForce'
    BY <1>1, <2>1 DEF Closed, SnapshotFresh, DisconnectHolds, EventsTellState,
                      SettingsInForce, RealBackend
  <2> QED
    BY <2>2, <2>3, <2>4
<1>5. CASE LiveBreak(c)
  <2>1. /\ pc' = "break"
        /\ UNCHANGED <<connected, explicitly_disconnected, cfg, line, seen, shut,
                       drift, kicked>>
    BY <1>5 DEF LiveBreak
  <2>2. /\ call' \in [Calls -> CallStates] /\ call'[c].pc = "break"
        /\ \A d \in Calls \ {c} : call'[d] = call[d]
    BY ZenonT(40), <1>1, <1>5, Advanced DEF LiveBreak
  <2>3. HolderAlone'
    BY <1>1, <2>1, <2>2 DEF HolderAlone, Holding
  <2>4. TypeOK'
    BY <1>1, <2>1, <2>2 DEF TypeOK
  <2>5. Closed' /\ SnapshotFresh' /\ DisconnectHolds' /\ EventsTellState' /\ SettingsInForce'
    BY <1>1, <2>1 DEF Closed, SnapshotFresh, DisconnectHolds, EventsTellState,
                      SettingsInForce, RealBackend
  <2> QED
    BY <2>3, <2>4, <2>5
<1>6. CASE LiveDisconnect(c)
  <2>1. HolderAlone' /\ call' \in [Calls -> CallStates]
    BY <1>2, <1>6 DEF LiveDisconnect
  <2> QED
    BY <1>1, <1>6, <2>1, SessionEndInv DEF LiveDisconnect
<1>7. CASE LiveConnect(c)
  <2>1. /\ explicitly_disconnected' = FALSE /\ shut' = FALSE
        /\ UNCHANGED <<pc, connected, cfg, line, seen, drift, kicked>>
    BY <1>7 DEF LiveConnect
  <2>2. HolderAlone' /\ call' \in [Calls -> CallStates]
    BY <1>2, <1>7 DEF LiveConnect
  <2>3. TypeOK'
    BY <1>1, <2>1, <2>2 DEF TypeOK
  <2>4. Closed' /\ SnapshotFresh' /\ DisconnectHolds' /\ EventsTellState' /\ SettingsInForce'
    BY <1>1, <2>1 DEF Closed, SnapshotFresh, DisconnectHolds, EventsTellState,
                      SettingsInForce, RealBackend
  <2> QED
    BY <2>2, <2>3, <2>4
<1> QED
  BY <1>3, <1>4, <1>5, <1>6, <1>7 DEF LiveControl

\* The end of a break finds the session that it began in.
LEMMA BreakDoneInv ==
  ASSUME OwnerInv, NEW c \in Calls, BreakDone(c)
  PROVE  OwnerInv'
<1> USE DEF OwnerInv
<1>1. /\ call[c].pc = "break" /\ pc = "break" /\ pc' = "io"
      /\ UNCHANGED <<plugged, connected, explicitly_disconnected, cfg, snapshot, line,
                     ctrl_rx, rx, kicked, seen, shut, drift>>
  BY DEF BreakDone, HolderAlone, Holding
<1>2. HolderAlone' /\ call' \in [Calls -> CallStates]
  BY <1>1, AckedAlone DEF BreakDone, Holding
<1>3. TypeOK'
  BY <1>1, <1>2 DEF TypeOK
<1>4. Closed' /\ SnapshotFresh' /\ DisconnectHolds' /\ EventsTellState' /\ SettingsInForce'
  BY <1>1 DEF Closed, SnapshotFresh, DisconnectHolds, EventsTellState,
              SettingsInForce, RealBackend
<1> QED
  BY <1>2, <1>3, <1>4

\* So does the end of a write, which may be the end of that session.
LEMMA WriteDoneInv ==
  ASSUME OwnerInv, NEW c \in Calls, WriteDone(c)
  PROVE  OwnerInv'
<1> USE DEF OwnerInv
<1>1. /\ call[c].pc = "write" /\ pc = "write"
      /\ UNCHANGED <<plugged, explicitly_disconnected, cfg, snapshot, ctrl_rx, rx, shut,
                     drift>>
  BY DEF WriteDone, HolderAlone, Holding
<1>2. HolderAlone' /\ call' \in [Calls -> CallStates]
  BY <1>1, AckedAlone DEF WriteDone, Holding
<1>3. CASE pc' = "io" /\ UNCHANGED <<connected, line, seen, kicked>>
  <2>1. TypeOK'
    BY <1>1, <1>2, <1>3 DEF TypeOK
  <2>2. Closed' /\ SnapshotFresh' /\ DisconnectHolds' /\ EventsTellState' /\ SettingsInForce'
    BY <1>1, <1>3 DEF Closed, SnapshotFresh, DisconnectHolds, EventsTellState,
                      SettingsInForce, RealBackend
  <2> QED
    BY <1>2, <2>1, <2>2
<1>4. CASE EndSession
  BY <1>1, <1>2, <1>4, SessionEndInv DEF TypeOK
<1> QED
  BY <1>3, <1>4 DEF WriteDone

\* Kicks, the beginning of a write, and reads.
LEMMA SessionInv ==
  ASSUME OwnerInv, Forced \/ LiveWrite \/ ReadEnds
  PROVE  OwnerInv'
<1> USE DEF OwnerInv
<1>1. ASSUME pc = "io", EndSession,
             UNCHANGED <<plugged, explicitly_disconnected, cfg, snapshot, ctrl_rx, rx,
                         call, shut, drift>>
      PROVE  OwnerInv'
  <2>1. HolderAlone'
    BY <1>1 DEF HolderAlone, Holding, EndSession
  <2> QED
    BY <1>1, <2>1, SessionEndInv DEF TypeOK
<1>2. CASE LiveWrite
  <2> DEFINE c == Head(rx)
  <2>1. /\ pc = "io" /\ pc' = "write" /\ c \in Calls
        /\ rx' \in Seq(Calls) /\ Len(rx') <= WriteCap
        /\ call \in [Calls -> CallStates]
        /\ UNCHANGED <<plugged, connected, explicitly_disconnected, cfg, snapshot, line,
                       ctrl_rx, kicked, seen, shut, drift>>
    BY <1>2, Dequeued DEF LiveWrite, TypeOK
  <2>2. /\ call' \in [Calls -> CallStates] /\ call'[c].pc = "write"
        /\ \A d \in Calls \ {c} : call'[d] = call[d]
    BY ZenonT(40), <1>2, <2>1, Advanced DEF LiveWrite
  <2>3. HolderAlone'
    BY <2>1, <2>2 DEF HolderAlone, Holding
  <2>4. TypeOK'
    BY <2>1, <2>2 DEF TypeOK
  <2>5. Closed' /\ SnapshotFresh' /\ DisconnectHolds' /\ EventsTellState' /\ SettingsInForce'
    BY <2>1 DEF Closed, SnapshotFresh, DisconnectHolds, EventsTellState,
                SettingsInForce, RealBackend
  <2> QED
    BY <2>3, <2>4, <2>5
<1> QED
  BY <1>1, <1>2 DEF Forced, ReadEnds

-----------------------------------------------------------------------------
(* The device and the handlers.                                            *)

\* A handler that moves by itself changes no more than its place, the channels
\* and the kick, and of those the owner's state does not depend.
LEMMA HandlerInv ==
  ASSUME OwnerInv, NEW c \in Calls, Handler(c)
  PROVE  OwnerInv'
<1> USE DEF OwnerInv
<1>1. call \in [Calls -> CallStates]
  BY DEF TypeOK
<1>2. ASSUME UNCHANGED <<pc, connected, explicitly_disconnected, cfg, snapshot, line,
                         seen, shut, drift, plugged>>,
             kicked' \in BOOLEAN,
             ctrl_rx' \in Seq(Calls), Len(ctrl_rx') <= CtrlCap,
             rx' \in Seq(Calls), Len(rx') <= WriteCap,
             call' \in [Calls -> CallStates], ~Holding(call'[c]),
             \A d \in Calls \ {c} : call'[d] = call[d]
      PROVE  OwnerInv'
  <2>1. HolderAlone'
    BY <1>2, MovedAlone
  <2>2. TypeOK'
    BY <1>2 DEF TypeOK
  <2>3. Closed' /\ SnapshotFresh' /\ DisconnectHolds' /\ EventsTellState' /\ SettingsInForce'
    BY <1>2 DEF Closed, SnapshotFresh, DisconnectHolds, EventsTellState,
                SettingsInForce, RealBackend
  <2> QED
    BY <2>1, <2>2, <2>3
<1>3. /\ kicked \in BOOLEAN
      /\ ctrl_rx \in Seq(Calls) /\ Len(ctrl_rx) <= CtrlCap
      /\ rx \in Seq(Calls) /\ Len(rx) <= WriteCap
  BY DEF TypeOK
<1>4. /\ Idle \in CallStates /\ Idle.pc = "idle"
      /\ [call EXCEPT ![c] = Idle] \in [Calls -> CallStates]
      /\ [call EXCEPT ![c] = Idle][c] = Idle
      /\ \A d \in Calls \ {c} : [call EXCEPT ![c] = Idle][d] = call[d]
  <2>1. Idle \in CallStates /\ Idle.pc = "idle"
    BY DEF Idle, CallStates
  <2> QED
    BY <1>1, <2>1
<1>5. CASE Call(c)
  <2>1. PICK op \in Ops[c], u \in Updates \cup {NoUpdate} :
          call' = [call EXCEPT ![c] =
            [op |-> op, want |-> u, woken |-> FALSE,
             pc |-> IF op = "reconnect" THEN "kick" ELSE "send"]]
    BY <1>5 DEF Call
  <2>2. /\ [op |-> op, want |-> u, woken |-> FALSE,
            pc |-> IF op = "reconnect" THEN "kick" ELSE "send"] \in CallStates
        /\ [op |-> op, want |-> u, woken |-> FALSE,
            pc |-> IF op = "reconnect" THEN "kick" ELSE "send"].pc \notin {"break", "write"}
    BY DEF CallStates
  <2>3. /\ call' \in [Calls -> CallStates] /\ ~Holding(call'[c])
        /\ \A d \in Calls \ {c} : call'[d] = call[d]
    BY <1>1, <2>1, <2>2 DEF Holding
  <2> QED
    BY <1>2, <1>3, <1>5, <2>3 DEF Call, ownerVars
<1>6. CASE Enqueue(c)
  <2>1. /\ call' \in [Calls -> CallStates] /\ call'[c].pc = "ack"
        /\ \A d \in Calls \ {c} : call'[d] = call[d]
    BY ZenonT(40), <1>1, <1>6, Advanced DEF Enqueue
  <2>2. /\ ctrl_rx' \in Seq(Calls) /\ Len(ctrl_rx') <= CtrlCap
        /\ rx' \in Seq(Calls) /\ Len(rx') <= WriteCap
    <3>1. CASE ctrl_rx' = Append(ctrl_rx, c) /\ Len(ctrl_rx) < CtrlCap /\ rx' = rx
      BY <1>3, <3>1, Enqueued
    <3>2. CASE rx' = Append(rx, c) /\ Len(rx) < WriteCap /\ ctrl_rx' = ctrl_rx
      BY <1>3, <3>2, Enqueued
    <3> QED
      BY <1>6, <3>1, <3>2 DEF Enqueue
  <2> QED
    BY <1>2, <1>3, <1>6, <2>1, <2>2 DEF Enqueue, ownerVars, Holding
<1>7. CASE Kick(c)
  <2>1. /\ call' \in [Calls -> CallStates] /\ ~Holding(call'[c])
        /\ \A d \in Calls \ {c} : call'[d] = call[d]
    <3>1. CASE call' = [call EXCEPT ![c].pc = "pulse"]
      <4>1. /\ call' \in [Calls -> CallStates] /\ call'[c].pc = "pulse"
            /\ \A d \in Calls \ {c} : call'[d] = call[d]
        BY ZenonT(40), <1>1, <3>1, Advanced
      <4> QED
        BY <4>1 DEF Holding
    <3>2. CASE call' = [call EXCEPT ![c] = Idle]
      BY <1>4, <3>2 DEF Holding
    <3> QED
      BY <1>7, <3>1, <3>2 DEF Kick
  <2>2. kicked' \in BOOLEAN
    BY <1>3, <1>7 DEF Kick
  <2> QED
    BY <1>2, <1>3, <1>7, <2>1, <2>2 DEF Kick
<1>8. CASE Subscribe(c)
  <2>1. /\ call' \in [Calls -> CallStates] /\ call'[c].pc = "pulse"
        /\ \A d \in Calls \ {c} : call'[d] = call[d]
    BY ZenonT(40), <1>1, <1>8, Advanced DEF Subscribe
  <2> QED
    BY <1>2, <1>3, <1>8, <2>1 DEF Subscribe, ownerVars, Holding
<1>9. CASE Finish(c)
  <2>1. /\ call' \in [Calls -> CallStates] /\ ~Holding(call'[c])
        /\ \A d \in Calls \ {c} : call'[d] = call[d]
    BY <1>4, <1>9 DEF Finish, Holding
  <2> QED
    BY <1>2, <1>3, <1>9, <2>1 DEF Finish, ownerVars
<1> QED
  BY <1>5, <1>6, <1>7, <1>8, <1>9 DEF Handler

\* Steps that change nothing of the owner's, the device's coming and going
\* included.
LEMMA PlugInv == ASSUME OwnerInv, Plug \/ UNCHANGED vars PROVE OwnerInv'
<1> USE DEF OwnerInv, ownerVars, vars
<1>1. /\ UNCHANGED <<ownerVars, ctrl_rx, rx, call>>
      /\ plugged' \in BOOLEAN
  BY DEF Plug, TypeOK
<1>2. TypeOK'
  BY <1>1 DEF TypeOK
<1>3. HolderAlone' /\ Closed' /\ SnapshotFresh' /\ SettingsInForce'
  BY <1>1 DEF HolderAlone, Holding, Closed, SnapshotFresh, SettingsInForce, RealBackend
<1>4. DisconnectHolds' /\ EventsTellState'
  BY <1>1 DEF DisconnectHolds, EventsTellState
<1> QED
  BY <1>2, <1>3, <1>4

\* No step breaks the invariant.
LEMMA InvNext == OwnerInv /\ [Next]_vars => OwnerInv'
<1> SUFFICES ASSUME OwnerInv, [Next]_vars PROVE OwnerInv'
  OBVIOUS
<1>1. CASE Owner
  BY <1>1, OpenInv, ClosedControlInv, BetweenInv, LiveControlInv, BreakDoneInv,
     WriteDoneInv, SessionInv DEF Owner
<1>2. CASE Plug \/ UNCHANGED vars
  BY <1>2, PlugInv
<1>3. CASE \E c \in Calls : Handler(c)
  BY <1>3, HandlerInv
<1> QED
  BY <1>1, <1>2, <1>3 DEF Next

\* The invariant holds throughout.
LEMMA OwnerInvariant == Spec => []OwnerInv
  BY InvInit, InvNext, PTL DEF Spec

-----------------------------------------------------------------------------
(* The theorems.                                                           *)

\* The state keeps its shape; neither channel ever holds more than its capacity.
THEOREM TypeCorrect == Spec => []TypeOK
<1>1. OwnerInv => TypeOK
  BY DEF OwnerInv
<1> QED
  BY <1>1, OwnerInvariant, PTL

\* An open tty runs with the settings the daemon believes it has, through any
\* number of outages, updates and reopens, unless one was refused or came between
\* two attempts to open (apply_to_real, the snapshot before each open).
THEOREM SettingsSafe == Spec => []SettingsInForce
<1>1. OwnerInv => SettingsInForce
  BY DEF OwnerInv
<1> QED
  BY <1>1, OwnerInvariant, PTL

\* Whatever clients call and in whichever order, the port that a disconnect_device
\* closed is not opened before a connect_device (the park loop).
THEOREM DisconnectSafe == Spec => []DisconnectHolds
<1>1. OwnerInv => DisconnectHolds
  BY DEF OwnerInv
<1> QED
  BY <1>1, OwnerInvariant, PTL

\* The last event that was sent says whether the port is open.
THEOREM EventsSafe == Spec => []EventsTellState
<1>1. OwnerInv => EventsTellState
  BY DEF OwnerInv
<1> QED
  BY <1>1, OwnerInvariant, PTL

=============================================================================
