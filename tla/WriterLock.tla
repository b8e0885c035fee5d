----------------------------- MODULE WriterLock -----------------------------
(***************************************************************************)
(* The writer lock of one device (tetherd/state.rs, WriterLock) and every  *)
(* handler of tetherd/handlers.rs that takes, checks or frees it, run by   *)
(* the dispatch loop of tetherd/conn.rs.                                   *)
(*                                                                         *)
(* A request is carried out by a task.  `run`, `lock` and those that wait  *)
(* for the device are spawned (is_blocking_method), so any number of them  *)
(* interleave; `send`, `unlock` and `detach` are awaited inline, one at a  *)
(* time per connection.                                                    *)
(* Each critical section of the holder mutex is one action; what a task    *)
(* does between two critical sections is a value of its pc.                *)
(***************************************************************************)
CONSTANTS
  Sessions,    \* the sessions bound to this device, attached when we start
  NoSession,   \* stands for `holder == None`
  Conns,       \* client connections
  ConnOf,      \* the connection each session belongs to
  Tasks,       \* bound: the requests that may be in flight at once, ...
  Serves,      \* ... and the connection each of them comes from
  Preempts,    \* the `preempt` values clients ask for
  Pipelined,   \* may a client send before its last request was answered?
  MayClose,    \* may a client go away?
  MayReset,    \* may the daemon's write to a client that went away fail?
  Timed        \* does every `run` and `expect` carry a timeout_ms?

ASSUME WriterLockConstants ==
  /\ NoSession \notin Sessions
  /\ ConnOf \in [Sessions -> Conns]
  /\ Serves \in [Tasks -> Conns]
  /\ Preempts \subseteq {"queue", "fail", "force"}
  /\ {Pipelined, MayClose, MayReset, Timed} \subseteq BOOLEAN

VARIABLES
  holder,      \* WriterLock.holder
  task,        \* the handler futures in flight
  attached,    \* sessions in the registry and in their connection's set
  conn,        \* "open", or "eof" once the dispatch loop has ended
  late,        \* history: connections whose send reached the wire during
               \* another session's current exclusive hold
  seized,      \* history: transactions under way when `force`, or the end of
               \* their connection, took the lock from their session
  orphans      \* history: sessions that were removed while a `lock` of theirs
               \* had yet to be granted

vars == <<holder, task, attached, conn, late, seized, orphans>>

Contenders == {"run", "lock"}

\* The spawned methods.  "expect" stands for `reconnect` as well: they touch
\* no lock, but hold a sender of the connection for as long as they wait.
Blocking == Contenders \cup {"expect"}

Free == [sid |-> NoSession, exclusive |-> FALSE]

Idle == [op |-> "none", sess |-> NoSession, pre |-> "fail", pc |-> "idle"]

\* `pre` matters to acquire_lock only and is "fail" elsewhere.
Request(op, s, pre, pc) == [op |-> op, sess |-> s, pre |-> pre, pc |-> pc]

\* Where a task is between check_session and the grant of the lock.
Asking == {"acquire", "force", "park", "parked"}

Pcs == {"idle", "start", "wait", "txn", "write"} \cup Asking

Requests == [op: Blocking \cup {"send", "none"}, sess: Sessions \cup {NoSession},
             pre: {"queue", "fail", "force"}, pc: Pcs]

\* The shape of the state, for any clients.
TypeOK ==
  /\ holder \in [sid: Sessions \cup {NoSession}, exclusive: BOOLEAN]
  /\ task \in [Tasks -> Requests]
  /\ attached \in SUBSET Sessions
  /\ conn \in [Conns -> {"open", "eof"}]
  /\ late \in SUBSET Conns
  /\ seized \in SUBSET Tasks
  /\ orphans \in SUBSET Sessions

Init ==
  /\ holder = Free
  /\ task = [t \in Tasks |-> Idle]
  /\ attached = Sessions
  /\ conn = [c \in Conns |-> "open"]
  /\ late = {}
  /\ seized = {}
  /\ orphans = {}

-----------------------------------------------------------------------------
(* The holder mutex and the `released` Notify.                             *)

InFlight(c) == {t \in Tasks : Serves[t] = c /\ task[t].pc # "idle"}

Txn == {t \in Tasks : task[t].pc = "txn"}

\* notify_waiters wakes exactly the futures created before it: the parked
\* tasks, not one that has yet to reach `notified()`.
NotifyWaiters(tasks) ==
  [t \in Tasks |-> IF tasks[t].pc = "parked"
                   THEN [tasks[t] EXCEPT !.pc = "acquire"]
                   ELSE tasks[t]]

HeldByOther(s) == holder.sid \notin {NoSession, s}

ExclusivelyLockedFor(s) == holder.exclusive /\ HeldByOther(s)

\* `late` belongs to one exclusive hold.
ForgetLate == late' = IF holder' = holder THEN late ELSE {}

\* Fault: the task of a granted `lock` never completes.
GrantedUnanswered(t) ==
  task' = [task EXCEPT ![t] =
             IF @.op = "run" THEN Request("run", @.sess, "fail", "txn")
                             ELSE [@ EXCEPT !.pc = "granted"]]

\* The lock was granted: `lock` answers, `run` enters its transaction.
Granted(t) ==
  task' = [task EXCEPT ![t] =
             IF @.op = "run" THEN Request("run", @.sess, "fail", "txn") ELSE Idle]

\* Re-entry by the holder's session upgrades the hold, or leaves it alone.
\* Fault: it becomes whatever was asked for last.
ReenteredAsAsked(exclusive) == [holder EXCEPT !.exclusive = exclusive]
Reentered(exclusive) == [holder EXCEPT !.exclusive = @ \/ exclusive]

\* Fault: the lock is freed whoever holds it.
ReleaseAny(s, tasks) ==
  holder' = Free /\ task' = NotifyWaiters(tasks)

\* release_lock_if_holder, with the caller's task table.
ReleaseIfHolder(s, tasks) ==
  IF holder.sid = s
  THEN holder' = Free /\ task' = NotifyWaiters(tasks)
  ELSE holder' = holder /\ task' = tasks

\* Fault: the guard of `run` frees nothing.
GuardForgotten(s, tasks) == holder' = holder /\ task' = tasks

\* Fault: the guard of `run` frees its session's hold, even an exclusive one.
GuardSevers(s, tasks) == ReleaseIfHolder(s, tasks)

\* As above with release_transient_hold: only a hold that is still transient.
ReleaseTransient(s, tasks) ==
  IF holder = [sid |-> s, exclusive |-> FALSE]
  THEN holder' = Free /\ task' = NotifyWaiters(tasks)
  ELSE holder' = holder /\ task' = tasks

-----------------------------------------------------------------------------
(* The dispatch loop.                                                      *)

\* Fault: `send` is spawned like the blocking methods.
AcceptsWhileSending(c) ==
  /\ conn[c] = "open"
  /\ Pipelined \/ InFlight(c) = {}

\* The loop reads the next request only when no inline handler is awaited; a
\* client that does not pipeline also waits for the answer to its last one.
Accepts(c) ==
  /\ conn[c] = "open"
  /\ \A t \in InFlight(c) : task[t].op \in Blocking
  /\ Pipelined \/ InFlight(c) = {}

Spawn(t, s) ==
  /\ ConnOf[s] = Serves[t]
  /\ Accepts(Serves[t])
  /\ task[t] = Idle
  /\ \/ \E op \in Contenders, pre \in Preempts :
          task' = [task EXCEPT ![t] = Request(op, s, pre, "start")]
     \/ task' = [task EXCEPT ![t] = Request("expect", s, "fail", "start")]
  /\ UNCHANGED <<holder, attached, conn, late, seized, orphans>>

\* check_session of a spawned method, some time after the request was
\* dispatched.
Start(t) ==
  /\ task[t].pc = "start"
  /\ task' = [task EXCEPT ![t] =
       IF @.sess \notin attached THEN Idle
       ELSE IF @.op = "expect"    THEN [@ EXCEPT !.pc = "wait"]
                                  ELSE [@ EXCEPT !.pc = "acquire"]]
  /\ UNCHANGED <<holder, attached, conn, late, seized, orphans>>

\* What an `expect` waits for comes, or its timeout strikes.
WaitEnd(t) ==
  /\ task[t].pc = "wait"
  /\ task' = [task EXCEPT ![t] = Idle]
  /\ UNCHANGED <<holder, attached, conn, late, seized, orphans>>

\* First critical section of acquire_lock: take a free lock, re-enter (and
\* perhaps upgrade) one's own hold, or go by `preempt`.
Acquire(t) ==
  LET s == task[t].sess
      exclusive == task[t].op = "lock"
  IN
  /\ task[t].pc = "acquire"
  /\ \/ /\ holder.sid = NoSession
        /\ holder' = [sid |-> s, exclusive |-> exclusive]
        /\ Granted(t)
     \/ /\ holder.sid = s
        /\ holder' = Reentered(exclusive)
        /\ Granted(t)
     \/ /\ HeldByOther(s)
        /\ task' = [task EXCEPT ![t] =
             CASE @.pre = "fail"  -> Idle
               [] @.pre = "force" -> [@ EXCEPT !.pc = "force"]
               [] @.pre = "queue" -> [@ EXCEPT !.pc = "park"]]
        /\ UNCHANGED holder
  /\ ForgetLate
  /\ UNCHANGED <<attached, conn, seized, orphans>>

\* Second critical section: whoever holds the lock by now is replaced.  The
\* holder's transaction is not aborted and no waiter is notified.
ForceTake(t) ==
  /\ task[t].pc = "force"
  /\ holder' = [sid |-> task[t].sess, exclusive |-> task[t].op = "lock"]
  /\ seized' = seized \cup {u \in Txn : task[u].sess # task[t].sess}
  /\ Granted(t)
  /\ ForgetLate
  /\ UNCHANGED <<attached, conn, orphans>>

\* `lock.released.notified()` is created, after the mutex was dropped.
Park(t) ==
  /\ task[t].pc = "park"
  /\ task' = [task EXCEPT ![t].pc = "parked"]
  /\ UNCHANGED <<holder, attached, conn, late, seized, orphans>>

\* A transaction ends (match, timeout, overflow or a failed write) and its
\* LockGuard is dropped.
RunEnd(t) ==
  /\ task[t].pc = "txn"
  /\ ReleaseTransient(task[t].sess, [task EXCEPT ![t] = Idle])
  /\ seized' = seized \ {t}
  /\ ForgetLate
  /\ UNCHANGED <<attached, conn, orphans>>

\* An accepted `send`: reject_if_exclusively_locked has let it pass and the
\* dispatch loop awaits the device writer.
Send(t, s) ==
  /\ ConnOf[s] = Serves[t]
  /\ Accepts(Serves[t])
  /\ s \in attached
  /\ task[t] = Idle
  /\ ~ExclusivelyLockedFor(s)
  /\ task' = [task EXCEPT ![t] = Request("send", s, "fail", "write")]
  /\ UNCHANGED <<holder, attached, conn, late, seized, orphans>>

\* The owner task writes the bytes, or fails the job.
SendWritten(t) ==
  /\ task[t].pc = "write"
  /\ late' = IF ExclusivelyLockedFor(task[t].sess) THEN late \cup {Serves[t]}
                                                  ELSE late
  /\ task' = [task EXCEPT ![t] = Idle]
  /\ UNCHANGED <<holder, attached, conn, seized, orphans>>

Unlock(s) ==
  /\ Accepts(ConnOf[s])
  /\ s \in attached
  /\ ReleaseIfHolder(s, task)
  /\ ForgetLate
  /\ UNCHANGED <<attached, conn, seized, orphans>>

\* Fault: detach forgets the session and leaves its lock.
DetachKeepsLock(s) ==
  /\ Accepts(ConnOf[s])
  /\ s \in attached
  /\ attached' = attached \ {s}
  /\ UNCHANGED <<holder, task, conn, late, seized, orphans>>

\* detach frees the lock, then forgets the session.  A task that read the
\* registry between the two could as well have read it before the first:
\* only Start reads it, so the handler is one step.
Detach(s) ==
  /\ Accepts(ConnOf[s])
  /\ s \in attached
  /\ ReleaseIfHolder(s, task)
  /\ attached' = attached \ {s}
  /\ ForgetLate
  /\ UNCHANGED <<conn, seized, orphans>>

-----------------------------------------------------------------------------
(* The end of a connection.                                                *)

\* The dispatch loop reads the end of the stream.
Eof(c) ==
  /\ MayClose
  /\ conn[c] = "open"
  /\ \A t \in InFlight(c) : task[t].op \in Blocking
  /\ conn' = [conn EXCEPT ![c] = "eof"]
  /\ UNCHANGED <<holder, task, attached, late, seized, orphans>>

\* The cleanup starts when `writer_task.await` returns: every spawned task
\* has dropped its sender, or a message still queued for a client that is
\* gone made `sink.send` fail.  The connection's sessions then go one by one.
\* After a failed write, tasks of theirs may still be under way, and go on.
Drained(c) == InFlight(c) = {}

Unanswered(s) == {t \in Tasks : /\ task[t].sess = s /\ task[t].op = "lock"
                                /\ task[t].pc \in Asking}

\* What a removed session leaves behind.
Orphan(s) ==
  /\ seized' = seized \cup {t \in Txn : task[t].sess = s}
  /\ orphans' = IF Unanswered(s) = {} THEN orphans ELSE orphans \cup {s}

\* Fault: the cleanup forgets the session and leaves its lock.
CleanupKeepsLock(s) ==
  /\ conn[ConnOf[s]] = "eof"
  /\ MayReset \/ Drained(ConnOf[s])
  /\ s \in attached
  /\ attached' = attached \ {s}
  /\ Orphan(s)
  /\ UNCHANGED <<holder, task, conn, late>>

Cleanup(s) ==
  /\ conn[ConnOf[s]] = "eof"
  /\ MayReset \/ Drained(ConnOf[s])
  /\ s \in attached
  /\ ReleaseIfHolder(s, task)
  /\ attached' = attached \ {s}
  /\ Orphan(s)
  /\ ForgetLate
  /\ UNCHANGED conn

-----------------------------------------------------------------------------
Next ==
  \/ \E t \in Tasks : \/ Start(t) \/ WaitEnd(t) \/ Acquire(t) \/ ForceTake(t)
                      \/ Park(t) \/ RunEnd(t) \/ SendWritten(t)
  \/ \E t \in Tasks, s \in Sessions : Spawn(t, s) \/ Send(t, s)
  \/ \E s \in Sessions : Unlock(s) \/ Detach(s) \/ Cleanup(s)
  \/ \E c \in Conns : Eof(c)

Spec == Init /\ [][Next]_vars

\* The runtime polls every ready future, the owner answers every write job,
\* and what has a timeout ends.  A teardown goes on once everything of its
\* connection has ended; that a write to a dead client fails is never owed.
\* Clients owe nothing.
Fairness ==
  /\ \A t \in Tasks : /\ WF_vars(Start(t)) /\ WF_vars(Acquire(t))
                      /\ WF_vars(ForceTake(t)) /\ WF_vars(Park(t))
                      /\ WF_vars(SendWritten(t))
                      /\ Timed => WF_vars(RunEnd(t)) /\ WF_vars(WaitEnd(t))
  /\ \A s \in Sessions : WF_vars(Drained(ConnOf[s]) /\ Cleanup(s))

FairSpec == Spec /\ Fairness

-----------------------------------------------------------------------------
(* What holds for any clients.                                             *)

\* A transient hold is always that of a transaction still in flight, so it
\* cannot outlive the guard that frees it, whatever forces, re-entries,
\* unlocks and teardowns happened meanwhile (LockGuard, handlers.rs).
TransientHoldBacked ==
  holder.sid # NoSession /\ ~holder.exclusive =>
    \E t \in Txn : task[t].sess = holder.sid

\* While one exclusive hold lasts, a connection gets at most one send of
\* another session to the wire: the one its dispatch loop had let pass.
OneLateSend ==
  \A t \in Tasks : task[t].pc = "write" /\ ExclusivelyLockedFor(task[t].sess)
                     => Serves[t] \notin late

-----------------------------------------------------------------------------
(* What holds for clients that send a connection's next `run`, `lock` or   *)
(* `unlock` only when the one before was answered, as the commands of      *)
(* `tether` do.  They may be killed at any time.                           *)

Patient == ~Pipelined

\* Transactions exclude each other, and each runs under its session's hold,
\* until a `force` seizes the lock from it, or the end of its connection frees
\* it ("holds the writer lock for the duration", docs/PROTOCOL.md; the
\* LockGuard of `run`).
RunExclusion ==
  \A t \in Txn \ seized : /\ holder.sid = task[t].sess
                          /\ \A u \in Txn \ seized : u = t

\* An exclusive hold is that of a session that can still unlock it, or whose
\* own `lock` was waiting when the session was removed: there is no other way
\* to strand a device, whatever is forced, detached, killed or reset.
StrandedByOrphan == holder.exclusive => holder.sid \in attached \cup orphans

\* No hold is turned from exclusive to transient, although `force` looks at
\* the holder in one critical section and replaces it in another
\* (acquire_lock: "never downgrades it").
NoDowngrade ==
  [][holder.exclusive /\ holder'.sid = holder.sid => holder'.exclusive]_vars

\* Once a connection of one session has ended, the session loses the lock,
\* though the cleanup waits for what it has in flight (a transaction, an
\* `expect`, a queue), and whether or not a write to it fails; except for the
\* `lock` that StrandedByOrphan speaks of (the cleanup of conn.rs handle).
ClosedConnFreesLock ==
  \A s \in Sessions : conn[ConnOf[s]] = "eof" ~> holder.sid # s \/ s \in orphans

\* What the documents say of it: "a crashed flashing client can't strand the
\* device locked forever" (docs/PROTOCOL.md, the cleanup in conn.rs).
CrashFreesExclusive ==
  \A s \in Sessions :
    conn[ConnOf[s]] = "eof" ~> holder # [sid |-> s, exclusive |-> TRUE]

\* A queued caller is woken: it does not sleep on once the lock is free for
\* good (`queue`: "run when it releases").
QueuedCallerWakes ==
  \A t \in Tasks : task[t].pc = "parked" /\ holder = Free
                     ~> task[t].pc # "parked" \/ holder # Free

\* The promise of docs/PROTOCOL.md as a specification of its own: the lock,
\* and the session whose transaction is under its protection.
Protected == {task[t].sess : t \in Txn \ seized}

Inside == IF Protected = {} THEN NoSession ELSE CHOOSE s \in Protected : TRUE

Promise == INSTANCE LockPromise
             WITH owner <- holder.sid,
                  exclusive <- holder.exclusive,
                  inside <- Inside,
                  present <- attached

KeepsLockPromise == Promise!Spec
=============================================================================
