-------------------------- MODULE WriterLockProofs --------------------------
(***************************************************************************)
(* Theorems about the writer lock for every set of sessions, connections   *)
(* and tasks.  The safety of the lock is proved by one inductive invariant *)
(* for arbitrary clients (LockInv) and one for clients that wait for each  *)
(* answer (PatientInv).                                                    *)
(***************************************************************************)
EXTENDS WriterLock, TLAPS

-----------------------------------------------------------------------------
(* Type correctness.                                                       *)

\* Moving a request to another pc keeps it a request.
LEMMA PcOK ==
  ASSUME NEW r \in Requests, NEW pc \in Pcs
  PROVE  [r EXCEPT !.pc = pc] \in Requests
BY DEF Requests

\* The literal requests of the handlers are requests.
LEMMA RequestOK ==
  ASSUME NEW op \in Blocking \cup {"send"}, NEW s \in Sessions \cup {NoSession},
         NEW pre \in {"queue", "fail", "force"}, NEW pc \in Pcs
  PROVE  Request(op, s, pre, pc) \in Requests
BY DEF Requests, Request

\* A free slot is a request too.
LEMMA IdleOK == Idle \in Requests
BY DEF Requests, Idle, Pcs, Asking

\* Waking the parked tasks keeps the task table well typed.
LEMMA NotifyOK ==
  ASSUME NEW tasks \in [Tasks -> Requests]
  PROVE  NotifyWaiters(tasks) \in [Tasks -> Requests]
BY PcOK DEF NotifyWaiters, Pcs, Asking

\* Granting the lock keeps the task table well typed.
LEMMA GrantedOK ==
  ASSUME TypeOK, NEW t \in Tasks, Granted(t)
  PROVE  task' \in [Tasks -> Requests]
<1>1. task[t].sess \in Sessions \cup {NoSession}
  BY DEF TypeOK, Requests
<1>2. Request("run", task[t].sess, "fail", "txn") \in Requests
  BY <1>1, RequestOK DEF Blocking, Contenders, Pcs, Asking
<1>3. QED
  BY <1>2, IdleOK DEF Granted, TypeOK

\* Either way of releasing keeps holder and task table well typed.
LEMMA ReleaseOK ==
  ASSUME TypeOK, NEW s, NEW tasks \in [Tasks -> Requests],
         ReleaseIfHolder(s, tasks) \/ ReleaseTransient(s, tasks)
  PROVE  /\ holder' \in [sid: Sessions \cup {NoSession}, exclusive: BOOLEAN]
         /\ task' \in [Tasks -> Requests]
<1>1. Free \in [sid: Sessions \cup {NoSession}, exclusive: BOOLEAN]
  BY DEF Free
<1>2. /\ holder' \in {holder, Free}
      /\ task' \in {tasks, NotifyWaiters(tasks)}
  BY DEF ReleaseIfHolder, ReleaseTransient
<1>3. QED
  BY <1>1, <1>2, NotifyOK DEF TypeOK

\* Re-entry keeps the holder, and only ever upgrades the hold.
LEMMA ReenteredOK ==
  ASSUME TypeOK, NEW exclusive \in BOOLEAN
  PROVE  /\ Reentered(exclusive) \in [sid: Sessions \cup {NoSession},
                                      exclusive: BOOLEAN]
         /\ Reentered(exclusive).sid = holder.sid
         /\ holder.exclusive => Reentered(exclusive).exclusive
         /\ exclusive => Reentered(exclusive).exclusive
<1>1. PICK sid \in Sessions \cup {NoSession}, ex \in BOOLEAN :
        holder = [sid |-> sid, exclusive |-> ex]
  BY DEF TypeOK
<1>2. Reentered(exclusive) = [sid |-> sid, exclusive |-> ex \/ exclusive]
  BY <1>1 DEF Reentered
<1>3. QED
  BY <1>1, <1>2

\* The history of late sends stays a set of connections.
LEMMA ForgetLateOK == ASSUME TypeOK, ForgetLate PROVE late' \in SUBSET Conns
BY DEF ForgetLate, TypeOK

\* The initial state is well typed.
LEMMA InitTypeOK == Init => TypeOK
BY IdleOK DEF Init, TypeOK, Free

\* Every step keeps the state well typed: one step per action.
LEMMA NextTypeOK == TypeOK /\ [Next]_vars => TypeOK'
<1> SUFFICES ASSUME TypeOK, [Next]_vars PROVE TypeOK'
  OBVIOUS
<1>t. /\ holder \in [sid: Sessions \cup {NoSession}, exclusive: BOOLEAN]
      /\ task \in [Tasks -> Requests]
      /\ attached \in SUBSET Sessions
      /\ conn \in [Conns -> {"open", "eof"}]
      /\ late \in SUBSET Conns
      /\ seized \in SUBSET Tasks
      /\ orphans \in SUBSET Sessions
  BY DEF TypeOK
<1>s. ASSUME NEW t \in Tasks
      PROVE  task[t].sess \in Sessions \cup {NoSession}
  BY <1>t DEF Requests
<1>1. ASSUME NEW t \in Tasks, Start(t) PROVE TypeOK'
  <2>1. /\ [task[t] EXCEPT !.pc = "acquire"] \in Requests
        /\ [task[t] EXCEPT !.pc = "wait"] \in Requests
    BY <1>t, PcOK DEF Pcs, Asking
  <2>2. task' \in [Tasks -> Requests]
    BY <1>t, <1>1, <2>1, IdleOK DEF Start
  <2>3. QED
    BY <1>1, <1>t, <2>2 DEF Start, TypeOK
<1>2. ASSUME NEW t \in Tasks, Acquire(t) PROVE TypeOK'
  <2>1. holder' \in [sid: Sessions \cup {NoSession}, exclusive: BOOLEAN]
    <3>1. \/ holder' = [sid |-> task[t].sess, exclusive |-> task[t].op = "lock"]
          \/ holder' = Reentered(task[t].op = "lock")
          \/ holder' = holder
      BY <1>2 DEF Acquire
    <3>2. Reentered(task[t].op = "lock")
            \in [sid: Sessions \cup {NoSession}, exclusive: BOOLEAN]
      <4>1. (task[t].op = "lock") \in BOOLEAN
        OBVIOUS
      <4>2. QED
        BY <4>1, ReenteredOK
    <3>3. [sid |-> task[t].sess, exclusive |-> task[t].op = "lock"]
            \in [sid: Sessions \cup {NoSession}, exclusive: BOOLEAN]
      BY <1>s
    <3>4. QED
      BY ONLY <1>t, <3>1, <3>2, <3>3, Zenon
  <2>2. task' \in [Tasks -> Requests]
    <3>1. CASE Granted(t)
      BY <3>1, GrantedOK
    <3>2. CASE HeldByOther(task[t].sess) /\ ~Granted(t)
      <4>1. /\ [task[t] EXCEPT !.pc = "force"] \in Requests
            /\ [task[t] EXCEPT !.pc = "park"] \in Requests
            /\ task[t].pre \in {"queue", "fail", "force"}
        <5>1. task[t].pre \in {"queue", "fail", "force"}
          BY <1>t DEF Requests
        <5>2. QED
          BY <1>t, <5>1, PcOK DEF Pcs, Asking
      <4>2. QED
        BY <1>t, <1>2, <3>2, <4>1, IdleOK DEF Acquire
    <3>3. QED
      BY <1>2, <3>1, <3>2 DEF Acquire
  <2>3. QED
    BY <1>2, <1>t, <2>1, <2>2, ForgetLateOK DEF Acquire, TypeOK
<1>3. ASSUME NEW t \in Tasks, ForceTake(t) PROVE TypeOK'
  <2>1. holder' \in [sid: Sessions \cup {NoSession}, exclusive: BOOLEAN]
    BY <1>s, <1>3 DEF ForceTake
  <2>2. QED
    BY <1>3, <1>t, <2>1, GrantedOK, ForgetLateOK DEF ForceTake, TypeOK, Txn
<1>4. ASSUME NEW t \in Tasks, Park(t) PROVE TypeOK'
  <2>1. [task[t] EXCEPT !.pc = "parked"] \in Requests
    BY <1>t, PcOK DEF Pcs, Asking
  <2>2. QED
    BY <1>4, <1>t, <2>1 DEF Park, TypeOK
<1>5. ASSUME NEW t \in Tasks, RunEnd(t) PROVE TypeOK'
  <2>1. [task EXCEPT ![t] = Idle] \in [Tasks -> Requests]
    BY <1>t, IdleOK
  <2>2. /\ holder' \in [sid: Sessions \cup {NoSession}, exclusive: BOOLEAN]
        /\ task' \in [Tasks -> Requests]
    <3>1. /\ task[t].sess \in Sessions \cup {NoSession}
          /\ ReleaseTransient(task[t].sess, [task EXCEPT ![t] = Idle])
      BY <1>5, <1>s DEF RunEnd
    <3>2. QED
      BY <2>1, <3>1, ReleaseOK
  <2>3. QED
    BY <1>5, <1>t, <2>2, ForgetLateOK DEF RunEnd, TypeOK
<1>6. ASSUME NEW t \in Tasks, SendWritten(t) PROVE TypeOK'
  BY <1>6, <1>t, IdleOK, WriterLockConstants DEF SendWritten, TypeOK
<1>7. ASSUME NEW t \in Tasks, NEW s \in Sessions, Spawn(t, s) PROVE TypeOK'
  <2>1. PICK op \in Blocking, pre \in Preempts \cup {"fail"} :
          task' = [task EXCEPT ![t] = Request(op, s, pre, "start")]
    BY <1>7 DEF Spawn, Blocking
  <2>2. Request(op, s, pre, "start") \in Requests
    BY RequestOK, WriterLockConstants DEF Pcs, Asking
  <2>3. QED
    BY <1>7, <1>t, <2>1, <2>2 DEF Spawn, TypeOK
<1>8. ASSUME NEW t \in Tasks, NEW s \in Sessions, Send(t, s) PROVE TypeOK'
  <2>1. Request("send", s, "fail", "write") \in Requests
    BY RequestOK DEF Pcs, Asking
  <2>2. QED
    BY <1>8, <1>t, <2>1 DEF Send, TypeOK
<1>9. ASSUME NEW s \in Sessions, Unlock(s) \/ Detach(s) \/ Cleanup(s)
      PROVE  TypeOK'
  <2>1. /\ ReleaseIfHolder(s, task) /\ ForgetLate
        /\ UNCHANGED conn
        /\ attached' \in {attached, attached \ {s}}
        /\ seized' \in SUBSET Tasks /\ orphans' \in SUBSET Sessions
    BY <1>9, <1>t DEF Unlock, Detach, Cleanup, Orphan, Txn
  <2>2. QED
    BY <1>t, <2>1, ReleaseOK, ForgetLateOK DEF TypeOK
<1>10. ASSUME NEW c \in Conns, Eof(c) PROVE TypeOK'
  BY <1>10, <1>t DEF Eof, TypeOK
<1>11. ASSUME NEW t \in Tasks, WaitEnd(t) PROVE TypeOK'
  BY <1>11, <1>t, IdleOK DEF WaitEnd, TypeOK
<1>12. CASE UNCHANGED vars
  BY <1>12, <1>t DEF vars, TypeOK
<1>13. QED
  BY <1>1, <1>2, <1>3, <1>4, <1>5, <1>6, <1>7, <1>8, <1>9, <1>10, <1>11, <1>12
     DEF Next

\* For any clients, the state of the lock keeps the shape TypeOK gives it.
THEOREM TypeCorrect == Spec => []TypeOK
BY InitTypeOK, NextTypeOK, PTL DEF Spec
-----------------------------------------------------------------------------
(* What each action does to the task table, field by field.                *)

\* Task u is left alone, or woken from its wait.
Same(u) ==
  /\ task'[u].op = task[u].op
  /\ task'[u].sess = task[u].sess
  /\ \/ task'[u].pc = task[u].pc
     \/ task[u].pc = "parked" /\ task'[u].pc = "acquire"

Others(t) == \A u \in Tasks \ {t} : Same(u)

\* notify_waiters moves parked tasks to "acquire" and touches nothing else.
LEMMA NotifyFields ==
  ASSUME NEW tasks \in [Tasks -> Requests], NEW u \in Tasks
  PROVE  /\ NotifyWaiters(tasks)[u].op = tasks[u].op
         /\ NotifyWaiters(tasks)[u].sess = tasks[u].sess
         /\ \/ NotifyWaiters(tasks)[u].pc = tasks[u].pc
            \/ /\ tasks[u].pc = "parked"
               /\ NotifyWaiters(tasks)[u].pc = "acquire"
BY DEF NotifyWaiters, Requests

\* A release leaves every task alone, or wakes it.
LEMMA ReleaseFields ==
  ASSUME NEW s, NEW tasks \in [Tasks -> Requests], NEW u \in Tasks,
         ReleaseIfHolder(s, tasks) \/ ReleaseTransient(s, tasks)
  PROVE  /\ task'[u].op = tasks[u].op
         /\ task'[u].sess = tasks[u].sess
         /\ \/ task'[u].pc = tasks[u].pc
            \/ tasks[u].pc = "parked" /\ task'[u].pc = "acquire"
<1>1. CASE task' = tasks
  BY <1>1
<1>2. CASE task' = NotifyWaiters(tasks)
  BY <1>2, NotifyFields
<1>3. QED
  BY <1>1, <1>2 DEF ReleaseIfHolder, ReleaseTransient

\* What `Start` does to the task table, field by field.
LEMMA StartFields ==
  ASSUME TypeOK, NEW t \in Tasks, Start(t)
  PROVE  /\ Others(t) /\ task[t].pc = "start"
         /\ \/ task'[t].pc = "idle"
            \/ /\ task'[t].sess = task[t].sess /\ task'[t].op = task[t].op
               /\ task[t].sess \in attached
               /\ \/ task[t].op # "expect" /\ task'[t].pc = "acquire"
                  \/ task[t].op = "expect" /\ task'[t].pc = "wait"
<1>1. task[t].pc = "start" /\ task[t] \in Requests
  BY DEF Start, TypeOK
<1>2. \/ task' = [task EXCEPT ![t] = Idle]
      \/ /\ task[t].op = "expect" /\ task[t].sess \in attached
         /\ task' = [task EXCEPT ![t] = [@ EXCEPT !.pc = "wait"]]
      \/ /\ task[t].op # "expect" /\ task[t].sess \in attached
         /\ task' = [task EXCEPT ![t] = [@ EXCEPT !.pc = "acquire"]]
  BY DEF Start
<1>3. QED
  BY <1>1, <1>2 DEF TypeOK, Others, Same, Idle, Requests

\* A wait that ends frees its slot.
LEMMA WaitEndFields ==
  ASSUME TypeOK, NEW t \in Tasks, WaitEnd(t)
  PROVE  Others(t) /\ task[t].pc = "wait" /\ task'[t].pc = "idle"
BY DEF TypeOK, WaitEnd, Others, Same, Idle

\* What granting the lock makes of the task.
LEMMA GrantedFields ==
  ASSUME TypeOK, NEW t \in Tasks, Granted(t)
  PROVE  /\ Others(t)
         /\ \/ task[t].op # "run" /\ task'[t].pc = "idle"
            \/ /\ task[t].op = "run" /\ task'[t].op = "run"
               /\ task'[t].pc = "txn" /\ task'[t].sess = task[t].sess
BY DEF TypeOK, Granted, Others, Same, Idle, Request

\* The first critical section grants the lock, or leaves the holder and
\* moves its task on according to `preempt`.
LEMMA AcquireFields ==
  ASSUME TypeOK, NEW t \in Tasks, Acquire(t)
  PROVE  /\ task[t].pc = "acquire"
         /\ \/ Granted(t) /\ ~HeldByOther(task[t].sess)
            \/ /\ HeldByOther(task[t].sess) /\ holder' = holder
               /\ Others(t)
               /\ \/ task'[t].pc = "idle"
                  \/ /\ task'[t].pc \in {"force", "park"}
                     /\ task'[t].sess = task[t].sess
                     /\ task'[t].op = task[t].op
<1> USE DEF Acquire
<1>1. CASE Granted(t) /\ ~HeldByOther(task[t].sess)
  BY <1>1
<1>2. CASE HeldByOther(task[t].sess)
  <2>1. task[t].pre \in {"queue", "fail", "force"} /\ task[t] \in Requests
    BY DEF TypeOK, Requests
  <2>2. task' \in { [task EXCEPT ![t] = Idle],
                    [task EXCEPT ![t] = [@ EXCEPT !.pc = "force"]],
                    [task EXCEPT ![t] = [@ EXCEPT !.pc = "park"]] }
    BY <1>2, <2>1 DEF Acquire, HeldByOther
  <2>3. holder' = holder
    BY <1>2 DEF Acquire, HeldByOther
  <2>4. QED
    BY <1>2, <2>1, <2>2, <2>3 DEF TypeOK, Others, Same, Idle, Requests
<1>3. QED
  BY <1>1, <1>2 DEF HeldByOther

\* The end of a transaction frees its slot and may wake parked tasks.
LEMMA RunEndFields ==
  ASSUME TypeOK, NEW t \in Tasks, RunEnd(t)
  PROVE  /\ Others(t) /\ task[t].pc = "txn" /\ task'[t].pc = "idle"
         /\ ReleaseTransient(task[t].sess, [task EXCEPT ![t] = Idle])
<1>1. [task EXCEPT ![t] = Idle] \in [Tasks -> Requests]
  BY IdleOK DEF TypeOK
<1>2. ReleaseTransient(task[t].sess, [task EXCEPT ![t] = Idle])
  BY DEF RunEnd
<1>3. \A u \in Tasks : /\ task'[u].op = [task EXCEPT ![t] = Idle][u].op
                       /\ task'[u].sess = [task EXCEPT ![t] = Idle][u].sess
                       /\ \/ task'[u].pc = [task EXCEPT ![t] = Idle][u].pc
                          \/ /\ [task EXCEPT ![t] = Idle][u].pc = "parked"
                             /\ task'[u].pc = "acquire"
  BY <1>1, <1>2, ReleaseFields
<1>4. QED
  BY <1>2, <1>3 DEF TypeOK, RunEnd, Others, Same, Idle

\* The handlers that release the lock of a session and forget it.
LEMMA UnlockFields ==
  ASSUME TypeOK, NEW s \in Sessions, Unlock(s) \/ Detach(s) \/ Cleanup(s)
  PROVE  /\ \A u \in Tasks : Same(u)
         /\ ReleaseIfHolder(s, task)
<1>1. ReleaseIfHolder(s, task)
  BY DEF Unlock, Detach, Cleanup
<1>2. QED
  BY <1>1, ReleaseFields DEF TypeOK, Same

\* A spawned request fills a free slot.
LEMMA SpawnFields ==
  ASSUME TypeOK, NEW t \in Tasks, NEW s \in Sessions, Spawn(t, s)
  PROVE  /\ Others(t) /\ task[t].pc = "idle"
         /\ task'[t].pc = "start" /\ task'[t].sess = s
         /\ task'[t].op \in Blocking
BY DEF TypeOK, Spawn, Others, Same, Idle, Request, Blocking, Contenders

\* An accepted send fills a free slot.
LEMMA SendFields ==
  ASSUME TypeOK, NEW t \in Tasks, NEW s \in Sessions, Send(t, s)
  PROVE  /\ Others(t) /\ task[t].pc = "idle"
         /\ task'[t].pc = "write" /\ task'[t].sess = s
         /\ task'[t].op = "send"
BY DEF TypeOK, Send, Others, Same, Idle, Request

\* Parking changes the pc of its task only.
LEMMA ParkFields ==
  ASSUME TypeOK, NEW t \in Tasks, Park(t)
  PROVE  /\ Others(t) /\ task[t].pc = "park" /\ task'[t].pc = "parked"
         /\ task'[t].sess = task[t].sess /\ task'[t].op = task[t].op
BY DEF TypeOK, Park, Others, Same, Requests

\* A written send frees its slot.
LEMMA SendWrittenFields ==
  ASSUME TypeOK, NEW t \in Tasks, SendWritten(t)
  PROVE  Others(t) /\ task[t].pc = "write" /\ task'[t].pc = "idle"
BY DEF TypeOK, SendWritten, Others, Same, Idle

-----------------------------------------------------------------------------
(* Any clients.                                                            *)

\* A transaction stays one, with its session, in every step but its own end.
LEMMA TxnKept ==
  ASSUME TypeOK, [Next]_vars, NEW u \in Txn
  PROVE  \/ RunEnd(u)
         \/ u \in Txn' /\ task'[u].sess = task[u].sess
<1> USE DEF Txn, Others, Same
<1>1. ASSUME NEW t \in Tasks, \/ Start(t) \/ WaitEnd(t) \/ ForceTake(t)
                             \/ Park(t) \/ SendWritten(t)
      PROVE  task[t].pc # "txn" /\ Others(t)
  BY <1>1, StartFields, WaitEndFields, GrantedFields, ParkFields,
     SendWrittenFields DEF ForceTake
<1>2. ASSUME NEW t \in Tasks, Acquire(t)
      PROVE  task[t].pc # "txn" /\ Others(t)
  BY <1>2, AcquireFields, GrantedFields DEF Acquire
<1>3. ASSUME NEW t \in Tasks, NEW s \in Sessions, Spawn(t, s) \/ Send(t, s)
      PROVE  task[t].pc # "txn" /\ Others(t)
  BY <1>3, SpawnFields, SendFields
<1>4. ASSUME NEW t \in Tasks, RunEnd(t) PROVE Others(t)
  BY <1>4, RunEndFields
<1>5. ASSUME NEW s \in Sessions, Unlock(s) \/ Detach(s) \/ Cleanup(s)
      PROVE  \A v \in Tasks : Same(v)
  BY <1>5, UnlockFields
<1>6. ASSUME NEW c \in Conns, Eof(c) PROVE task' = task
  BY <1>6 DEF Eof
<1>7. CASE UNCHANGED vars
  BY <1>7 DEF vars
<1>8. QED
  BY <1>1, <1>2, <1>3, <1>4, <1>5, <1>6, <1>7 DEF Next

\* What a grant leaves behind backs a transient hold.
LEMMA GrantBacks ==
  ASSUME TypeOK, NEW t \in Tasks, Granted(t), task[t].op \in Contenders,
         holder' = [sid |-> task[t].sess, exclusive |-> task[t].op = "lock"]
  PROVE  TransientHoldBacked'
<1>1. CASE task[t].op = "run"
  BY <1>1, GrantedFields DEF TransientHoldBacked, Txn
<1>2. CASE task[t].op = "lock"
  BY <1>2 DEF TransientHoldBacked
<1>3. QED
  BY <1>1, <1>2 DEF Contenders

\* Which kind of request a pc belongs to.
OpOfPc ==
  \A t \in Tasks :
    /\ task[t].pc = "start" => task[t].op \in Blocking
    /\ task[t].pc \in Asking \cup {"txn"} => task[t].op \in Contenders
    /\ task[t].pc = "wait" => task[t].op = "expect"
    /\ task[t].pc = "write" => task[t].op = "send"

\* A connection awaits one send at a time.
OneSendPerConn ==
  \A t, u \in Tasks :
    task[t].pc = "write" /\ task[u].pc = "write" /\ Serves[t] = Serves[u]
      => t = u

LockInv == OpOfPc /\ OneSendPerConn /\ TransientHoldBacked /\ OneLateSend

\* The pc of a request goes with its method, whatever step is taken.
LEMMA NextOpOfPc ==
  ASSUME TypeOK, OpOfPc, [Next]_vars PROVE OpOfPc'
<1> USE DEF OpOfPc, Others, Same, Asking, Blocking
<1>1. ASSUME NEW t \in Tasks, Start(t) \/ WaitEnd(t) \/ Park(t) \/ SendWritten(t) PROVE OpOfPc'
  BY <1>1, StartFields, WaitEndFields, ParkFields, SendWrittenFields
<1>2. ASSUME NEW t \in Tasks, Acquire(t) PROVE OpOfPc'
  BY <1>2, AcquireFields, GrantedFields DEF Contenders
<1>3. ASSUME NEW t \in Tasks, ForceTake(t) PROVE OpOfPc'
  BY <1>3, GrantedFields DEF ForceTake, Contenders
<1>4. ASSUME NEW t \in Tasks, NEW s \in Sessions, Spawn(t, s) \/ Send(t, s)
      PROVE  OpOfPc'
  BY <1>4, SpawnFields, SendFields
<1>5. ASSUME NEW t \in Tasks, RunEnd(t) PROVE OpOfPc'
  <2>1. Others(t) /\ task'[t].pc = "idle"
    BY <1>5, RunEndFields
  <2>2. \A u \in Tasks \ {t} : Same(u)
    BY ONLY <2>1 DEF Others
  <2>3. QED
    BY ONLY <2>1, <2>2, OpOfPc DEF OpOfPc, Same, Asking
<1>6. ASSUME NEW s \in Sessions, Unlock(s) \/ Detach(s) \/ Cleanup(s)
      PROVE  OpOfPc'
  BY <1>6, UnlockFields
<1>7. ASSUME NEW c \in Conns, Eof(c) PROVE OpOfPc'
  BY <1>7 DEF Eof
<1>8. CASE UNCHANGED vars
  BY <1>8 DEF vars
<1>9. QED
  BY <1>1, <1>2, <1>3, <1>4, <1>5, <1>6, <1>7, <1>8 DEF Next

\* Only an accepted send starts to write, and a connection accepts one at a
\* time; every other action starts no write.
LEMMA NextOneSendPerConn ==
  ASSUME TypeOK, OpOfPc, OneSendPerConn, [Next]_vars PROVE OneSendPerConn'
<1> USE DEF Others, Same
<1>1. ASSUME NEW t \in Tasks, NEW s \in Sessions, Send(t, s)
      PROVE  OneSendPerConn'
  <2>1. \A u \in Tasks : Serves[u] = Serves[t] => task[u].pc # "write"
    BY <1>1 DEF Send, Accepts, InFlight, OpOfPc, Blocking, Contenders
  <2>2. QED
    BY <1>1, <2>1, SendFields DEF OneSendPerConn
<1>2. ASSUME NEW t \in Tasks, Others(t), task'[t].pc # "write"
      PROVE  OneSendPerConn'
  <2> SUFFICES ASSUME NEW u \in Tasks, NEW v \in Tasks, task'[u].pc = "write",
                      task'[v].pc = "write", Serves[u] = Serves[v]
               PROVE  u = v
    BY DEF OneSendPerConn
  <2>1. task[u].pc = "write" /\ task[v].pc = "write"
    BY <1>2
  <2>2. QED
    BY <2>1 DEF OneSendPerConn
<1>a. ASSUME NEW t \in Tasks, Start(t) \/ WaitEnd(t) \/ Park(t) \/ SendWritten(t) \/ RunEnd(t)
      PROVE  OneSendPerConn'
  BY ZenonT(40), <1>a, <1>2, StartFields, WaitEndFields, ParkFields, RunEndFields, SendWrittenFields
<1>b. ASSUME NEW t \in Tasks, Acquire(t) \/ ForceTake(t)
      PROVE  OneSendPerConn'
  BY <1>b, <1>2, AcquireFields, GrantedFields DEF ForceTake
<1>c. ASSUME NEW t \in Tasks, NEW s \in Sessions, Spawn(t, s)
      PROVE  OneSendPerConn'
  BY <1>c, <1>2, SpawnFields
<1>3. ASSUME NEW s \in Sessions, Unlock(s) \/ Detach(s) \/ Cleanup(s)
      PROVE  OneSendPerConn'
  BY <1>3, UnlockFields DEF OneSendPerConn
<1>4. ASSUME NEW c \in Conns, Eof(c) PROVE OneSendPerConn'
  BY <1>4 DEF Eof, OneSendPerConn
<1>5. CASE UNCHANGED vars
  BY <1>5 DEF vars, OneSendPerConn
<1>6. QED
  BY <1>1, <1>a, <1>b, <1>c, <1>3, <1>4, <1>5 DEF Next

\* A task at acquire_lock keeps every transaction going.
LEMMA AcquireNoRunEnd ==
  ASSUME TypeOK, NEW t \in Tasks, Acquire(t) PROVE ~\E u \in Tasks : RunEnd(u)
<1>1. \A u \in Tasks : task[u].pc = "txn" => task'[u].pc = "txn"
  BY AcquireFields, GrantedFields DEF Others, Same, Acquire
<1>2. QED
  BY <1>1, RunEndFields

\* A transient hold is created by the step that opens its transaction, and
\* the step that ends the transaction frees the hold.
LEMMA NextTransientHoldBacked ==
  ASSUME TypeOK, OpOfPc, TransientHoldBacked, [Next]_vars
  PROVE  TransientHoldBacked'
<1>1. ASSUME holder' = holder, ~\E t \in Tasks : RunEnd(t)
      PROVE  TransientHoldBacked'
  BY <1>1, TxnKept DEF TransientHoldBacked, Txn
<1>2. ASSUME NEW t \in Tasks, Acquire(t) PROVE TransientHoldBacked'
  <2>1. task[t].op \in Contenders /\ ~RunEnd(t)
    BY <1>2 DEF OpOfPc, Acquire, RunEnd, Asking
  <2>2. CASE holder.sid = NoSession
    <3>1. Granted(t)
      BY <1>2, <2>2, AcquireFields DEF HeldByOther
    <3>2. \/ holder' = [sid |-> task[t].sess, exclusive |-> task[t].op = "lock"]
          \/ holder' = Reentered(task[t].op = "lock") /\ holder.sid = task[t].sess
      BY <1>2, <2>2 DEF Acquire, HeldByOther
    <3>3. CASE holder' = [sid |-> task[t].sess, exclusive |-> task[t].op = "lock"]
      BY <2>1, <3>1, <3>3, GrantBacks
    <3>4. CASE holder' = Reentered(task[t].op = "lock") /\ holder.sid = task[t].sess
      BY <2>2, <3>4, ReenteredOK DEF TransientHoldBacked
    <3>5. QED
      BY <3>2, <3>3, <3>4
  <2>3. CASE holder.sid = task[t].sess /\ holder.sid # NoSession
    <3>1. holder' = Reentered(task[t].op = "lock") /\ Granted(t)
      BY <1>2, <2>3 DEF Acquire, HeldByOther
    <3>2. \/ holder' = holder
          \/ holder'.exclusive
      BY <3>1, ReenteredOK DEF Reentered, TypeOK
    <3>3. CASE holder'.exclusive
      BY <3>3 DEF TransientHoldBacked
    <3>4. CASE holder' = holder
      BY <1>2, <3>4, <1>1, AcquireNoRunEnd
    <3>5. QED
      BY <3>2, <3>3, <3>4
  <2>4. CASE HeldByOther(task[t].sess)
    BY <1>1, <1>2, <2>4, AcquireNoRunEnd DEF Acquire, HeldByOther
  <2>5. QED
    BY <2>2, <2>3, <2>4 DEF HeldByOther
<1>3. ASSUME NEW t \in Tasks, ForceTake(t) PROVE TransientHoldBacked'
  BY <1>3, GrantBacks DEF ForceTake, OpOfPc, Asking
<1>4. ASSUME NEW t \in Tasks, RunEnd(t) PROVE TransientHoldBacked'
  <2>1. ReleaseTransient(task[t].sess, [task EXCEPT ![t] = Idle])
    BY <1>4, RunEndFields
  <2>2. CASE holder = [sid |-> task[t].sess, exclusive |-> FALSE]
    BY <2>1, <2>2 DEF ReleaseTransient, TransientHoldBacked, Free
  <2>3. CASE holder # [sid |-> task[t].sess, exclusive |-> FALSE]
    <3>1. holder' = holder
      BY <2>1, <2>3 DEF ReleaseTransient
    <3>2. ASSUME holder.sid # NoSession, ~holder.exclusive
          PROVE  \E u \in Txn' : task'[u].sess = holder.sid
      <4>1. PICK u \in Txn : task[u].sess = holder.sid
        BY <3>2 DEF TransientHoldBacked
      <4>2. u # t
        BY <2>3, <3>2, <4>1 DEF TypeOK
      <4>3. u \in Txn' /\ task'[u].sess = holder.sid
        BY <1>4, <4>1, <4>2, RunEndFields DEF Others, Same, Txn
      <4>4. QED
        BY <4>3
    <3>3. QED
      BY <3>1, <3>2 DEF TransientHoldBacked
  <2>4. QED
    BY <2>2, <2>3
<1>5. ASSUME NEW s \in Sessions, Unlock(s) \/ Detach(s) \/ Cleanup(s)
      PROVE  TransientHoldBacked'
  <2>1. ReleaseIfHolder(s, task) /\ \A u \in Tasks : Same(u)
    BY <1>5, UnlockFields
  <2>2. QED
    BY <2>1 DEF ReleaseIfHolder, TransientHoldBacked, Free, Same, Txn
<1>6. QED
  BY <1>1, <1>2, <1>3, <1>4, <1>5 DEF Next, vars, Start, WaitEnd, Park, SendWritten,
     Spawn, Send, Eof

\* A hold that changes starts with no late sends, and one that does not can
\* only gain the connection whose single send has just been written.
LEMMA NextOneLateSend ==
  ASSUME TypeOK, OpOfPc, OneSendPerConn, OneLateSend, [Next]_vars
  PROVE  OneLateSend'
<1> USE DEF Others, Same
<1>1. ASSUME ForgetLate, ~(holder' = holder) PROVE OneLateSend'
  BY <1>1 DEF ForgetLate, OneLateSend
<1>2. ASSUME holder' = holder, late' = late,
             \A u \in Tasks : task'[u].pc = "write" =>
               /\ task[u].pc = "write" \/ ~ExclusivelyLockedFor(task'[u].sess)
               /\ task[u].pc = "write" => task'[u].sess = task[u].sess
      PROVE  OneLateSend'
  BY <1>2 DEF OneLateSend, ExclusivelyLockedFor, HeldByOther
<1>3. ASSUME ForgetLate,
             \A u \in Tasks : task'[u].pc = "write" =>
               task[u].pc = "write" /\ task'[u].sess = task[u].sess
      PROVE  OneLateSend'
  BY <1>1, <1>2, <1>3 DEF ForgetLate
<1>4. ASSUME NEW t \in Tasks, Start(t) \/ WaitEnd(t) \/ Park(t) PROVE OneLateSend'
  BY <1>2, <1>4, StartFields, WaitEndFields, ParkFields DEF Start, WaitEnd, Park
<1>5. ASSUME NEW t \in Tasks, Acquire(t) \/ ForceTake(t) \/ RunEnd(t)
      PROVE  OneLateSend'
  <2>1. ForgetLate
    BY <1>5 DEF Acquire, ForceTake, RunEnd
  <2>2. Others(t) /\ task'[t].pc # "write"
    BY <1>5, AcquireFields, GrantedFields, RunEndFields DEF ForceTake
  <2>3. QED
    BY <1>3, <2>1, <2>2
<1>6. ASSUME NEW t \in Tasks, NEW s \in Sessions, Spawn(t, s) PROVE OneLateSend'
  BY <1>2, <1>6, SpawnFields DEF Spawn
<1>7. ASSUME NEW t \in Tasks, NEW s \in Sessions, Send(t, s) PROVE OneLateSend'
  <2>1. /\ holder' = holder /\ late' = late
        /\ ~ExclusivelyLockedFor(s)
    BY <1>7 DEF Send
  <2>2. /\ \A u \in Tasks \ {t} : Same(u)
        /\ task'[t].sess = s /\ task[t].pc # "write"
    BY <1>7, SendFields
  <2>3. QED
    BY <1>2, <2>1, <2>2
<1>8. ASSUME NEW t \in Tasks, SendWritten(t) PROVE OneLateSend'
  <2> SUFFICES ASSUME NEW u \in Tasks, task'[u].pc = "write",
                      ExclusivelyLockedFor(task[u].sess)'
               PROVE  Serves[u] \notin late'
    BY DEF OneLateSend
  <2>1. /\ task[t].pc = "write" /\ u # t
        /\ task[u].pc = "write" /\ task'[u].sess = task[u].sess
    BY <1>8, SendWrittenFields
  <2>2. holder' = holder /\ late' \in {late, late \cup {Serves[t]}}
    BY <1>8 DEF SendWritten
  <2>3. Serves[u] # Serves[t]
    BY <2>1 DEF OneSendPerConn
  <2>4. ExclusivelyLockedFor(task[u].sess)
    BY <2>1, <2>2 DEF ExclusivelyLockedFor, HeldByOther
  <2>5. QED
    BY <2>1, <2>2, <2>3, <2>4 DEF OneLateSend
<1>9. ASSUME NEW s \in Sessions, Unlock(s) \/ Detach(s) \/ Cleanup(s)
      PROVE  OneLateSend'
  BY <1>3, <1>9, UnlockFields DEF Unlock, Detach, Cleanup
<1>10. ASSUME NEW c \in Conns, Eof(c) PROVE OneLateSend'
  BY <1>2, <1>10 DEF Eof
<1>11. CASE UNCHANGED vars
  BY <1>2, <1>11 DEF vars
<1>12. QED
  BY <1>4, <1>5, <1>6, <1>7, <1>8, <1>9, <1>10, <1>11 DEF Next

\* The inductive invariant for any clients.
LEMMA LockInvariant == Spec => [](TypeOK /\ LockInv)
<1>1. Init => LockInv
  BY DEF Init, LockInv, OpOfPc, OneSendPerConn, TransientHoldBacked,
         OneLateSend, Idle, Free, Asking
<1>2. TypeOK /\ LockInv /\ [Next]_vars => LockInv'
  BY NextOpOfPc, NextOneSendPerConn, NextTransientHoldBacked, NextOneLateSend
     DEF LockInv
<1>3. QED
  BY <1>1, <1>2, InitTypeOK, NextTypeOK, PTL DEF Spec

\* For any clients, a transient hold is backed by a transaction in flight.
THEOREM TransientHoldSafe == Spec => []TransientHoldBacked
BY LockInvariant, PTL DEF LockInv

\* For any clients, no connection's second send lands in an exclusive hold.
THEOREM OneLateSendSafe == Spec => []OneLateSend
BY LockInvariant, PTL DEF LockInv

-----------------------------------------------------------------------------
(* Patient clients.                                                        *)

\* A connection has one request in flight at most, ...
OneRequest ==
  \A t, u \in Tasks :
    task[t].pc # "idle" /\ task[u].pc # "idle" /\ Serves[t] = Serves[u]
      => t = u

\* ... for a session of its own, ...
OwnSession ==
  \A t \in Tasks : task[t].pc # "idle" =>
    task[t].sess \in Sessions /\ ConnOf[task[t].sess] = Serves[t]

\* ... which, once it was looked up for a `lock`, stays attached or is known
\* as an orphan, ...
LookedUp ==
  \A t \in Tasks : task[t].op = "lock" /\ task[t].pc \in Asking =>
    task[t].sess \in attached \cup orphans

\* ... and cannot come to hold the lock between the two halves of a force.
ForceSeesOther ==
  \A t \in Tasks : task[t].pc = "force" => holder.sid # task[t].sess

PatientInv ==
  /\ OneRequest /\ OwnSession /\ LookedUp /\ ForceSeesOther
  /\ RunExclusion /\ StrandedByOrphan

\* A session has one request in flight at most.
LEMMA OnePerSession ==
  ASSUME OneRequest, OwnSession, NEW t \in Tasks, NEW u \in Tasks,
         task[t].pc # "idle", task[u].pc # "idle", task[t].sess = task[u].sess
  PROVE  t = u
BY DEF OneRequest, OwnSession

\* A patient connection takes a request when nothing of it is in flight.
LEMMA QuietWhenAccepting ==
  ASSUME Patient, NEW c \in Conns, Accepts(c)
  PROVE  \A u \in Tasks : Serves[u] = c => task[u].pc = "idle"
BY DEF Patient, Accepts, InFlight

\* So nothing of a session is in flight when its client gives up its hold.
LEMMA QuietWhenReleasing ==
  ASSUME Patient, OwnSession, NEW s \in Sessions, Unlock(s) \/ Detach(s)
  PROVE  \A u \in Tasks : task[u].pc # "idle" => task[u].sess # s
<1>1. ConnOf[s] \in Conns
  BY WriterLockConstants
<1>2. \A u \in Tasks : Serves[u] = ConnOf[s] => task[u].pc = "idle"
  BY <1>1, QuietWhenAccepting DEF Unlock, Detach
<1>3. QED
  BY <1>2 DEF OwnSession

\* The steps that leave holder, seized and the set of transactions alone.
LEMMA RunExclusionKept ==
  ASSUME RunExclusion, holder' = holder, seized' = seized,
         \A u \in Tasks : task'[u].pc = "txn" =>
           task[u].pc = "txn" /\ task'[u].sess = task[u].sess
  PROVE  RunExclusion'
BY DEF RunExclusion, Txn

\* The shape of patient clients' requests is kept by every step.
LEMMA NextRequests ==
  ASSUME Patient, TypeOK, OneRequest, OwnSession, LookedUp, [Next]_vars
  PROVE  OneRequest' /\ OwnSession' /\ LookedUp'
<1> USE DEF Others, Same
<1>1. ASSUME \A u \in Tasks : task'[u].pc # "idle" =>
                /\ task[u].pc # "idle" /\ task'[u].sess = task[u].sess
      PROVE  OneRequest' /\ OwnSession'
  BY <1>1 DEF OneRequest, OwnSession
<1>2. ASSUME attached' = attached, orphans' = orphans,
             \A u \in Tasks : task'[u].pc \in Asking =>
               \/ task'[u].sess \in attached
               \/ /\ task[u].pc \in Asking
                  /\ task'[u].sess = task[u].sess /\ task'[u].op = task[u].op
      PROVE  LookedUp'
  BY <1>2 DEF LookedUp
<1>3. ASSUME NEW t \in Tasks, Start(t) PROVE OneRequest' /\ OwnSession' /\ LookedUp'
  <2>1. attached' = attached /\ orphans' = orphans
    BY <1>3 DEF Start
  <2>2. /\ \A u \in Tasks \ {t} : Same(u)
        /\ task[t].pc = "start"
        /\ task'[t].pc # "idle" =>
             task'[t].sess = task[t].sess /\ task'[t].sess \in attached
    BY <1>3, StartFields
  <2>3. QED
    BY <1>1, <1>2, <2>1, <2>2 DEF Asking
<1>4. ASSUME NEW t \in Tasks, \/ WaitEnd(t) \/ Park(t) \/ SendWritten(t)
                             \/ RunEnd(t) \/ Acquire(t) \/ ForceTake(t)
      PROVE  OneRequest' /\ OwnSession' /\ LookedUp'
  <2>1. attached' = attached /\ orphans' = orphans
    BY <1>4 DEF WaitEnd, Park, SendWritten, RunEnd, Acquire, ForceTake
  <2>2. /\ \A u \in Tasks \ {t} : Same(u)
        /\ task[t].pc # "idle"
        /\ task'[t].pc # "idle" => task'[t].sess = task[t].sess
        /\ task'[t].pc \in Asking =>
             task[t].pc \in Asking /\ task'[t].op = task[t].op
    <3>1. CASE WaitEnd(t) \/ SendWritten(t) \/ RunEnd(t)
      BY <3>1, WaitEndFields, SendWrittenFields, RunEndFields DEF Asking
    <3>2. CASE Park(t)
      BY <3>2, ParkFields DEF Asking
    <3>3. CASE Acquire(t)
      BY <3>3, AcquireFields, GrantedFields DEF Asking
    <3>4. CASE ForceTake(t)
      BY <3>4, GrantedFields DEF ForceTake, Asking
    <3>5. QED
      BY <1>4, <3>1, <3>2, <3>3, <3>4
  <2>3. QED
    BY <1>1, <1>2, <2>1, <2>2 DEF Asking
<1>5. ASSUME NEW t \in Tasks, NEW s \in Sessions, Spawn(t, s) \/ Send(t, s)
      PROVE  OneRequest' /\ OwnSession' /\ LookedUp'
  <2>1. \A u \in Tasks : Serves[u] = Serves[t] => task[u].pc = "idle"
    BY <1>5, QuietWhenAccepting, WriterLockConstants DEF Spawn, Send
  <2>2. /\ \A u \in Tasks \ {t} : Same(u)
        /\ task'[t].sess = s /\ ConnOf[s] = Serves[t]
        /\ task'[t].pc \notin Asking
        /\ attached' = attached /\ orphans' = orphans /\ task[t].pc = "idle"
    BY <1>5, SpawnFields, SendFields DEF Spawn, Send, Asking
  <2>3. OneRequest'
    BY <2>1, <2>2 DEF OneRequest
  <2>4. OwnSession'
    BY <2>2 DEF OwnSession
  <2>5. QED
    BY <1>2, <2>2, <2>3, <2>4 DEF Asking
<1>6. ASSUME NEW s \in Sessions, Unlock(s) \/ Detach(s) \/ Cleanup(s)
      PROVE  OneRequest' /\ OwnSession' /\ LookedUp'
  <2>1. \A u \in Tasks : Same(u)
    BY <1>6, UnlockFields
  <2>2. attached' \in {attached, attached \ {s}} /\ orphans \subseteq orphans'
    BY <1>6 DEF Unlock, Detach, Cleanup, Orphan
  <2>3. ASSUME NEW u \in Tasks, task[u].op = "lock", task[u].pc \in Asking,
               task[u].sess = s
        PROVE  attached' = attached \/ s \in orphans'
    <3>1. CASE Unlock(s) \/ Detach(s)
      BY <2>3, <3>1, QuietWhenReleasing DEF Asking
    <3>2. CASE Cleanup(s)
      BY <2>3, <3>2 DEF Cleanup, Orphan, Unanswered
    <3>3. QED
      BY <1>6, <3>1, <3>2
  <2>4. LookedUp'
    BY <2>1, <2>2, <2>3 DEF LookedUp, Asking
  <2>5. QED
    BY <1>1, <2>1, <2>4
<1>7. CASE UNCHANGED <<task, attached, orphans>>
  BY <1>1, <1>2, <1>7
<1>8. QED
  BY <1>3, <1>4, <1>5, <1>6, <1>7 DEF Next, Eof, vars

\* Who else can be inside when a session is granted the lock: nobody.
LEMMA AloneWhenGranted ==
  ASSUME TypeOK, PatientInv, NEW t \in Tasks, Acquire(t),
         ~HeldByOther(task[t].sess)
  PROVE  Txn \ seized = {}
<1> SUFFICES ASSUME NEW u \in Txn \ seized PROVE FALSE
  OBVIOUS
<1>1. u \in Tasks /\ task[u].pc = "txn" /\ holder.sid = task[u].sess
  BY DEF PatientInv, RunExclusion, Txn
<1>2. task[u].sess # NoSession
  BY <1>1, WriterLockConstants DEF PatientInv, OwnSession
<1>3. task[u].sess = task[t].sess
  BY <1>1, <1>2 DEF HeldByOther
<1>4. task[t].pc = "acquire"
  BY DEF Acquire
<1>5. QED
  BY <1>1, <1>3, <1>4, OnePerSession DEF PatientInv

\* The two ways the lock is granted to a session.
LEMMA GrantedHolder ==
  ASSUME TypeOK, NEW t \in Tasks,
         ForceTake(t) \/ (Acquire(t) /\ ~HeldByOther(task[t].sess))
  PROVE  /\ Granted(t) /\ holder'.sid = task[t].sess
         /\ attached' = attached /\ task[t].pc \in {"acquire", "force"}
<1>1. CASE ForceTake(t)
  BY <1>1 DEF ForceTake
<1>2. CASE Acquire(t) /\ ~HeldByOther(task[t].sess)
  <2>1. CASE holder' = [sid |-> task[t].sess, exclusive |-> task[t].op = "lock"]
    BY <1>2, <2>1, AcquireFields DEF Acquire
  <2>2. CASE holder' = Reentered(task[t].op = "lock") /\ holder.sid = task[t].sess
    <3>1. holder'.sid = task[t].sess
      BY <2>2, ReenteredOK
    <3>2. QED
      BY <1>2, <3>1, AcquireFields DEF Acquire
  <2>3. QED
    BY <1>2, <2>1, <2>2 DEF Acquire
<1>3. QED
  BY <1>1, <1>2

\* A session enters a transaction when nobody is inside or by seizing the
\* lock from whoever is, and leaves with its own hold only.
LEMMA NextRunExclusion ==
  ASSUME Patient, TypeOK, PatientInv, [Next]_vars PROVE RunExclusion'
<1> USE DEF Others, Same
<1>1. ASSUME NEW t \in Tasks, Start(t) \/ WaitEnd(t) \/ Park(t) \/ SendWritten(t)
      PROVE  RunExclusion'
  BY <1>1, RunExclusionKept, StartFields, WaitEndFields, ParkFields, SendWrittenFields
     DEF Start, WaitEnd, Park, SendWritten, PatientInv
<1>2. ASSUME NEW t \in Tasks, NEW s \in Sessions, Spawn(t, s) \/ Send(t, s)
      PROVE  RunExclusion'
  BY <1>2, RunExclusionKept, SpawnFields, SendFields DEF Spawn, Send, PatientInv
<1>3. ASSUME NEW t \in Tasks, holder'.sid = task[t].sess, Granted(t),
             Txn \ seized' \subseteq {u \in Txn : task[u].sess = task[t].sess},
             task[t].pc \in {"acquire", "force"}
      PROVE  RunExclusion'
  <2>1. \A u \in Tasks : task'[u].pc = "txn" /\ u \notin seized' => u = t
    <3> SUFFICES ASSUME NEW u \in Tasks, task'[u].pc = "txn", u \notin seized',
                        u # t
                 PROVE  FALSE
      OBVIOUS
    <3>1. u \in Txn
      BY <1>3, GrantedFields DEF Txn
    <3>2. task[u].sess = task[t].sess
      BY <1>3, <3>1
    <3>3. QED
      BY <1>3, <3>1, <3>2, OnePerSession DEF PatientInv, Txn
  <2>2. task'[t].pc = "txn" => task'[t].sess = task[t].sess
    BY <1>3, GrantedFields
  <2>3. QED
    BY <1>3, <2>1, <2>2 DEF RunExclusion, Txn
<1>4. ASSUME NEW t \in Tasks, ForceTake(t) PROVE RunExclusion'
  <2>1. seized' = seized \cup {u \in Txn : task[u].sess # task[t].sess}
    BY <1>4 DEF ForceTake
  <2>2. Txn \ seized' \subseteq {u \in Txn : task[u].sess = task[t].sess}
    BY <2>1
  <2>3. QED
    BY <1>3, <1>4, <2>2, GrantedHolder
<1>5. ASSUME NEW t \in Tasks, Acquire(t) PROVE RunExclusion'
  <2>1. CASE HeldByOther(task[t].sess)
    <3>1. holder' = holder /\ seized' = seized
      BY <1>5, <2>1 DEF Acquire, HeldByOther
    <3>2. Others(t) /\ task'[t].pc # "txn"
      BY <1>5, <2>1, AcquireFields
    <3>3. QED
      BY <3>1, <3>2, RunExclusionKept DEF PatientInv
  <2>2. CASE ~HeldByOther(task[t].sess)
    <3>1. Txn \ seized = {} /\ seized' = seized
      BY <1>5, <2>2, AloneWhenGranted DEF Acquire
    <3>2. QED
      BY <1>3, <1>5, <2>2, <3>1, GrantedHolder
  <2>3. QED
    BY <2>1, <2>2
<1>6. ASSUME NEW t \in Tasks, RunEnd(t) PROVE RunExclusion'
  <2>1. \A u \in Tasks : task'[u].pc = "txn" =>
          u # t /\ task[u].pc = "txn" /\ task'[u].sess = task[u].sess
    BY <1>6, RunEndFields
  <2>2. seized' = seized \ {t}
    BY <1>6 DEF RunEnd
  <2>3. ASSUME NEW u \in Txn \ seized, u # t PROVE holder' = holder
    <3>1. holder.sid = task[u].sess /\ task[u].sess # task[t].sess
      BY <1>6, <2>3, OnePerSession DEF PatientInv, RunExclusion, Txn, RunEnd
    <3>2. QED
      BY <1>6, <3>1 DEF RunEnd, ReleaseTransient
  <2>4. QED
    BY <2>1, <2>2, <2>3 DEF RunExclusion, Txn, PatientInv
<1>7. ASSUME NEW s \in Sessions, Unlock(s) \/ Detach(s) \/ Cleanup(s)
      PROVE  RunExclusion'
  <2>1. (\A u \in Tasks : Same(u)) /\ ReleaseIfHolder(s, task)
    BY <1>7, UnlockFields
  <2>2. Txn' = Txn /\ \A u \in Txn : task'[u].sess = task[u].sess
    BY <2>1 DEF Txn
  <2>3. Txn \ seized' \subseteq {u \in Txn \ seized : task[u].sess # s}
    <3>1. CASE Unlock(s) \/ Detach(s)
      BY <3>1, QuietWhenReleasing DEF PatientInv, Unlock, Detach, Txn
    <3>2. CASE Cleanup(s)
      BY <3>2 DEF Cleanup, Orphan
    <3>3. QED
      BY <1>7, <3>1, <3>2
  <2>4. ASSUME NEW u \in Txn \ seized' PROVE holder' = holder
    BY <2>1, <2>3, <2>4 DEF ReleaseIfHolder, PatientInv, RunExclusion
  <2>5. QED
    BY <2>2, <2>3, <2>4 DEF RunExclusion, PatientInv
<1>8. CASE UNCHANGED <<holder, task, seized>>
  BY <1>8, RunExclusionKept DEF PatientInv
<1>9. QED
  BY <1>1, <1>2, <1>4, <1>5, <1>6, <1>7, <1>8 DEF Next, Eof, vars

\* A patient session cannot gain the lock while its own force is under way.
LEMMA NextForceSeesOther ==
  ASSUME Patient, TypeOK, PatientInv, [Next]_vars PROVE ForceSeesOther'
<1> USE DEF Others, Same
<1>1. ASSUME holder' \in {holder, Free},
             \A u \in Tasks : task'[u].pc = "force" =>
               task[u].pc = "force" /\ task'[u].sess = task[u].sess
      PROVE  ForceSeesOther'
  <2> SUFFICES ASSUME NEW u \in Tasks, task'[u].pc = "force"
               PROVE  holder'.sid # task[u].sess
    BY <1>1 DEF ForceSeesOther
  <2>1. task[u].sess \in Sessions /\ holder.sid # task[u].sess
    BY <1>1 DEF PatientInv, OwnSession, ForceSeesOther
  <2>2. QED
    BY <1>1, <2>1, WriterLockConstants DEF Free
<1>2. ASSUME NEW t \in Tasks,
             ForceTake(t) \/ (Acquire(t) /\ ~HeldByOther(task[t].sess))
      PROVE  ForceSeesOther'
  <2>1. /\ Granted(t) /\ holder'.sid = task[t].sess
        /\ task[t].pc \in {"acquire", "force"}
    BY <1>2, GrantedHolder
  <2> SUFFICES ASSUME NEW u \in Tasks, task'[u].pc = "force"
               PROVE  holder'.sid # task'[u].sess
    BY DEF ForceSeesOther
  <2>2. u # t /\ task[u].pc = "force" /\ task'[u].sess = task[u].sess
    BY <2>1, GrantedFields
  <2>3. QED
    BY <2>1, <2>2, OnePerSession DEF PatientInv
<1>3. ASSUME NEW t \in Tasks, Acquire(t), HeldByOther(task[t].sess)
      PROVE  ForceSeesOther'
  <2>1. Others(t) /\ holder' = holder /\ holder.sid # task[t].sess
    BY <1>3, AcquireFields DEF Acquire, HeldByOther
  <2>2. task'[t].pc = "force" => task'[t].sess = task[t].sess
    BY <1>3, AcquireFields
  <2>3. QED
    BY <2>1, <2>2 DEF PatientInv, ForceSeesOther
<1>4. ASSUME NEW t \in Tasks, Start(t) \/ WaitEnd(t) \/ Park(t) \/ SendWritten(t)
      PROVE  ForceSeesOther'
  BY <1>1, <1>4, StartFields, WaitEndFields, ParkFields, SendWrittenFields
     DEF Start, WaitEnd, Park, SendWritten
<1>5. ASSUME NEW t \in Tasks, NEW s \in Sessions, Spawn(t, s) \/ Send(t, s)
      PROVE  ForceSeesOther'
  BY <1>1, <1>5, SpawnFields, SendFields DEF Spawn, Send
<1>6. ASSUME NEW t \in Tasks, RunEnd(t) PROVE ForceSeesOther'
  BY <1>1, <1>6, RunEndFields DEF RunEnd, ReleaseTransient
<1>7. ASSUME NEW s \in Sessions, Unlock(s) \/ Detach(s) \/ Cleanup(s)
      PROVE  ForceSeesOther'
  BY <1>1, <1>7, UnlockFields DEF ReleaseIfHolder
<1>8. CASE UNCHANGED <<holder, task>>
  BY <1>1, <1>8
<1>9. QED
  BY <1>2, <1>3, <1>4, <1>5, <1>6, <1>7, <1>8 DEF Next, Eof, vars

\* A `lock` is granted to a session that is attached or known as an orphan, a
\* `run` keeps the kind of its session's hold, and a session that is forgotten
\* has just had its hold released.
LEMMA NextStrandedByOrphan ==
  ASSUME Patient, TypeOK, PatientInv, OpOfPc, [Next]_vars PROVE StrandedByOrphan'
<1>1. ASSUME NEW t \in Tasks,
             ForceTake(t) \/ (Acquire(t) /\ ~HeldByOther(task[t].sess))
      PROVE  StrandedByOrphan'
  <2>1. /\ holder'.sid = task[t].sess /\ attached' = attached
        /\ orphans' = orphans /\ task[t].pc \in Asking
    BY <1>1, GrantedHolder DEF ForceTake, Acquire, Asking
  <2>2. CASE task[t].op = "lock"
    BY <2>1, <2>2 DEF PatientInv, LookedUp, StrandedByOrphan
  <2>3. CASE task[t].op # "lock"
    <3>1. holder'.exclusive => holder.exclusive /\ holder.sid = task[t].sess
      <4>1. \/ holder' = [sid |-> task[t].sess, exclusive |-> task[t].op = "lock"]
            \/ /\ holder' = Reentered(task[t].op = "lock")
               /\ holder.sid = task[t].sess
        BY <1>1 DEF ForceTake, Acquire
      <4>2. (task[t].op = "lock") = FALSE
        BY <2>3
      <4>3. CASE holder' = [sid |-> task[t].sess, exclusive |-> task[t].op = "lock"]
        BY <4>2, <4>3
      <4>4. CASE /\ holder' = Reentered(task[t].op = "lock")
                 /\ holder.sid = task[t].sess
        <5>1. PICK sid \in Sessions \cup {NoSession}, ex \in BOOLEAN :
                holder = [sid |-> sid, exclusive |-> ex]
          BY DEF TypeOK
        <5>2. holder' = [sid |-> sid, exclusive |-> ex]
          BY <4>2, <4>4, <5>1 DEF Reentered
        <5>3. QED
          BY <4>4, <5>1, <5>2
      <4>5. QED
        BY <4>1, <4>3, <4>4
    <3>2. QED
      BY <2>1, <3>1 DEF StrandedByOrphan, PatientInv
  <2>4. QED
    BY <2>2, <2>3
<1>2. ASSUME holder' \in {holder, Free}, attached' = attached, orphans' = orphans
      PROVE  StrandedByOrphan'
  BY <1>2 DEF StrandedByOrphan, PatientInv, Free
<1>3. ASSUME NEW t \in Tasks, Acquire(t), HeldByOther(task[t].sess)
      PROVE  StrandedByOrphan'
  BY <1>2, <1>3 DEF Acquire, HeldByOther
<1>4. ASSUME NEW t \in Tasks,
             Start(t) \/ WaitEnd(t) \/ Park(t) \/ SendWritten(t) \/ RunEnd(t)
      PROVE  StrandedByOrphan'
  BY <1>2, <1>4 DEF Start, WaitEnd, Park, SendWritten, RunEnd, ReleaseTransient
<1>5. ASSUME NEW t \in Tasks, NEW s \in Sessions, Spawn(t, s) \/ Send(t, s)
      PROVE  StrandedByOrphan'
  BY <1>2, <1>5 DEF Spawn, Send
<1>6. ASSUME NEW s \in Sessions, Unlock(s) \/ Detach(s) \/ Cleanup(s)
      PROVE  StrandedByOrphan'
  <2>1. /\ ReleaseIfHolder(s, task) /\ attached' \in {attached, attached \ {s}}
        /\ orphans \subseteq orphans'
    BY <1>6 DEF Unlock, Detach, Cleanup, Orphan
  <2>2. CASE holder.sid = s
    BY <2>1, <2>2 DEF ReleaseIfHolder, StrandedByOrphan, Free
  <2>3. CASE holder.sid # s
    BY <2>1, <2>3 DEF ReleaseIfHolder, StrandedByOrphan, PatientInv
  <2>4. QED
    BY <2>2, <2>3
<1>7. CASE UNCHANGED <<holder, attached, orphans>>
  BY <1>2, <1>7
<1>8. QED
  BY <1>1, <1>3, <1>4, <1>5, <1>6, <1>7 DEF Next, Eof, vars

\* The inductive invariant for patient clients.
LEMMA PatientInvariant == Patient => (Spec => [](TypeOK /\ PatientInv))
<1> SUFFICES ASSUME Patient PROVE Spec => [](TypeOK /\ PatientInv)
  OBVIOUS
<1>1. Init => PatientInv
  BY DEF Init, PatientInv, OneRequest, OwnSession, LookedUp, ForceSeesOther,
         RunExclusion, StrandedByOrphan, Txn, Idle, Free, Asking
<1>2. TypeOK /\ LockInv /\ PatientInv /\ [Next]_vars => PatientInv'
  <2> SUFFICES ASSUME TypeOK, LockInv, PatientInv, [Next]_vars PROVE PatientInv'
    OBVIOUS
  <2>1. OneRequest' /\ OwnSession' /\ LookedUp'
    BY NextRequests DEF PatientInv
  <2>2. QED
    BY <2>1, NextForceSeesOther, NextRunExclusion, NextStrandedByOrphan
       DEF PatientInv, LockInv
<1>3. QED
  BY <1>1, <1>2, LockInvariant, PTL DEF Spec

\* For patient clients, transactions exclude each other.
THEOREM RunExclusionSafe == Patient => (Spec => []RunExclusion)
<1>1. PatientInv => RunExclusion
  BY DEF PatientInv
<1>2. QED
  BY <1>1, PatientInvariant, PTL

\* For patient clients, an exclusive hold outlives its session only if a `lock`
\* of that session did.
THEOREM StrandedSafe == Patient => (Spec => []StrandedByOrphan)
<1>1. PatientInv => StrandedByOrphan
  BY DEF PatientInv
<1>2. QED
  BY <1>1, PatientInvariant, PTL

\* For patient clients, the two critical sections of a force never turn the
\* session's own exclusive hold into a transient one.
THEOREM NoDowngradeSafe == Patient => (Spec => NoDowngrade)
<1> SUFFICES ASSUME Patient PROVE Spec => NoDowngrade
  OBVIOUS
<1>1. TypeOK /\ PatientInv /\ [Next]_vars =>
        [holder.exclusive /\ holder'.sid = holder.sid => holder'.exclusive]_vars
  <2> SUFFICES ASSUME TypeOK, PatientInv, [Next]_vars, holder.exclusive,
                      holder'.sid = holder.sid
               PROVE  holder'.exclusive
    OBVIOUS
  <2>0. holder.sid \in Sessions
    BY DEF PatientInv, StrandedByOrphan, TypeOK
  <2>1. ASSUME NEW t \in Tasks, Acquire(t) PROVE holder'.exclusive
    <3>1. \/ holder.sid = NoSession
          \/ holder' = Reentered(task[t].op = "lock")
          \/ holder' = holder
      BY <2>1 DEF Acquire
    <3>2. (task[t].op = "lock") \in BOOLEAN
      OBVIOUS
    <3>3. Reentered(task[t].op = "lock").exclusive
      BY <3>2, ReenteredOK
    <3>4. CASE holder' = Reentered(task[t].op = "lock")
      BY <3>3, <3>4
    <3>5. CASE holder' = holder
      BY <3>5
    <3>6. QED
      BY <2>0, <3>1, <3>4, <3>5, WriterLockConstants
  <2>2. ASSUME NEW t \in Tasks, ForceTake(t) PROVE FALSE
    BY <2>2, GrantedHolder DEF ForceTake, PatientInv, ForceSeesOther
  <2>3. CASE holder' = holder
    BY <2>3
  <2>4. holder' # Free
    BY <2>0, WriterLockConstants DEF Free
  <2>5. ASSUME NEW t \in Tasks, RunEnd(t) PROVE holder'.exclusive
    BY <2>3, <2>4, <2>5 DEF RunEnd, ReleaseTransient
  <2>6. ASSUME NEW s \in Sessions, Unlock(s) \/ Detach(s) \/ Cleanup(s)
        PROVE  holder'.exclusive
    BY <2>3, <2>4, <2>6 DEF Unlock, Detach, Cleanup, ReleaseIfHolder
  <2>7. QED
    BY <2>1, <2>2, <2>3, <2>5, <2>6
       DEF Next, Start, WaitEnd, Park, SendWritten, Spawn, Send, Eof, vars
<1>2. QED
  BY <1>1, PatientInvariant, PTL DEF NoDowngrade, Spec

-----------------------------------------------------------------------------
(* The promise, for patient clients.                                       *)

\* Only a transaction under way can have been seized.
SeizedInTxn == seized \subseteq Txn

\* A seizure is forgotten with the end of its transaction.
LEMMA NextSeizedInTxn ==
  ASSUME TypeOK, SeizedInTxn, [Next]_vars PROVE SeizedInTxn'
<1>1. ASSUME NEW t \in Tasks, RunEnd(t) PROVE SeizedInTxn'
  <2>1. seized' = seized \ {t} /\ \A u \in Tasks \ {t} : Same(u)
    BY <1>1, RunEndFields DEF RunEnd, Others
  <2>2. QED
    BY <2>1 DEF SeizedInTxn, Txn, Same
<1>2. ASSUME \A u \in Tasks : ~RunEnd(u) PROVE SeizedInTxn'
  <2>1. Txn \subseteq Txn'
    BY <1>2, TxnKept DEF Txn
  <2>2. seized' \subseteq seized \cup Txn
    BY <1>2 DEF Next, Start, WaitEnd, Acquire, ForceTake, Park, SendWritten, Spawn,
                Send, Unlock, Detach, Cleanup, Orphan, Eof, vars
  <2>3. QED
    BY <2>1, <2>2 DEF SeizedInTxn
<1>3. QED
  BY <1>1, <1>2

\* With nobody under the lock's protection there is nobody inside, ...
LEMMA InsideNobody ==
  /\ Txn \ seized = {} => Inside = NoSession
  /\ Txn' \ seized' = {} => Inside' = NoSession
BY DEF Inside, Protected

\* ... and with one transaction it is that one's session.
LEMMA InsideOne ==
  ASSUME NEW t \in Tasks
  PROVE  /\ Txn \ seized = {t} => Inside = task[t].sess
         /\ Txn' \ seized' = {t} => Inside' = task'[t].sess
<1>1. Txn \ seized = {t} => Protected = {task[t].sess}
  BY DEF Protected
<1>2. Txn' \ seized' = {t} => Protected' = {task'[t].sess}
  BY DEF Protected
<1>3. QED
  BY <1>1, <1>2 DEF Inside

\* The state of the promise, as far as its clients can tell.
Untouched == UNCHANGED <<holder.sid, holder.exclusive, Inside, attached>>

\* The steps that leave holder, seized and the set of transactions alone.
LEMMA PromiseUntouched ==
  ASSUME holder' = holder, attached' = attached, Txn' \ seized' = Txn \ seized,
         \A t \in Txn \ seized : task'[t].sess = task[t].sess
  PROVE  Untouched
<1>1. Protected' = Protected
  BY DEF Protected
<1>2. QED
  BY <1>1 DEF Untouched, Inside

\* The owner gives the lock up with nothing running under it.
LEMMA PromiseUnlocked ==
  ASSUME TypeOK, PatientInv, NEW s \in Sessions, holder.sid = s, holder' = Free,
         attached' = attached,
         \A t \in Txn \ seized : task[t].sess # s,
         Txn' \ seized' \subseteq Txn \ seized
  PROVE  Promise!Unlock(s)
<1>1. Txn \ seized = {}
  BY DEF PatientInv, RunExclusion
<1>2. Txn' \ seized' = {}
  BY <1>1
<1>3. Inside = NoSession /\ Inside' = NoSession
  BY <1>1, <1>2, InsideNobody
<1>4. QED
  BY <1>3 DEF Promise!Unlock, Free

\* What the promise becomes when a session is granted the lock: nobody else stays
\* under its protection.
LEMMA PromiseGranted ==
  ASSUME TypeOK, PatientInv, OpOfPc, SeizedInTxn, NEW t \in Tasks, Granted(t),
         task[t].pc \in {"acquire", "force"},
         seized' \subseteq seized \cup Txn,
         \A u \in Txn \ seized' : task[u].sess = task[t].sess
  PROVE  /\ task[t].sess \in Sessions
         /\ \/ task[t].op = "run" /\ Inside' = task[t].sess
            \/ task[t].op = "lock" /\ Inside' = NoSession
<1>1. /\ task[t].sess \in Sessions /\ task[t].op \in Contenders
      /\ t \notin Txn /\ t \notin seized'
  BY DEF PatientInv, OwnSession, OpOfPc, SeizedInTxn, Txn, Asking
<1>2. ASSUME NEW u \in Txn' \ seized', u # t PROVE FALSE
  <2>1. u \in Tasks /\ task[u].pc = "txn"
    BY <1>2, GrantedFields DEF Others, Same, Txn
  <2>2. task[u].sess = task[t].sess
    BY <1>2, <2>1 DEF Txn
  <2>3. QED
    BY <1>2, <2>1, <2>2, OnePerSession DEF PatientInv
<1>3. CASE task[t].op = "run"
  <2>1. t \in Txn' /\ task'[t].sess = task[t].sess
    BY <1>3, GrantedFields DEF Txn
  <2>2. Txn' \ seized' = {t}
    BY <1>1, <1>2, <2>1
  <2>3. QED
    BY <1>1, <1>3, <2>1, <2>2, InsideOne
<1>4. CASE task[t].op # "run"
  <2>1. t \notin Txn'
    BY <1>4, GrantedFields DEF Txn
  <2>2. Txn' \ seized' = {}
    BY <1>2, <2>1
  <2>3. QED
    BY <1>1, <1>4, <2>2, InsideNobody DEF Contenders
<1>5. QED
  BY <1>3, <1>4

\* A grant begins a transaction or locks; nobody was inside.
LEMMA PromiseAcquire ==
  ASSUME TypeOK, PatientInv, OpOfPc, SeizedInTxn, NEW t \in Tasks, Acquire(t)
  PROVE  Untouched \/ \E s \in Sessions : Promise!Begin(s) \/ Promise!Lock(s)
<1>1. CASE HeldByOther(task[t].sess)
  <2>1. /\ holder' = holder /\ seized' = seized /\ Others(t) /\ attached' = attached
        /\ task[t].pc # "txn" /\ task'[t].pc # "txn"
    BY <1>1, AcquireFields DEF Acquire
  <2>2. Txn' = Txn /\ \A u \in Txn : task'[u].sess = task[u].sess
    BY <2>1 DEF Txn, Others, Same
  <2>3. QED
    BY <2>1, <2>2, PromiseUntouched
<1>2. CASE ~HeldByOther(task[t].sess)
  <2> DEFINE s == task[t].sess
  <2>1. /\ Granted(t) /\ holder'.sid = s /\ task[t].pc = "acquire"
        /\ seized' = seized /\ Txn \ seized = {} /\ attached' = attached
    BY <1>2, GrantedHolder, AloneWhenGranted DEF Acquire
  <2>2. /\ s \in Sessions /\ Inside = NoSession
        /\ \/ task[t].op = "run" /\ Inside' = s
           \/ task[t].op = "lock" /\ Inside' = NoSession
    BY <2>1, PromiseGranted, InsideNobody
  <2>3. Promise!Available(s)
    BY <1>2 DEF Promise!Available, HeldByOther
  <2>4. holder.sid = NoSession => ~holder.exclusive
    BY WriterLockConstants DEF PatientInv, StrandedByOrphan, TypeOK
  <2>5. CASE task[t].op = "run"
    <3>1. holder'.exclusive = holder.exclusive
      <4>1. CASE holder' = [sid |-> s, exclusive |-> task[t].op = "lock"]
                 /\ holder.sid = NoSession
        BY <2>4, <2>5, <4>1 DEF TypeOK
      <4>2. CASE holder' = Reentered(task[t].op = "lock")
        <5>1. (task[t].op = "lock") = FALSE
          BY <2>5
        <5>2. PICK sid \in Sessions \cup {NoSession}, ex \in BOOLEAN :
                holder = [sid |-> sid, exclusive |-> ex]
          BY DEF TypeOK
        <5>3. holder' = [sid |-> sid, exclusive |-> ex]
          BY <4>2, <5>1, <5>2 DEF Reentered
        <5>4. QED
          BY <5>2, <5>3
      <4>3. QED
        BY <1>2, <4>1, <4>2 DEF Acquire
    <3>2. Promise!Begin(s)
      BY <2>1, <2>2, <2>3, <2>5, <3>1 DEF Promise!Begin
    <3>3. QED
      BY <2>2, <3>2
  <2>6. CASE task[t].op = "lock"
    <3>1. holder'.exclusive = TRUE
      <4>1. CASE holder' = [sid |-> s, exclusive |-> task[t].op = "lock"]
        BY <2>6, <4>1
      <4>2. CASE holder' = Reentered(task[t].op = "lock")
        <5>1. (task[t].op = "lock") = TRUE
          BY <2>6
        <5>2. Reentered(TRUE) \in [sid: Sessions \cup {NoSession}, exclusive: BOOLEAN]
              /\ Reentered(TRUE).exclusive
          BY ReenteredOK
        <5>3. QED
          BY <4>2, <5>1, <5>2
      <4>3. QED
        BY <1>2, <4>1, <4>2 DEF Acquire
    <3>2. Promise!Lock(s)
      BY <2>1, <2>2, <2>3, <2>6, <3>1 DEF Promise!Lock
    <3>3. QED
      BY <2>2, <3>2
  <2>7. QED
    BY <2>2, <2>5, <2>6
<1>3. QED
  BY <1>1, <1>2

\* The second half of a force is a seizure.
LEMMA PromiseForce ==
  ASSUME TypeOK, PatientInv, OpOfPc, SeizedInTxn, NEW t \in Tasks, ForceTake(t)
  PROVE  \E s \in Sessions : Promise!Seize(s)
<1> DEFINE s == task[t].sess
<1>1. /\ Granted(t) /\ task[t].pc = "force"
      /\ holder' = [sid |-> s, exclusive |-> task[t].op = "lock"]
      /\ seized' = seized \cup {u \in Txn : task[u].sess # task[t].sess}
      /\ attached' = attached
  BY DEF ForceTake
<1>2. /\ s \in Sessions
      /\ \/ task[t].op = "run" /\ Inside' = s
         \/ task[t].op = "lock" /\ Inside' = NoSession
  <2>1. /\ seized' \subseteq seized \cup Txn
        /\ \A u \in Txn \ seized' : task[u].sess = task[t].sess
    BY <1>1
  <2>2. task[t].pc \in {"acquire", "force"}
    BY <1>1
  <2>3. QED
    BY <1>1, <2>1, <2>2, PromiseGranted
<1>3. CASE task[t].op = "run"
  <2>1. holder'.exclusive = FALSE
    BY <1>1, <1>3
  <2>2. QED
    BY <1>1, <1>2, <1>3, <2>1 DEF Promise!Seize
<1>4. CASE task[t].op = "lock"
  <2>1. holder'.exclusive = TRUE
    BY <1>1, <1>4
  <2>2. QED
    BY <1>1, <1>2, <1>4, <2>1 DEF Promise!Seize
<1>5. QED
  BY <1>2, <1>3, <1>4

\* A transaction that ends was the one inside, or had been seized.
LEMMA PromiseRunEnd ==
  ASSUME Patient, TypeOK, PatientInv, SeizedInTxn, NEW t \in Tasks, RunEnd(t)
  PROVE  Untouched \/ \E s \in Sessions : Promise!End(s) \/ Promise!Unlock(s)
<1> DEFINE s == task[t].sess
<1>1. /\ task[t].pc = "txn" /\ task'[t].pc = "idle" /\ Others(t)
      /\ seized' = seized \ {t} /\ attached' = attached
      /\ \/ holder = [sid |-> s, exclusive |-> FALSE] /\ holder' = Free
         \/ holder # [sid |-> s, exclusive |-> FALSE] /\ holder' = holder
  BY RunEndFields DEF RunEnd, ReleaseTransient
<1>2. /\ Txn' = Txn \ {t}
      /\ \A u \in Txn' : task'[u].sess = task[u].sess
  BY <1>1 DEF Txn, Others, Same
<1>3. s \in Sessions
  BY <1>1 DEF PatientInv, OwnSession
<1>4. CASE t \in seized
  <2>1. Txn' \ seized' = Txn \ seized
    BY <1>1, <1>2, <1>4
  <2>2. CASE holder' = holder
    BY <1>1, <1>2, <2>1, <2>2, PromiseUntouched
  <2>3. CASE holder = [sid |-> s, exclusive |-> FALSE] /\ holder' = Free
    <3>1. \A u \in Txn \ seized : task[u].sess # s
      BY <1>1, <1>4, OnePerSession DEF PatientInv, Txn
    <3>2. holder.sid = s
      BY <2>3
    <3>3. Promise!Unlock(s)
      BY <1>1, <1>3, <2>1, <2>3, <3>1, <3>2, PromiseUnlocked
    <3>4. QED
      BY <1>3, <3>3
  <2>4. QED
    BY <1>1, <2>2, <2>3
<1>5. CASE t \notin seized
  <2>1. t \in Txn \ seized
    BY <1>1, <1>5 DEF Txn
  <2>2. holder.sid = s /\ Txn \ seized = {t}
    BY <2>1 DEF PatientInv, RunExclusion
  <2>3. Txn' \ seized' = {}
    BY <1>1, <1>2, <2>2
  <2>4. Inside = s /\ Inside' = NoSession
    BY <2>2, <2>3, InsideNobody, InsideOne
  <2>5. /\ holder'.sid = IF holder.exclusive THEN holder.sid ELSE NoSession
        /\ holder'.exclusive = holder.exclusive
    <3>1. PICK sid \in Sessions \cup {NoSession}, ex \in BOOLEAN :
            holder = [sid |-> sid, exclusive |-> ex]
      BY DEF TypeOK
    <3>2. sid = s
      BY <2>2, <3>1
    <3>3. CASE ex = TRUE
      <4>1. holder # [sid |-> s, exclusive |-> FALSE]
        BY <3>1, <3>3
      <4>2. QED
        BY <1>1, <3>1, <3>3, <4>1
    <3>4. CASE ex = FALSE
      <4>1. holder = [sid |-> s, exclusive |-> FALSE]
        BY <3>1, <3>2, <3>4
      <4>2. holder' = [sid |-> NoSession, exclusive |-> FALSE]
        BY <1>1, <4>1 DEF Free
      <4>3. QED
        BY <4>1, <4>2
    <3>5. QED
      BY <3>3, <3>4
  <2>6. Promise!End(s)
    BY <1>1, <2>4, <2>5 DEF Promise!End
  <2>7. QED
    BY <1>3, <2>6
<1>6. QED
  BY <1>4, <1>5

\* Who unlocks or detaches has nothing running; a connection that ends may have,
\* and takes its transaction out of the lock's protection.
LEMMA PromiseRelease ==
  ASSUME Patient, TypeOK, PatientInv, NEW s \in Sessions,
         Unlock(s) \/ Detach(s) \/ Cleanup(s)
  PROVE  Untouched \/ Promise!Unlock(s) \/ Promise!Leave(s)
<1>1. (\A u \in Tasks : Same(u)) /\ ReleaseIfHolder(s, task)
  BY UnlockFields
<1>2. Txn' = Txn /\ \A u \in Txn : task'[u].sess = task[u].sess
  BY <1>1 DEF Txn, Same
<1>3. Unlock(s) \/ Detach(s) => \A u \in Txn : task[u].sess # s
  BY QuietWhenReleasing DEF PatientInv, Txn
<1>4. CASE Unlock(s)
  <2>1. seized' = seized /\ attached' = attached
    BY <1>4 DEF Unlock
  <2>2. CASE holder.sid = s
    BY <1>1, <1>2, <1>3, <1>4, <2>1, <2>2, PromiseUnlocked DEF ReleaseIfHolder
  <2>3. CASE holder.sid # s
    BY <1>1, <1>2, <2>1, <2>3, PromiseUntouched DEF ReleaseIfHolder
  <2>4. QED
    BY <2>2, <2>3
<1>5. CASE Detach(s) \/ Cleanup(s)
  <2>1. s \in attached /\ attached' = attached \ {s}
    BY <1>5 DEF Detach, Cleanup
  <2>2. Txn' \ seized' = {u \in Txn \ seized : task[u].sess # s}
    BY <1>2, <1>3, <1>5 DEF Detach, Cleanup, Orphan
  <2>3. CASE holder.sid = s
    <3>1. Txn' \ seized' = {}
      BY <2>2, <2>3 DEF PatientInv, RunExclusion
    <3>2. holder' = Free
      BY <1>1, <2>3 DEF ReleaseIfHolder
    <3>3. QED
      BY <2>1, <2>3, <3>1, <3>2, InsideNobody DEF Promise!Leave, Free
  <2>4. CASE holder.sid # s
    <3>1. Txn' \ seized' = Txn \ seized /\ holder' = holder
      BY <1>1, <2>2, <2>4 DEF PatientInv, RunExclusion, ReleaseIfHolder
    <3>2. Protected' = Protected
      BY <1>2, <3>1 DEF Protected
    <3>3. Inside' = Inside
      BY <3>2 DEF Inside
    <3>4. QED
      BY <2>1, <2>4, <3>1, <3>3 DEF Promise!Leave
  <2>5. QED
    BY <2>3, <2>4
<1>6. QED
  BY <1>4, <1>5

\* Every step of patient clients is one of the promise, or none.
LEMMA PromiseStep ==
  ASSUME Patient, TypeOK, PatientInv, OpOfPc, SeizedInTxn, [Next]_vars
  PROVE  [Promise!Next]_<<holder.sid, holder.exclusive, Inside, attached>>
<1>1. ASSUME holder' = holder, seized' = seized, attached' = attached,
             \A u \in Tasks : /\ task'[u].pc = "txn" <=> task[u].pc = "txn"
                              /\ task[u].pc = "txn" => task'[u].sess = task[u].sess
      PROVE  Untouched
  <2>1. Txn' = Txn /\ \A u \in Txn : task'[u].sess = task[u].sess
    BY <1>1 DEF Txn
  <2>2. QED
    BY <1>1, <2>1, PromiseUntouched
<1>2. ASSUME NEW t \in Tasks, Start(t) \/ WaitEnd(t) \/ Park(t) \/ SendWritten(t)
      PROVE  Untouched
  BY <1>1, <1>2, StartFields, WaitEndFields, ParkFields, SendWrittenFields
     DEF Start, WaitEnd, Park, SendWritten, Others, Same
<1>3. ASSUME NEW t \in Tasks, NEW s \in Sessions, Spawn(t, s) \/ Send(t, s)
      PROVE  Untouched
  BY <1>1, <1>3, SpawnFields, SendFields DEF Spawn, Send, Others, Same
<1>4. ASSUME UNCHANGED <<holder, seized, task, attached>> PROVE Untouched
  BY <1>1, <1>4
<1>5. ASSUME NEW t \in Tasks, Acquire(t) \/ ForceTake(t) \/ RunEnd(t)
      PROVE  Untouched \/ Promise!Next
  BY <1>5, PromiseAcquire, PromiseForce, PromiseRunEnd DEF Promise!Next
<1>6. ASSUME NEW s \in Sessions, Unlock(s) \/ Detach(s) \/ Cleanup(s)
      PROVE  Untouched \/ Promise!Next
  BY <1>6, PromiseRelease DEF Promise!Next
<1>7. Untouched \/ Promise!Next
  <2>1. CASE UNCHANGED vars \/ \E c \in Conns : Eof(c)
    BY <1>4, <2>1 DEF Eof, vars
  <2>2. CASE Next /\ ~\E c \in Conns : Eof(c)
    BY <1>2, <1>3, <1>5, <1>6, <2>2 DEF Next
  <2>3. QED
    BY <2>1, <2>2
<1>8. QED
  BY <1>7 DEF Untouched

\* For patient clients the lock is what docs/PROTOCOL.md promises: one owner, one
\* transaction inside, ended or seized before the next.
THEOREM LockPromiseKept == Patient => (Spec => KeepsLockPromise)
<1> SUFFICES ASSUME Patient PROVE Spec => KeepsLockPromise
  OBVIOUS
<1>1. Init => SeizedInTxn /\ OpOfPc
  BY DEF Init, SeizedInTxn, OpOfPc, Idle, Asking
<1>2. TypeOK /\ OpOfPc /\ SeizedInTxn /\ [Next]_vars => SeizedInTxn' /\ OpOfPc'
  BY NextSeizedInTxn, NextOpOfPc
<1>3. Init => Promise!Init
  <2>1. Init => Txn \ seized = {}
    BY DEF Init, Txn, Idle
  <2>2. QED
    BY <2>1, InsideNobody DEF Init, Promise!Init, Free
<1>4. TypeOK /\ PatientInv /\ OpOfPc /\ SeizedInTxn /\ [Next]_vars
        => [Promise!Next]_<<holder.sid, holder.exclusive, Inside, attached>>
  BY PromiseStep
<1>5. QED
  BY <1>1, <1>2, <1>3, <1>4, PatientInvariant, TypeCorrect, PTL
     DEF Spec, KeepsLockPromise, Promise!Spec
=============================================================================
