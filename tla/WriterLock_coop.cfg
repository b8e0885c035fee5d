CONSTANTS
  s1 = s1
  s2 = s2
  s3 = s3
  c1 = c1
  c2 = c2
  c3 = c3
  t1 = t1
  t2 = t2
  t3 = t3
  NoSession = NoSession
  Sessions = {s1, s2}
  Conns = {c1, c2}
  ConnOf <- OwnConn
  Serves <- OwnServes
  Tasks = {t1, t2}
  Preempts = {"queue", "fail", "force"}
  Pipelined = FALSE
  MayClose = TRUE
  MayReset = TRUE
  Timed = TRUE
SPECIFICATION FairSpec
CHECK_DEADLOCK FALSE
INVARIANT RunExclusion
 
PROPERTY NoDowngrade
 
PROPERTY KeepsLockPromise
