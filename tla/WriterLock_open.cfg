CONSTANTS
  s1 = s1
  s2 = s2
  s3 = s3
  c1 = c1
  c2 = c2
  c3 = c3
  t1 = t1
  t2 = t2
  t3 = t3
  NoSession = NoSession
  Sessions = {s1, s2, s3}
  Conns = {c1, c2}
  ConnOf <- SharedConn
  Serves <- SharedServes
  Tasks = {t1, t2, t3}
  Preempts = {"queue", "force"}
  Pipelined = TRUE
  MayClose = TRUE
  MayReset = TRUE
  Timed = TRUE
SPECIFICATION Spec
CHECK_DEADLOCK FALSE
INVARIANT TypeOK
INVARIANT TransientHoldBacked
INVARIANT OneLateSend
SYMMETRY Interchangeable
