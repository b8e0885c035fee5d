CONSTANTS
  s1 = s1
  s2 = s2
  NoSession = NoSession
  Capacity = 2
  MaxSeq = 4
  MaxChunk = 3
  Sessions = {s1, s2}
  Replays = {"start", "now", "seq"}
SPECIFICATION FairSpec
CHECK_DEADLOCK FALSE
INVARIANT SleepMissesOnlyItsPass
PROPERTY KeepsStreamPromise
PROPERTY FanoutRests
