CONSTANTS
  s1 = s1
  s2 = s2
  NoSession = NoSession
  Capacity = 2
  MaxSeq = 4
  MaxChunk = 3
  Sessions = {s1}
  Replays = {"start", "now"}
SPECIFICATION FairSpec
CHECK_DEADLOCK FALSE
PROPERTY DataDelivered
