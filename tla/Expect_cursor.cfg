CONSTANTS
  s1 = s1
  Capacity = 2
  Sessions = {s1}
  Scripts <- Texts
  Pattern <- PQ
  FromSeqs = {1}
  Strips = {FALSE, TRUE}
  SentBytes = 1
  MaxBytes = 3
  MaxChunk = 2
SPECIFICATION FairSpec
CHECK_DEADLOCK FALSE
INVARIANT FirstMatch
INVARIANT TimeoutHonest
INVARIANT ConsumedOnce
INVARIANT NeverPastMatch
PROPERTY TimedAnswered
