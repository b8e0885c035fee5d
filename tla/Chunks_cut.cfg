\* Up to four keys of five kinds; up to five bytes of four kinds, under a limit
\* of three bytes to a line.
CONSTANTS
  MaxKeys = 4
  MaxPending = 3
  MAX_LINE_BYTES = 3
  MaxBytes = 5
SPECIFICATION ChunksSpec
INVARIANTS KeysAsTyped BeliefHolds DecodedAsSent
PROPERTIES EscapeReturns
CHECK_DEADLOCK FALSE
