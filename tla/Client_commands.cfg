\* Three bytes down in chunks of up to two, two up, three probes.
CONSTANTS
  Commands <- MCCommands
  MaxSeq = 3
  MaxTyped = 2
  MaxChunk = 2
  MaxProbes = 3
SPECIFICATION Spec
INVARIANTS DoneOnce OkMeansDone
PROPERTIES StreamsInOrder CommandEnds
CHECK_DEADLOCK FALSE
