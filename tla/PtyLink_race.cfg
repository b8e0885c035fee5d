CONSTANTS
  p1 = p1
  p2 = p2
  Procs <- MCProcs
  Named = {}
  Leftovers <- DeadLink
  Gone = Gone
  None = None
  LastSlot = 2
  OneAtATime = FALSE
  MaxKills = 0
SPECIFICATION LinkSpec
PROPERTIES LiveLinkStays
CHECK_DEADLOCK FALSE
