\* Two processes that claim one after another, two slots, a link left from
\* earlier or not, two daemons on the default socket, one kill.
CONSTANTS
  p1 = p1
  p2 = p2
  d1 = d1
  d2 = d2
  Procs <- MCProcs
  Clients <- MCProcs
  Servers <- MCServers
  Named <- MCNamed
  Leftovers <- Remains
  Gone = Gone
  None = None
  Nobody = Nobody
  Stale = Stale
  LastSlot = 2
  OneAtATime = TRUE
  MaxKills = 1
  MaxDeaths = 1
  MaxStarted = 3
SPECIFICATION HostSpec
INVARIANTS HolderKeepsLink NothingOutlivesClient SomeServerReached LinkGoneBeforeDaemon
PROPERTIES StaleSlotIsReused Settles
CHECK_DEADLOCK FALSE
