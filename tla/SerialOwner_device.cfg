CONSTANTS
  h1 = h1
  h2 = h2
  h3 = h3
  Calls = {h1, h2, h3}
  Backends = {"real", "fd"}
  Fields <- TwoFields
  Values = {"a", "b"}
  Default <- Initial
  Updates <- Both
  Ops <- ThreeOps
  CtrlCap = 1
  WriteCap = 1
SPECIFICATION FairSpec
CHECK_DEADLOCK FALSE
INVARIANT SettingsInForce
INVARIANT DisconnectHolds
INVARIANT EventsTellState
PROPERTY CallsAnswered
PROPERTY Reopens
