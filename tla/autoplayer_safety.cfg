SPECIFICATION Spec
CONSTANTS
  Instance = {i1}
  Table = {mine1, mine2, others}
  MyTurn = {mine1, mine2}
  NoTable = NoTable
  Nobody = Nobody
  FrameDelay = 2
  Delays = {0, 1}
  HeartbeatsToPause = 2
  MaxStable = 3
  SecondaryFormulas = {TRUE, FALSE}
  PrimaryFormulas = {TRUE, FALSE}
  Simulated = {}
  Disturbances = {"dll_wait", "flags", "iterator", "popup", "reconnect", "slow", "toggle"}
SYMMETRY Symmetry
INVARIANTS TypeOK ActsOnStableView
