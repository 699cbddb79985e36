SPECIFICATION FairSpec
CONSTANTS
  Instance = {i1, i2}
  Table = {mine}
  MyTurn = {mine}
  NoTable = NoTable
  Nobody = Nobody
  FrameDelay = 1
  Delays = {1}
  HeartbeatsToPause = 3
  MaxStable = 2
  SecondaryFormulas = {TRUE}
  PrimaryFormulas = {TRUE}
  Simulated = {}
  Disturbances = {"toggle"}
PROPERTY PrimaryNotBlocked
