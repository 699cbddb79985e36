SPECIFICATION FairSpec
CONSTANTS
  Instance = {i1, i2}
  Window = {w1, w2}
  NoWindow = NoWindow
  MaxSessionIds = 2
  Nobody = Nobody
  Events = {"exit", "crash"}
PROPERTY TableGetsServed
