\* Two threads of a process may wait for each other.
CHECK_DEADLOCK FALSE
SPECIFICATION FairSpec
CONSTANTS
  Instance = {i1, i2}
  Window = {w1, w2}
  NoWindow = NoWindow
  MaxSessionIds = 2
  Nobody = Nobody
  Events = {"close"}
PROPERTY CleanUpCompletes
