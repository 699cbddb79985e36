SPECIFICATION Spec
CONSTANTS
  Instance = {i1, i2}
  Window = {w1, w2}
  NoWindow = NoWindow
  MaxSessionIds = 2
  Nobody = Nobody
  Events = {"close", "crash", "exit", "hopper", "reuse", "tablemap"}
SYMMETRY Symmetry
INVARIANTS TypeOK SharedMemoryAgrees MarkedOnce
PROPERTY ServiceSpec
