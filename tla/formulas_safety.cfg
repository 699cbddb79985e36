SPECIFICATION Spec
CONSTANTS
  alli = alli
  delay = delay
  call = call
  sub = sub
  Function = {alli, delay, call, sub}
  Body <- Recursive
  kMaxRecursionDepth = 3
  MaxAge = 3
  ResetFormulas <- MCResetFormulas
  f_delay = delay
  HeartbeatFormulas <- MCHeartbeat
  SecondaryFormulas <- MCSecondary
  f_alli = alli
  PrimaryFormulas <- MCPrimary
  Decisions <- MCDecisions
  BackupActions <- MCBackupActions
  Backup <- MCBackup
  DebugFormulas <- MCDebug
  GuiOperations = {"calc", "debug", "flags", "engage"}
  Nobody = Nobody
\* The heartbeat thread inside a too deep recursion and the GUI thread may wait for
\* each other: see StopsOnRecursion.
CHECK_DEADLOCK FALSE
INVARIANTS TypeOK StackBounded PrimaryFresh ValuesRecent
