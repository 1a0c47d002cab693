SPECIFICATION Spec
CONSTANTS
  Setups <- PlainSetups
  MaxRelease = 2
  SyncPaths = {static}
  Rollers = {"cli"}
  WithDB = {TRUE}
  RollbackWhen = "complete"
INVARIANT HalfRestoredIsNotServed
CHECK_DEADLOCK FALSE
