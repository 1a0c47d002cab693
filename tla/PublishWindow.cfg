SPECIFICATION Spec
CONSTANTS
  Setups <- MCSetups
  MaxRelease = 2
  SyncPaths = {static}
  Rollers = {"cli"}
  WithDB = {FALSE, TRUE}
  RollbackWhen = "complete"
INVARIANTS OpenSiteIsWhole PlanKeepsItsOrder
PROPERTIES  DownWhileChanged NoMigrationMissed  OpenWindowIsReported DowntimeIsBounded
CHECK_DEADLOCK FALSE
