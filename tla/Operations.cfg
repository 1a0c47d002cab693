SPECIFICATION FairSpec
CONSTANTS
  Calls = {1, 2, 3, 4}
  KindOf <- MixedKinds
  MaxCrashes = 1
CHECK_DEADLOCK FALSE
INVARIANTS OneTerminalRecord NothingLost  OneTransfer
PROPERTIES EveryOperationIsRecorded OperationsAreATrail
