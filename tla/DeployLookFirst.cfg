SPECIFICATION Spec
CONSTANTS
  Run = {r1, r2}
  NoRun = NoRun
  MaxRelease = 2
  Keep = 1
  Foreign = {}
  Pipeline <- ShortPipeline
  Commands = {"deploy", "resume", "rollback", "unlock"}
  Discipline = "look_first"
  SlowRuns = TRUE
  SkipLock = {FALSE, TRUE}
  UnlockForce = {FALSE, TRUE}
  MaxFaults = 2
SYMMETRY Symmetry
INVARIANT HolderKeepsLock
PROPERTIES LockIsAMutex 
