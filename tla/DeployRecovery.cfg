SPECIFICATION Spec
CONSTANTS
  Run = {r1}
  NoRun = NoRun
  MaxRelease = 4
  Keep = 1
  Foreign = {1}
  Pipeline <- FullPipeline
  Commands = {"deploy", "resume", "rollback", "unlock"}
  Discipline = "exclusive"
  SlowRuns = FALSE
  SkipLock = {FALSE}
  UnlockForce = {FALSE, TRUE}
  MaxFaults = 3
INVARIANTS UsableIsBuilt ForeignUntouched
   
