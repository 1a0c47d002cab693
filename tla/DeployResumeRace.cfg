SPECIFICATION Spec
CONSTANTS
  Run = {r1, r2}
  NoRun = NoRun
  MaxRelease = 1
  Keep = 1
  Foreign = {}
  Pipeline <- ShortPipeline
  Commands = {"deploy", "resume"}
  Discipline = "none"
  SlowRuns = FALSE
  SkipLock = {FALSE}
  UnlockForce = {FALSE}
  MaxFaults = 1
INVARIANT OneDeployPerRelease
