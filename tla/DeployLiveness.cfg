SPECIFICATION FairSpec
CONSTANTS
  Run = {r1}
  NoRun = NoRun
  MaxRelease = 2
  Keep = 1
  Foreign = {}
  Pipeline <- ShortPipeline
  Commands = {"deploy", "resume", "unlock"}
  Discipline = "exclusive"
  SlowRuns = FALSE
  SkipLock = {FALSE}
  UnlockForce = {FALSE}
  MaxFaults = 3
INVARIANT LiveIsBuilt
PROPERTIES ResumeFinishes
