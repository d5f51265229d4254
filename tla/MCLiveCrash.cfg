SPECIFICATION FairSpec
CONSTANTS
  MaxRuns = 1
  MaxFence = 2
  MaxLag = 1
  MaxProgress = 1
  MaxItems = 0
  LeaseTicks = 2
  Keys = {"k1"}
  Configs = {"small"}
  Concurrency = 2
  QueueLimit = 2
  Resources = {"cpu"}
  Limits <- MCLimits
  Budget <- MCBudget
  Reserve <- MCReserve
  None = None
  Supervisors = {s1}
  MaxCrashes = 2
  DockerFaults = FALSE
  LateRollback = FALSE
PROPERTIES EveryRunEnds CancelEnds
