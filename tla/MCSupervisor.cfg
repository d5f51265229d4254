SPECIFICATION SupSpec
CONSTANTS
  MaxRuns = 1
  MaxFence = 2
  MaxLag = 1
  MaxProgress = 0
  MaxItems = 0
  LeaseTicks = 2
  Keys = {"k1"}
  Configs = {"small"}
  Concurrency = 2
  QueueLimit = 2
  Resources = {"cpu"}
  Limits <- MCLimits
  Budget <- MCBudget
  Reserve <- MCReserve
  None = None
  Supervisors = {s1, s2}
  MaxCrashes = 1
  DockerFaults = FALSE
  LateRollback = FALSE
INVARIANTS ReservedWhileAlive
SYMMETRY Identical
CONSTRAINT EarlyCancel
