SPECIFICATION Spec
CONSTANTS
  p1 = p1
  p2 = p2
  Procs = {p1, p2}
  Tasks = {1, 2}
  MaxRuns = 2
  Local = {2}
  Sourced = {1}
  Stoppable = {}
  Once = {2}
  Edited = {2}
  Halting = {}
  Queueing = {1, 2}
  Priority <- MCPriority
  Concurrency <- MCConcurrency
  QueueLimit <- MCQueueLimit
  Entries = {e1}
  e1 = e1
  Covers <- MCCovers
  Ages = {"due"}
  MaxQueued = 1
  MaxWorkers = 1
  MaxOutages = 0
  MaxLooks = 1
  MaxUnknown = 1
  Unknown = {"claims", "outcomes"}
INVARIANTS
  FencedTasksDoNotQueue WorkLimited StartedOnce TruthfulEnd OneContinuation
PROPERTIES
  RunSettled
CHECK_DEADLOCK FALSE
SYMMETRY Sym
