\* A drain job of indexa serve in mode Augment with the watcher on; alpha comes and goes, its content may return, beta stays beside it; every request comes at any time.
CONSTANTS
  top = top  alpha = alpha  beta = beta  w1 = w1  w2 = w2  pa = pa
  None = None
  Absent = Absent
  Path = {top, alpha, beta}
  Dir = {top}
  Depth <- MCDepth
  Ancestors <- MCAncestors
  Sensitive = {}
  Volatile = {alpha}
  Retryable = {}
  Worker = {w1}
  Proc = {pa}
  ProcOf <- MCProcOf
  Daemon = {}
  Sweeper = {pa}
  Crashable = {pa}
  MaxAttempts = 2
  MaxDirDefers = 1
  MaxFaults = 0
  MaxEvents = 5
  KeepsChunks = TRUE
  Watching = TRUE
  Reverts = TRUE
  Meanwhile = {"enqueue", "regenerate", "remove"}
  MaxVersion = 1
  MaxTime = 0
SPECIFICATION PipelineSpec
INVARIANTS NoGhostSummary RegenerateDefeatsGate RollUpsForgetTheDead
\* The environment may stop: deadlock means an idle system.
CHECK_DEADLOCK FALSE
