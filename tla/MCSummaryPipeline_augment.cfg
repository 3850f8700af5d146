\* One drain job in mode Augment: alpha is edited after deep stored its chunks, and then summarized from them.
CONSTANTS
  top = top  alpha = alpha  beta = beta  w1 = w1  w2 = w2  pa = pa
  None = None
  Absent = Absent
  Path = {top, alpha}
  Dir = {top}
  Depth <- MCDepth
  Ancestors <- MCAncestors
  Sensitive = {}
  Volatile = {alpha}
  Retryable = {}
  Worker = {w1}
  Proc = {pa}
  ProcOf <- MCProcOf
  Daemon = {}
  Sweeper = {}
  Crashable = {}
  MaxAttempts = 2
  MaxDirDefers = 1
  MaxFaults = 0
  MaxEvents = 4
  KeepsChunks = TRUE
  Watching = FALSE
  Reverts = FALSE
  Meanwhile = {"enqueue", "regenerate", "remove"}
  MaxVersion = 2
  MaxTime = 1
SPECIFICATION PipelineSpec
INVARIANTS SkippedIsTrue
\* The environment may stop: deadlock means an idle system.
CHECK_DEADLOCK FALSE
