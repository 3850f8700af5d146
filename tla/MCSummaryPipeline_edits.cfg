\* One worker process in mode Augment, top and its file alpha; edits and refreshes come at any time, other requests when no run is in hand.
CONSTANTS
  top = top  alpha = alpha  beta = beta  w1 = w1  w2 = w2  pa = pa
  None = None
  Absent = Absent
  Path = {top, alpha}
  Dir = {top}
  Depth <- MCDepth
  Ancestors <- MCAncestors
  Sensitive = {}
  Volatile = {}
  Retryable = {}
  Worker = {w1}
  Proc = {pa}
  ProcOf <- MCProcOf
  Daemon = {pa}
  Sweeper = {pa}
  Crashable = {pa}
  MaxAttempts = 2
  MaxDirDefers = 1
  MaxFaults = 1
  MaxEvents = 4
  KeepsChunks = TRUE
  Watching = FALSE
  Reverts = FALSE
  Meanwhile = {"enqueue"}
  MaxVersion = 3
  MaxTime = 1
SPECIFICATION PipelineSpec
INVARIANTS PipelineTypeOK  StaleIsSeen FilesConverge RollUpsConverge MerkleGateSound
\* The environment may stop: deadlock means an idle system.
CHECK_DEADLOCK FALSE
