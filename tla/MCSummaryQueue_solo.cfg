\* `indexa serve` with two summarize jobs; r and a file f in it that comes and goes and may be retried.
CONSTANTS
  r = r  d = d  a = a  f = f
  w1 = w1  w2 = w2  pa = pa  pb = pb
  None = None
  Path = {r, f}
  Dir = {r}
  Depth <- MCDepth
  Ancestors <- MCAncestors
  Sensitive = {}
  Volatile = {f}
  Retryable = {f}
  Worker = {w1, w2}
  Proc = {pa}
  ProcOf <- OneProcess
  Daemon = {}
  Sweeper = {pa}
  Crashable = {pa}
  MaxAttempts = 2
  MaxDirDefers = 1
  MaxFaults = 2
  MaxEvents = 6
SPECIFICATION Spec
INVARIANTS TypeOK ClaimExclusive InFlightAccounted AttemptsCountLostRuns
PROPERTIES SweepFailsOnlyRepeatOffenders
\* The environment may stop: deadlock means an idle system.
CHECK_DEADLOCK FALSE
