\* One worker process with two loops that is killed and started again, under fair scheduling.
CONSTANTS
  r = r  d = d  a = a  f = f
  w1 = w1  w2 = w2  pa = pa  pb = pb
  None = None
  Path = {r, d, f}
  Dir = {r, d}
  Depth <- MCDepth
  Ancestors <- MCAncestors
  Sensitive = {}
  Volatile = {}
  Retryable = {}
  Worker = {w1, w2}
  Proc = {pa}
  ProcOf <- OneProcess
  Daemon = {pa}
  Sweeper = {pa}
  Crashable = {pa}
  MaxAttempts = 2
  MaxDirDefers = 1
  MaxFaults = 2
  MaxEvents = 2
SPECIFICATION FairSpec
PROPERTIES ImplementsLeases EveryItemSettles
\* The environment may stop: deadlock means an idle system.
CHECK_DEADLOCK FALSE
