\* One terminal pass after another, the embedding model switched between them.
CONSTANTS
  fa = fa  fb = fb  x = x  y = y  cli = cli  web = web  m1 = m1  m2 = m2
  Worker = {cli}
  Terminal = {cli}
  File = {fa, fb}
  Text = {x, y}
  Version <- MCVersion
  Model = {m1, m2}
  None = None
  BatchSize = 2
  MaxClock = 1
  MaxRuns = 2
  MaxEdits = 1
  MaxFaults = 0
SPECIFICATION Spec
SYMMETRY Alike
INVARIANT OneModelAfterDeep
CHECK_DEADLOCK FALSE
