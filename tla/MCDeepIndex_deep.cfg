\* A terminal pass beside a web job, two files.
CONSTANTS
  fa = fa  fb = fb  x = x  y = y  cli = cli  web = web  m1 = m1  m2 = m2
  Worker = {cli, web}
  Terminal = {cli}
  File = {fa, fb}
  Text = {x, y}
  Version <- MCVersion
  Model = {m1, m2}
  None = None
  BatchSize = 2
  MaxClock = 1
  MaxRuns = 2
  MaxEdits = 1
  MaxFaults = 1
SPECIFICATION Spec
SYMMETRY Alike
INVARIANTS DeepTypeOK WholeFile VectorOfItsText OrphansAreAnnounced ProgressIsKept DoneIsCurrent
CHECK_DEADLOCK FALSE
