\* A server that runs one job at a time is asked for two; a tab follows one of them and
\* loses its connection once. The channel holds one event, the history one warning.
CONSTANTS
  j1 = j1  j2 = j2  c1 = c1
  None = None
  Job = {j1, j2}
  Panicky = {j2}
  Quiet = {j2}
  Unwanted = {j2}
  Client = {c1}
  MaxJobs = 1
  MaxWarnings = 1
  Capacity = 1
  TailLen = 1
  Text = {1, 2}
  MaxEvents = 4
  MaxDrops = 1
SPECIFICATION Spec
INVARIANTS JobTypeOK CapHolds ReplayNeverRestarts NothingUnannounced
PROPERTIES EndIsSeen CancelEnds
CHECK_DEADLOCK FALSE
