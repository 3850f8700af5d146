\* A command-line scan of two overlapping roots and a web scan, with a watcher, kills and unmounts.
CONSTANTS
  alpha = alpha  beta = beta  top = top  sub = sub  cli = cli  web = web
  None = None
  Path = {alpha, beta}
  Root = {top, sub}
  Under <- MCUnder
  Scanner = {cli, web}
  RootsOf <- MCRootsOf
  Streaming = {cli}
  MaxRuns = 3
  MaxEvents = 2
  MaxFaults = 1
SPECIFICATION Spec
INVARIANTS OneRunPerGeneration
PROPERTIES ReconcileSparesSteadyFiles ReconcileDropsGhosts
\* The environment may stop: deadlock means an idle system.
CHECK_DEADLOCK FALSE
