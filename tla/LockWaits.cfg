SPECIFICATION FairSpec
CONSTANTS
  app = app cli = cli
  outer = outer inner = inner other = other command = command
  move = move settle = settle
  Procs = {app, cli}
  Changes = {outer, inner, other}
  Movers = {move, settle}
  Owner <- MCOwner
  Outer <- MCOuter
  Places = {home, away}
  None = None
  MaxAsks = 2
  MaxMoves = 2
  MaxCrashes = 1
  MaxFaults = 0
INVARIANTS RefusesRightly
PROPERTIES EveryoneGetsIn
