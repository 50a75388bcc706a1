SPECIFICATION Spec
CONSTANTS
  app = app cli = cli
  run = run command = command
  fox = fox otter = otter
  home = home away = away far = far farther = farther
  Worktrees = {fox, otter}
  Places = {home, away, far, farther}
  Nested = Nested
  Far = {}
  Home <- MCHome
  Procs = {app}
  Tasks = {run}
  Proc <- OneProc
  Alien = Alien
  None = None
  Squatters = FALSE
  SlowTurn = FALSE
  LateTurn = FALSE
  MaxMoves = 4
  MaxCrashes = 0
  MaxFaults = 0
  MaxMade = 1
  MaxNotes = 0
INVARIANTS OldIdLeads
