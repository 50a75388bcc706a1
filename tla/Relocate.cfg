SPECIFICATION Spec
CONSTANTS
  app = app cli = cli
  run = run command = command
  fox = fox otter = otter
  home = home away = away far = far farther = farther
  Worktrees = {fox, otter}
  Places = {home, away, far}
  Nested = Nested
  Far = {far}
  Home <- MCHome
  Procs = {app, cli}
  Tasks = {run, command}
  Proc <- MCProc
  Alien = Alien
  None = None
  Squatters = FALSE
  SlowTurn = FALSE
  LateTurn = FALSE
  MaxMoves = 2
  MaxCrashes = 1
  MaxFaults = 1
  MaxMade = 1
  MaxNotes = 1
SYMMETRY Swap
INVARIANTS TypeOK WorkFound AllFollows OneWorker
PROPERTIES DeletesCopies
