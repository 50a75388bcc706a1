SPECIFICATION Spec
CONSTANTS
  Default = home
  Places = {home, away}
  Procs = {app, doctor}
  App = app
  Doctors = {doctor}
  Worktrees = {wt1, wt2}
  None = None
  HasLegacy = TRUE
  AtomicStart = TRUE
  MaxMoves = 1
  MaxCrashes = 2
  MaxFaults = 1
  MaxWrites = 0
  MaxCaptures = 2
  MaxTouches = 1
SYMMETRY WorktreeSymmetry
INVARIANTS FoundWhole LastCaptureKept
