SPECIFICATION FairSpec
CONSTANTS
  Default = home
  Places = {home, away}
  Procs = {app, cli}
  App = app
  Doctors = {}
  Worktrees = {wt1}
  None = None
  HasLegacy = FALSE
  AtomicStart = TRUE
  MaxMoves = 2
  MaxCrashes = 2
  MaxFaults = 1
  MaxWrites = 1
  MaxCaptures = 1
  MaxTouches = 0
INVARIANTS JournalRefuses OpenStands
PROPERTIES Settles KeepsPromise
