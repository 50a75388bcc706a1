SPECIFICATION Spec
CONSTANTS
  Directions = {"pull", "send"}
  Mirrors = FALSE
  Overlap = TRUE
  None = None
  Elsewhere = Elsewhere
  MaxAttempts = 2
  MaxCommits = 1
  MaxEdits = 0
  MaxCancels = 0
  MaxStops = 0
INVARIANTS NothingLost
