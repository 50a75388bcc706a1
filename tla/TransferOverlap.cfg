SPECIFICATION FairSpec
CONSTANTS
  Directions = {"pull", "send"}
  Mirrors = TRUE
  Overlap = TRUE
  None = None
  Elsewhere = Elsewhere
  MaxAttempts = 2
  MaxCommits = 0
  MaxEdits = 0
  MaxCancels = 2
  MaxStops = 1
INVARIANTS LeavesNothing
PROPERTIES FinishedCopyStays CutShortEnds
