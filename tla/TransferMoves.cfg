SPECIFICATION Spec
CONSTANTS
  Directions = {"pull", "send"}
  Mirrors = FALSE
  Overlap = FALSE
  None = None
  Elsewhere = Elsewhere
  MaxAttempts = 2
  MaxCommits = 1
  MaxEdits = 2
  MaxCancels = 1
  MaxStops = 1
INVARIANTS NothingLost ReceiptStands
PROPERTIES Relocates
