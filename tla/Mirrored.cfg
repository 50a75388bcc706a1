SPECIFICATION FairSpec
CONSTANTS
  None = None
  Overlaps = {}
  MaxSessions = 3
  MaxWorks = 1
  MaxAsks = 2
  MaxTroubles = 1
CHECK_DEADLOCK FALSE
INVARIANTS TypeOK TakesNothing NothingCrosses OneRunning LeftRunning
PROPERTIES DeleteEnds
