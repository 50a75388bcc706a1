SPECIFICATION FairSpec
CONSTANTS
  None = None
  NDevices = 2
  Accounts = {home, work}
  Home = home
  Caps = {1, 2}
  Overtaken = FALSE
  MaxDials = 3
  MaxAsks = 2
  MaxTroubles = 1
CHECK_DEADLOCK FALSE
INVARIANTS TypeOK AdmittedHolds NeverBlocksItself NoneStranded
PROPERTIES LeavesWhenAsked LinksSettle
