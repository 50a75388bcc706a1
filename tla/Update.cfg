SPECIFICATION FairSpec
CONSTANTS
  Sources = {fox}
  Devices = {laptop}
  Nobody = Nobody
  MaxQueued = 2
  MaxComings = 1
  Attended = {window}
  Unattended = {peer}
  Holders = {"move"}
  None = None
  MaxRelease = 1
  MaxCalls = 2
  MaxHolds = 1
  MaxTroubles = 1
INVARIANTS TypeOK RunsAreListed OneInstall HoldStands
PROPERTIES WaitingStarts UpdateEnds
