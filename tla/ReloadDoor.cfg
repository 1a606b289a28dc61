SPECIFICATION OpsSpec
CONSTANTS
  desk = desk
  side = side
  auto = auto
  Displays = {desk, side}
  Rules = {auto}
  RuleDisplays <- MCRuleDisplays
  Nobody = Nobody
  Faults = {"verify"}
  Requests <- MCRequests
  MaxRequests = 0
  MaxReloads = 1
INVARIANTS
  OpenDoorIsCurrent
CHECK_DEADLOCK FALSE
