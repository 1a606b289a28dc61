SPECIFICATION RoomSpec
CONSTANTS
  Ladder <- ControllerOnly
  GracePeriod = 1
  MinWakeTime = 2
  StartupHoldoff = 2
  RetryInterval = 2
  GenMax = 2
  MinLatency = 1
  MaxLatency = 1
  MaxTasks = 2
  MaxStageTicks = 2
  MaxTicks = 2
  Past = 3
  InputWakeHold = 2
  PauseTimes = {1}
  None = None
  Forever = Forever
  Inputs = {"presence", "inhibitor", "input_wake", "blank_fails", "wake_fails"}
  MaxShows = 2
  FadeTicks = 2
  MaxBlends = 2
  MaxUpsets = 1
  Sizes = {1, 2}
  NoSession = NoSession
  radar = radar
  camera = camera
  near = near
  far = far
  both = both
  house = house
  tv = tv
  lamp = lamp
  SensorOrder <- MCSensorOrder
  HoldTime <- MCHoldTime
  StaleAfter <- MCStaleAfter
  SweepPeriod = 1
  Zones <- MCZones
  Members <- MCMembers
  Fusion <- MCFusion
  Weight <- MCWeight
  Policy <- MCPolicy
  Rules <- MCRules
  RuleZone <- MCRuleZone
  RuleDisplays <- MCRuleDisplays
  Displays = {tv, lamp}
  Never = Never
INVARIANTS
  OverlayIsHonest
  NeverDarkWhilePresent
  PanelFollowsPhase
  WakingHasRetry
  MachinesAreCurrent
  HoldIsKept
  SilenceIsNoticed
PROPERTIES
  WakesComplete
  VacancyDarkens
  TimeoutsAreOwn
  ShowIsAnswered
