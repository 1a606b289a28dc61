SPECIFICATION Spec
CONSTANTS
  Ladder <- ControllerOnly
  GracePeriod = 2
  MinWakeTime = 0
  StartupHoldoff = 0
  RetryInterval = 2
  GenMax = 2
  MinLatency = 1
  MaxLatency = 1
  MaxTasks = 1
  MaxStageTicks = 0
  MaxTicks = 2
  Past = 1
  InputWakeHold = 1
  PauseTimes = {1}
  None = None
  Forever = Forever
  Inputs = {"presence", "pause", "ownership", "claim", "force_wake", "input_wake", "force_blank", "blank_fails", "turn"}
INVARIANTS
  TypeOK
  PauseHasEnd
  GraceIsDriven
  BlankRunsAlone
PROPERTIES
  BlankIsLicensed
  GraceIsServed
