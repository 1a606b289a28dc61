SPECIFICATION Spec
CONSTANTS
  Ladder <- ControllerOnly
  GracePeriod = 1
  MinWakeTime = 0
  StartupHoldoff = 0
  RetryInterval = 2
  GenMax = 4
  MinLatency = 1
  MaxLatency = 1
  MaxTasks = 2
  MaxStageTicks = 2
  MaxTicks = 2
  Past = 1
  InputWakeHold = 2
  PauseTimes = {1}
  None = None
  Forever = Forever
  Inputs = {"presence", "ownership"}
INVARIANTS
  YieldedIsUncovered
