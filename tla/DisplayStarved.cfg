SPECIFICATION FairSpec
CONSTANTS
  Ladder <- ControllerOnly
  GracePeriod = 1
  MinWakeTime = 0
  StartupHoldoff = 0
  RetryInterval = 3
  GenMax = 6
  MinLatency = 2
  MaxLatency = 2
  MaxTasks = 2
  MaxStageTicks = 2
  MaxTicks = 4
  Past = 2
  InputWakeHold = 2
  PauseTimes = {1}
  None = None
  Forever = Forever
  Inputs = {"presence", "wake_fails"}
PROPERTIES
  WakingEnds
