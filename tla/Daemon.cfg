SPECIFICATION DaemonSpec
CONSTANTS
  Instances = {service, stray}
  Service = service
  Configs = {good, crashing, broken}
  Loads = {good, crashing}
  Builds = {good, crashing}
  Sound = {good}
  RollbackOff = {}
  LkgOff = {}
  Unreadable = Unreadable
  None = None
  Window = 0
  Stability = 1
  Threshold = 2
  DeferCap = 1
  MaxStarts = 3
  MaxEvents = 2
  desk = desk
  side = side
  auto = auto
  Displays = {desk, side}
  Rules = {auto}
  RuleDisplays <- MCRuleDisplays
  Nobody = Nobody
  Faults = {"verify", "spawn", "rebuild", "barrier", "panic"}
  Requests <- MCRequests
  MaxRequests = 2
  MaxReloads = 1
  LocalRead = LocalRead
  LocalWrite = LocalWrite
  PeerRead = PeerRead
  Mismatch = Mismatch
  NoCode = NoCode
  Confirmations = 2
  FlapThreshold = 2
  FlapWindow = 1
  FlapSettle = 1
  Pulls = {pull1}
  QueueCap = 1
  Screens = {left, right}
  Daemons = {main, second}
  Supervised = main
  NoFile = NoFile
  NoDaemon = NoDaemon
  MaxMishaps = 3
INVARIANTS
  DaemonTypeOK
  LeasedOperationsAreApart
  LeasesAreAccounted
  DarkHasWayBack
PROPERTIES
  LkgIsProvenUnlessRaced
  RollbackEnds
  FrontDoorReopens
  OperationsEnd
  VerdictIsEarned
  VerdictSettles
  ReturnIsAnswered
  OrphansAreLit
CHECK_DEADLOCK FALSE
