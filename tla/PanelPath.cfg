SPECIFICATION PathSpec
CONSTANTS
  Commands = {c1, c2}
  ChainLength = 2
  WakeRetries = 1
  Blanking = {1, 2}
  Nothing = Nothing
  Threads = {t1, t2, t3}
  desk = desk
  old = old
  new = new
  Panels <- MCPanels
  Vcps <- MCVcps
  PanelOf <- MCPanelOf
  None = None
INVARIANTS
  PathTypeOK
  BusIsSerialized
  HandleHasOneOwner
  RetiredIsDrained
PROPERTIES
  ImplementsSink
  OwnerAnswers
  SamplerNeverOvertakes
  CommandIsServed
