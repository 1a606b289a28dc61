SPECIFICATION ExecSpec
CONSTANTS
  Commands = {c1, c2}
  ChainLength = 2
  WakeRetries = 1
  Blanking = {1, 2}
  Nothing = Nothing
INVARIANT
  OwnerIsStable
