SPECIFICATION Spec
CONSTANTS
  None = None
  s1 = s1
  s2 = s2
  Sizes <- MCSizes
  DefaultSize = s1
  MaxDraws = 5
  Faults <- AllFaults
INVARIANTS
  ObjectsTypeOK
  PendingWorkKeepsItsObjects
  CleanExit
  FenceFreeWhenReset
