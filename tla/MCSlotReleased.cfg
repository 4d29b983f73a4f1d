SPECIFICATION Spec
CONSTANTS
  None = None
  s1 = s1
  s2 = s2
  Sizes <- MCSizes
  DefaultSize = s1
  MaxConfigures = 3
  Faults <- NoFaults
PROPERTY AcquiredSlotIsReleased
