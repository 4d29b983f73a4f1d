SPECIFICATION Spec
CONSTANTS
  None = None
  s1 = s1
  s2 = s2
  Sizes <- MCSizes
  DefaultSize = s1
  MaxConfigures = 2
  Faults <- NoFaults
INVARIANT CommandBufferIdleWhenBegun
