SPECIFICATION Spec
CONSTANTS
  None = None
  Sizes = {s1}
  DefaultSize = s1
  Timeout = 2
  MaxClock = 5
  MaxFrames = 6
INVARIANTS
  WaitsForTimeout
