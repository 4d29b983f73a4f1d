SPECIFICATION Spec
CONSTANTS
  None = None
  s1 = s1
  s2 = s2
  Sizes <- MCSizes
  DefaultSize = s1
  MaxConfigures = 3
  Faults <- AllFaults
INVARIANTS
  TypeOK
  CommitPointsSound
  ReadsOnlyFinishedFrames
  NoBufferBeforeFirstAck
  PendingPointsAwaitTheirBuffer
  SomeSlotAvailable
  GpuWritesLiveImages
  RecordsAtRequestedSize
PROPERTIES
  ScreenNeverGoesBack
  ImplementsFrameStream
