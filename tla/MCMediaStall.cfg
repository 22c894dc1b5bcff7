SPECIFICATION Spec
CONSTANTS
  LastSequence = 3
  Interval = 2
  TargetDelay = 3
  MinDelay = 1
  MaxDelay = 4
  Step = 1
  Capacity = 2
  RingCapacity = 2
  FrameBytes = 3
  MaxFrameBytes = 4
  DropsOldest = FALSE
  MaxGapFill = 1
  MaxFlushed = 2
  None = None
INVARIANT FullBufferReleases
CHECK_DEADLOCK FALSE
