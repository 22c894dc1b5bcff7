SPECIFICATION FairSpec
CONSTANTS
  LastSequence = 3
  Interval = 2
  TargetDelay = 2
  MinDelay = 0
  MaxDelay = 2
  Step = 1
  Capacity = 2
  RingCapacity = 2
  FrameBytes = 3
  MaxFrameBytes = 4
  DropsOldest = FALSE
  MaxGapFill = 1
  MaxFlushed = 1
  None = None
INVARIANT MediaInv ReleasedStreamsKeepMoving
PROPERTY OutputInOrder BackpressureEnds
CHECK_DEADLOCK FALSE
