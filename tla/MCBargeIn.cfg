SPECIFICATION FairSpec
CONSTANTS
  MaxTurns = 2
INVARIANT VoiceInv
PROPERTY TurnsEnd
CHECK_DEADLOCK FALSE
