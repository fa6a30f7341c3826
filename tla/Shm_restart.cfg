\* Segments left by an earlier run or none, two starts of either process, two commands.
CONSTANTS
  S = 2
  Width = 2
  None = None
  MaxStarts = 2
  MaxLoads = 2
  MaxWrites = 2
SPECIFICATION FairSpec
INVARIANTS TypeOK OneStart NoOldElement MixedOnlyByOverlap
PROPERTY LastCommandPassed
CHECK_DEADLOCK FALSE
