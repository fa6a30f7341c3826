\* Three field players, and one thing that goes wrong: a lost broadcast, a move,
\* a penalty or a crash.
CONSTANTS
  Players = {2, 3, 4}
  Etas = {0, 3}
  Distances = {0}
  Unit = 2
  NonAttackerPenalty = 3
  NonDefenderPenalty = 1
  Timeout = 1
  NoMsg = NoMsg
  MaxChanges = 1
SPECIFICATION TeamFairSpec
INVARIANT TeamTypeOK
PROPERTY RolesSettle
