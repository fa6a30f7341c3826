\* One command, asked for three times, two gait IDs; the abstract promise too.
CONSTANTS
  NoId = NoId
  NoReq = NoReq
  Special = special
  Cmds = {special}
  Ids = {g1, g2}
  MaxIssue = 3
  MaxLate = 2
SPECIFICATION FairSpec
INVARIANTS TypeOK AtMostOnce DoneIsTrue RightGait
PROPERTY ImplementsGaitCommand
