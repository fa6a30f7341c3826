\* A line that answers every cycle: a command may still be lost in the window.
CONSTANTS
  NoId = NoId
  NoReq = NoReq
  Special = special
  Cmds = {reset, special}
  Ids = {g1}
  MaxIssue = 1
  MaxLate = 1
SPECIFICATION Spec
INVARIANT CompletedWasExecuted
