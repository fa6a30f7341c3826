\* Two calls of the host, any loss, any delay.
CONSTANTS
  Servos = {1, 2}
  SkipId = 255
  None = None
  N = 2
  IdMaps <- ZeroBased
  Modes = {"manual", "read", "both"}
  PassedOn = {1}
  MaxCalls = 2
  MaxHeard = 1
SPECIFICATION FairSpec
INVARIANTS TypeOK PositionsAreReal OwnReply
PROPERTIES EveryServoPolled GoalsSent
