\* A player or a goalie whose game may change at every tick.
CONSTANTS
  Roles = {"player", "goalie"}
  Hasty = TRUE
SPECIFICATION Spec
INVARIANTS BodyAgrees NeverStranded KicksStandingStill
