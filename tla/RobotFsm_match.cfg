\* A player or a goalie; the game changes again only when the last change has been heard.
CONSTANTS
  Roles = {"player", "goalie"}
  Hasty = FALSE
SPECIFICATION FairSpec
INVARIANTS TypeOK KickTaken StillWhenDown OnItsFeet
PROPERTIES SitsDown StandsAtSet
