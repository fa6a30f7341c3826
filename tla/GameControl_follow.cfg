\* Other games and junk on the port, a late packet, a restart of either process.
CONSTANTS
  Packets <- TwoPackets
  Other = Other
  Junk = Junk
  Strays = {Other, Junk}
  NoPacket = NoPacket
  Levels = {0, 1}
  Limit = 1
  Room = 2
  MaxRestarts = 1
SPECIFICATION FairSpec
INVARIANT TypeOK
PROPERTIES SilenceJudged FollowsController
