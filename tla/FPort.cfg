CONSTANTS
  Boundary = 6
  Escape = 5
  EscapeBits = 4
  FlowControl = {}
  MaxPacket = 11
  Channels = {6}
  Noise = {0, 5, 6}
  MaxFrames = 3
  Backlog = 2
  Faults = 1
SPECIFICATION FairSpec
INVARIANTS PublishedWereSent FaultsCostTwoFrames ClientSeesOneUpdate
PROPERTIES SilenceReachesClient
