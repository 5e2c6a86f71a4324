SPECIFICATION FairSpec
CONSTANTS
  RingSize = 6
  MaxPacket = 3
  Payload = {q1}
  MaxFrames = 1
  KickCommands = 2
  KickData = 1
  SemCap = 1
PROPERTIES
  DataThresholdKicks
