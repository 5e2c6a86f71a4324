\* Two contents of quadwords, so that a packet's data cannot pass for another's; no
\* symmetry, since liveness is checked.
SPECIFICATION FairSpec
CONSTANTS
  RingSize = 5
  MaxPacket = 3
  Payload = {q1, q2}
  MaxFrames = 1
  KickCommands = 1
  KickData = 1
  SemCap = 1
PROPERTIES
  CallsReturn
  KickedPacketsRun
  FifoSpec
