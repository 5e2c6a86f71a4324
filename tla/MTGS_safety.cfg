\* Ring of 6 and packets of up to 3 quadwords: a wrap leaves one to four unused
\* slots, and both a full ring and a perfect fit are reachable.
SPECIFICATION Spec
CONSTANTS
  RingSize = 6
  MaxPacket = 3
  Payload = {q1}
  MaxFrames = 1
  KickCommands = 1
  KickData = 1
  SemCap = 2
INVARIANTS
  TypeOK
  NoOverwrite
  RestartNeverStalls
  FramesCounted
  MismatchIsSpurious
  ResetOnIdleRing
  FreezePointerLive
PROPERTIES
  PublishNeverEmpties
