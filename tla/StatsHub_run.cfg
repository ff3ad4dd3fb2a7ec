SPECIFICATION FairSpec
CONSTANTS
  Subs = {b1, b2}
  Nobody = Nobody
  ReplayLen = 2
  QueueLen = 2
  MaxFrames = 3
PROPERTIES
  NoFrameMissed
  FinalFrameEndsStreams
