SPECIFICATION WorkingSpec
CONSTANTS
  ScaleCount = 3
  SizeCount = 3
  UpFrames = 2
  DownFrames = 3
  HeldBack = 1
  InboxCap = 1
  None = None
PROPERTY EncodesAfterResize
