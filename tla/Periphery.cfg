SPECIFICATION FairSpec
CONSTANTS
  Clients <- MCClients
  MaxPosted = 3
  MaxMade = 2
  MaxOut = 2
  MaxQueued = 2
  MaxFrames = 5
  MaxPacked = 2
  MaxHeld = 1
  Styluses <- MCStyluses
  Fingers <- MCFingers
  MaxWire = 4
INVARIANTS TypeOK NoClientForgotten EndIsPosted OneCodecLeft OneDecoder OneOfEach FreshSound SoundInOrder StoppedSilent StopSticks PenFollows EndsComing DownsEnd
PROPERTIES QuietAfterDestroy ScreenReturns VideoThreadsEnd WorkerLeaves StopReturns
CHECK_DEADLOCK FALSE
