SPECIFICATION FairSpec
CONSTANTS
  Client = Client
  Ui = Ui
  Feeds = {Feed}
  NoThread = NoThread
  MaxSessions = 2
  MaxQueue = 1
  WireCap = 2
  DownCap = 1
INVARIANT StopOnlyByUser
