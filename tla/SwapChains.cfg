SPECIFICATION FairSpec
CONSTANTS
  Monitors = {m1, m2}
  MaxProcessors = 2
  MaxRetries = 1
INVARIANTS TypeOK ChainsAccounted ThreadsHeld NoThreadWithoutContext ToldWhenJoined
PROPERTIES CallsReturn
