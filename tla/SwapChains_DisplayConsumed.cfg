SPECIFICATION WorkingSpec
CONSTANTS
  Monitors = {m1}
  MaxProcessors = 2
  MaxRetries = 1
PROPERTIES DisplayConsumed
