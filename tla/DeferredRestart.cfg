SPECIFICATION FairSpec
CONSTANTS
  Delays = {2, 4}
  TickTime = 1
  SleepTime = 2
  MaxTime = 7
INVARIANTS TypeOK 
PROPERTIES KeepsPromise DueIsAcknowledged EventuallyRestarts
