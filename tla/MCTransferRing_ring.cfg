SPECIFICATION FairSpec
CONSTANTS
  TrbNumber = 5
  MaxTrbNum = 3
  Payload = {d1, d2}
  Zeroed = Zeroed
INVARIANT RingInvariant
PROPERTY ImplementsQueue
PROPERTY CommandsKeepRunning
