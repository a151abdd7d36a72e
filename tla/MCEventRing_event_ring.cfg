SPECIFICATION FairSpec
CONSTANTS
  TrbNumber = 4
  Payload = {ok, error}
  Fatal = {error}
  Zeroed = Zeroed
INVARIANT EventRingInvariant
INVARIANT WalkAlwaysEnds
INVARIANT NewEventsVisible
PROPERTY ImplementsQueue
PROPERTY EventsAreHandled
