SPECIFICATION Spec
CONSTANTS
  Volumes = {v1, v2}
  Volume = v1
  Contents <- MCContents
  Handles = {h1, h2}
  Requests <- MCRequests
  MaxPosition = 2
INVARIANTS
  
  ListingIsWhole
PROPERTY VolumesAreServed
CHECK_DEADLOCK FALSE
