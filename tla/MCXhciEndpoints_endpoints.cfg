SPECIFICATION Spec
CONSTANTS
  Interfaces <- MCInterfaces
  Settings <- MCSettings
  Endpoints <- MCEndpoints
  Isochronous <- MCIsochronous
  MaxConfigs = 2
  MaxReads = 2
  MaxSets = 3
  MaxFailures = 1
CHECK_DEADLOCK FALSE
INVARIANT EndpointsInvariant
INVARIANT EndpointsMatch
