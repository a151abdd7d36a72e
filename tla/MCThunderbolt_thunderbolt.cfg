SPECIFICATION FairSpec
CONSTANTS
  Hosts <- MCHosts
  Models <- MCModels
  MAX_TBT_DEPTH = 6
  MaxPolls = 2
INVARIANTS
  TbtInvariant
  WindowsNested
  AddressesAreUnique
  LinksAgree
PROPERTIES
  ConfiguredIsLeft
  TeardownIsComplete
  UsbOnIsTruthful
  EveryDeviceIsConfigured
  BootEnds
CHECK_DEADLOCK FALSE
