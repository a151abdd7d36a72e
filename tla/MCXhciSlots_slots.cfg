SPECIFICATION Spec
CONSTANTS
  MaxSlotsEn = 3
  Places <- MCPlaces
  Speed <- MCSpeed
  Addresses <- MCAddresses
  MaxFailures = 1
  MaxPlugs = 4
  MaxResets = 1
  None = None
CHECK_DEADLOCK FALSE
INVARIANT SlotInvariant
INVARIANT DevicesHaveSlots
