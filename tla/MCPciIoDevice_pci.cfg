SPECIFICATION Spec
CONSTANTS
  PCI_MAX_BUS <- LastBus
  PCI_MAX_DEVICE = 1
  PCI_MAX_FUNC = 1
  Machines <- MCMachines
INVARIANTS
  PciInvariant
  SearchIsComplete
PROPERTY ProgramEnds
CHECK_DEADLOCK FALSE
