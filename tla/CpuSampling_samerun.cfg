SPECIFICATION Spec
CONSTANTS
  vip = vip
  m1 = m1
  m2 = m2
  Address <- OneAddress
  Machine <- TwoMachines
  Slot <- TwoSlots
  MaxJiffies = 2
  MaxBoots = 1
SYMMETRY Machines
INVARIANTS
  TypeOK
  PctInRangeWithinRun
