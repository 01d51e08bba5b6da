SPECIFICATION Spec
CONSTANTS
  vip = vip
  m1 = m1
  m2 = m2
  Address <- OneAddress
  Machine <- OneMachine
  Slot <- OneSlot
  MaxJiffies = 3
  MaxBoots = 1
INVARIANTS
  PctInRange
