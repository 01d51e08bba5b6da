SPECIFICATION Spec
CONSTANTS
  n1 = n1
  n2 = n2
  s1 = s1
  s2 = s2
  c1 = c1
  c2 = c2
  Node <- OneNode
  Schematic <- TwoSchematics
  Call <- TwoCalls
SYMMETRY Interchangeable
INVARIANTS
  TypeOK
  ImageIsFromShownRefresh
PROPERTIES
  KeepsPolicy
