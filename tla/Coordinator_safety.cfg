SPECIFICATION Spec
CONSTANTS
  cp = cp
  wa = wa
  a0 = a0
  a1 = a1
  a2 = a2
  Machine <- Machines
  Address <- ThreeAddresses
  IPv4 <- Readdressed
  Endpoint = a0
  CredEndpoints <- ControlPlane
INVARIANTS
  TypeOK
  NoOrphanDevice
  ShownHasEntities
  NoFalseCertIssue
PROPERTIES
  PruneIsJustified
  RejectionChangesNothing
