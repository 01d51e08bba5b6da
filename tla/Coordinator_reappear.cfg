SPECIFICATION Spec
CONSTANTS
  cp = cp
  wa = wa
  a0 = a0
  a1 = a1
  a2 = a2
  Machine <- Machines
  Address <- TwoAddresses
  IPv4 <- SharedEndpoint
  Endpoint = a0
  CredEndpoints <- NoEndpoints
INVARIANTS
  EveryNodeHasEntities
