SPECIFICATION Spec
CONSTANTS
  c1 = c1
  c2 = c2
  w = w
  ip1 = ip1
  ip2 = ip2
  ip3 = ip3
  vip = vip
  v6 = v6
  Machine <- Machines
  ControlPlane <- ControlPlanes
  Address <- Addresses
  IPv4 <- V4
  Own <- OwnAddress
  Vip = vip
  MaxAddresses = 3
  Endpoint = ip1
  CredEndpoints <- OwnAddresses
  Untyped <- WithoutType
  MountPoint <- Points
  MaxSize = 2
  MountLists <- Lists
  Slug <- SlugOfPoint
  Slugs <- SlugValues
INVARIANTS
  TypeOK
  NamedAfterItsMachine
  OneNodePerAddress
  ControlPlaneCounted
  UsagesAreOfMounts
  EveryVolumeHasSensor
