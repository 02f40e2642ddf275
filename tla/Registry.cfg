SPECIFICATION Spec
CONSTANTS
  d1 = d1
  d2 = d2
  h1 = h1
  h2 = h2
  n1 = n1
  n2 = n2
  o1 = o1
  o2 = o2
  Devices <- TwoDevices
  Names <- TwoNames
  Orgs <- TwoOrgs
  Requests <- TwoRequests
  MaxRows = 3
  MaxPort = 2
  MaxAddr = 2
  MaxOps = 4
SYMMETRY RegistrySymmetry
INVARIANTS RegistryInv AgentAuthenticates TunnelAgrees OfflineIsDeserved
CHECK_DEADLOCK FALSE
