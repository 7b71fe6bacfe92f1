SPECIFICATION ClassSpec
CONSTANTS
  Procs = {p1, p2}
  NBuffers = 2
  MaxFiles = 2
  MaxRefs = 2
  MaxChains = 2
  MaxLoads = 2
  Environments <- MCEnvironments
  None = None
  Clients = {c1, c2}
  DEVICE_COUNT = 2
  MaxBuffers = 2
  MaxRequests = 2
  MaxConnections = 2
  MaxMaps = 1
  MaxInserts = 1
  BCEnvironments <- MCBCEnvironments
  NoClient = NoClient
SYMMETRY MCSymmetry
INVARIANTS
  ClassTypeOK
  RefCountExact
  ProviderHeld
  ChainsOnOpenDevice
  ReferencesBalanced
  
  BCProviderSafe
