SPECIFICATION Spec
CONSTANTS
  StorageClasses <- MCStorageClasses
  PtRequests <- MCPtRequests
  PtOptions <- MCPtOptions
  PtStatuses <- MCPtStatuses
  KoRequests <- MCKoRequests
  KoUpdates <- MCKoUpdates
  HpaNames = {"h1", "h2"}
  Targets = {"w1", "w2"}
  MetricNames = {"m1"}
  HaThreads = {"t1", "t2"}
  HaMaxOps = 3
  HaMaxFaults = 1
  UdPorts = {53, 69}
  UdServices <- MCUdServices
  UdThreads = {"t1", "t2"}
  UdMaxOps = 3
  UdMaxFaults = 1
  WlNames = {"dep", "set"}
  WlKindOf <- MCWlKindOf
  WlClaimNames = {"c", "d"}
  WlLists <- MCWlLists
  WlThreads = {"t1", "t2"}
  WlMaxOps = 3
  WlMaxFaults = 1
  TnUsers = {"u1"}
  TnNamespaces = {"n1"}
  TnClusters = {"c1"}
  TnStorage = {1, 2}
  TnPasswords = {"p"}
  TnOps = {"createUser", "deleteUser", "updateUser", "resetPassword", "createQuota", "updateQuota", "deleteQuota", "reject", "approval", "createNamespace", "deleteNamespace", "createLimit", "deleteLimit"}
  TnMaxLogs = 2
  TnSlots = {"s1", "s2"}
  TnRequests = 2
  StNames = {"a", "b"}
  StHosts = {"h1", "h2", "m"}
  StHostSets = {{"h1", "h2"}, {"m"}}
  StMasters = {"m"}
  StTargets = {"t1", "t2"}
  StSlots = {"s1", "s2"}
  StOps <- MCStOps
  StStarts <- MCStStarts
  StRequests = 2
  StEvents = 1
  CiNames = {"a", "b"}
  CiSlots = {"s1", "s2"}
  CiOps = {"create", "update", "delete", "empty", "task"}
  CiStarts = {{}, {"a"}}
  CiRequests = 2
  CiTekton = 2
  ChRepo <- MCChRepo
  ChSystem = {"sys"}
  ChConfigs <- MCChConfigs
  ChValues <- MCChValues
  ChSyncs = 3
  ChRequests = 1
  ApManifests <- MCApManifests
  ApKind <- MCApKind
  ApSystem = {"m"}
  ApRequests = 2
  ApEvents = 2
  ApFaults = 1
  ApChecks = 1
  ApRestarts = 1
  AlClusters = {"c1", "c2"}
  AlWhats = {"x"}
  AlMax = 2
  AlAdds = 3
  AlEvents = 2
  RtRoutes <- MCRtRoutes
  RtPaths <- MCRtPaths
  RtUpper <- MCRtUpper
  RtAdds = 3
  RaLength <- MCRaLength
  RaDomains = {"a", "ab"}
  RaMaxDomain = 253
  RaKinds <- MCRaKinds
  RaPlural <- MCRaPlural
  RaIds = {"i", "pods"}
  RaBodies <- MCRaBodies
INVARIANTS SharedMapsKept WlNoLeak TnLogKept CiComplete ChWhole ApNoOrphan AlNoneSkipped ReadsBack RtFinds RaServes
PROPERTIES TnApprovedAsAsked StUsedStays
CHECK_DEADLOCK FALSE
