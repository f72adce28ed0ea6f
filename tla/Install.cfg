SPECIFICATION Installs
CONSTANTS
  NpParse <- MCNpParse
  NpLower <- MCNpLower
  NpImages <- MCNpImages
  NpTag <- MCNpTag
  PkClusters <- MCPkClusters
  PkConfigs <- MCPkConfigs
  PkUps = 3
  PkFaults = 1
  InHosts = {"h1", "h2", "h3"}
  InClis <- MCInClis
  InOps = 3
  InFaults = 1
  CtConfigs <- MCCtConfigs
  CtTasks = 3
  CtFaults = 2
  RsStructs <- MCRsStructs
  RsRows <- MCRsRows
  RsStatements <- MCRsStatements
  RsClients = {"c1", "c2"}
  RsSteps = 2
  RsTxs = 2
  RsFaults = 1
  SrNames = {"a", "b"}
  SrServices <- MCSrServices
  SrEndpoints <- MCSrEndpoints
  SrConf <- MCSrConf
  SrStarts <- MCSrStarts
  SrChanges = 2
  Client = {"c1", "c2"}
  N = 2
  Table = {"t"}
  Key = {"k"}
  Value = {"v"}
  Up <- MCKvUp
  Faults = {"master", "slave"}
  MaxTx = 2
  None = None
INVARIANTS RsReplicasAgree CtRecovers InConverges PkServed SrSettled
PROPERTIES  OwnTransaction
CHECK_DEADLOCK FALSE
