SPECIFICATION Spec
CONSTANTS
  DnTexts <- MCDnTexts
  DnNames <- MCDnNames
  DtFlags <- MCDtFlags
  DtFollowLate = FALSE
  DtNames <- MCDtNames
  DmQuestions <- MCDmQuestions
  DmRRsets <- MCDmRRsets
  DmOptions <- MCDmOptions
  DmMaxRRsets = 2
  AzContents <- MCAzContents
  AzUpdates <- MCAzUpdates
  AzReplaces <- MCAzReplaces
  AzQuestions <- MCAzQuestions
  AzChanges = 2
  AzSerials = 4
  XfHistory <- MCXfHistory
  FwAddrs = {"s1", "s2"}
  FwClients = {"c1", "c2"}
  FwWorkers = {"w1"}
  FwAbove <- MCFwAbove
  FwConfigs <- MCFwConfigs
  FwLoads <- MCFwLoads
  FwSources = {"src"}
  FwRtts = {1}
  FwLasting = 1
  FwChanges = 1
  FwQueries = 2
  QcHandlers = {"h1", "h2"}
  QcViews = {"default", "six"}
  QcHash <- MCQcHash
  QcZone <- MCQcZone
  QcAsks <- MCQcAsks
  QcConfigs <- MCQcConfigs
  QcPlain = {"default"}
  QcIndirect = FALSE
  QcMaxSize = 1
  QcLimit = 1
  QcQueries = 2
  QcNames = {"www"}
  QcCommands = 1
  QpConfigs <- MCQpConfigs
  NrOctet = 2
  NrOctets = 2
  NrWidth6 = 5
  ApHours = 2
  ApMinutes = 2
  ApWeek = 3
  ApMonths <- MCApMonths
  ApMonthDays = 3
  ApLower <- MCApLower
  ApRecords = 1
  NmBad <- MCNmBad
  RcWorlds <- MCRcWorlds
  RcMaxDepth = 9
  RcMaxZones = 2
  RcBatch = 1
INVARIANTS DnTextStable DtAgrees DmRoundTrip AzAnswered FwDownIsProbed QcAnswered QpDecides RcAnswered
PROPERTIES AzSerialGrows
CHECK_DEADLOCK FALSE
