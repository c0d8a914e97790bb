SPECIFICATION Spec
CONSTANTS
  Configs = {good, bad}
  GoodConfigs = {good}
  early = early
  late = late
  Infos = {early, late}
  CountRange = 2
  HostRequests <- MCRequests
  Completions <- MCCompletions
  Traffic <- MCTraffic
  MaxRetire = 2
INVARIANTS
  HostTypeOK
  ExclusiveOwnership
PROPERTIES
  AnswersReachTheirAsker
  ReportsTheJob
  NobodyWaitsForever
