SPECIFICATION MCSpec
CONSTANTS
  ContextCount = 2
  SlotCount = 2
  GroupCount = 2
  QueueDepth = 1
  EntryCount = 2
  Tags = {0, 1}
  Ops = {"EXPORT", "REFUSED"}
  ResultOps = {"EXPORT"}
  RefusedOps = {"REFUSED"}
  Grants <- MCGrants
  Writes <- MCWrites
  MaxRequests = 4
  MaxWrites = 1
INVARIANTS ClusterTypeOK TrackerIsExact QuiescentMeansIdle OwnerIsNotBlocked
PROPERTY KeepsItsPromises
