SPECIFICATION WrapperSpec
CONSTANTS
  BundleWords = 2
  PcInputs <- Pcs
  AdmitSlots = 1
  Images <- MCImages
  Tags = {0}
  StateValues = 4
  HostClears = TRUE
  StaleLaunch = FALSE
INVARIANTS
  HoldsNextRecord
  DispatchesAtOnce
PROPERTIES
  ExecutesInOrder
  FailureHasCause
