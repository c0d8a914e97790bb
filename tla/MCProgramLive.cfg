SPECIFICATION WrapperSpec
CONSTANTS
  BundleWords = 2
  PcInputs <- LivePcs
  AdmitSlots = 1
  Images <- MCImages
  Tags = {0}
  StateValues = 4
  HostClears = TRUE
  StaleLaunch = FALSE
PROPERTIES
  ProgramsClose
  Restartable
