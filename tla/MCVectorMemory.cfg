SPECIFICATION VectorSpec
CONSTANTS
  GroupCount = 2
  RowBytes = 2
  Rows = 2
  AddrLimit = 8
  Commands <- MCCommands
  Faults = {"BUS"}
INVARIANTS
  VectorTypeOK
  NothingLeftOut
PROPERTIES
  MovesAndReports
  CommandsReport
