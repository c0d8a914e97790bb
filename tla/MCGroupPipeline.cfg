SPECIFICATION GroupSpec
CONSTANTS
  Lanes <- TwoLanes
  Contexts <- OneRow
  VRegs <- TwoRows
  ARegs <- OneRow
  MRegs <- OneRow
  Narrow <- Bits
  Wide <- OneValue
  ExecOps <- MCExecOps
  WriteOps <- MCWriteOps
  ReadOps <- MCReadOps
  Datapath <- LaneDatapath
INVARIANTS GroupTypeOK OperandsUpToDate
PROPERTIES ExecutesInTurn
