SPECIFICATION StreamSpec
CONSTANTS
  BundleWords = 2
  PcInputs <- Pcs
  AdmitSlots = 2
  Images <- MCImages
INVARIANTS
  FramerTypeOK
  NothingLost
  FramingIgnoresCuts
  CarryFits
PROPERTIES
  StreamEnds
