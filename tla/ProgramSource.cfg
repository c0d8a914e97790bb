\* A range of up to four words, fetched in pairs.  Byte address 6 is the
\* misaligned PC the range checks have to refuse.
SPECIFICATION FetchSpec
CONSTANTS
  BundleWords = 2
  PcInputs = {0, 4, 6, 8, 12, 16}
INVARIANTS
  SourceTypeOK
  BundleIsCurrentPath
  OneObligation
  FetchInRange
PROPERTIES
  PoisonedAnswerIsSilent
