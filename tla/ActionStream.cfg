\* Two tags, so that an answer may carry the tag of another command.
SPECIFICATION ActionSpec
CONSTANTS
  Tags = {0, 1}
INVARIANTS
  OneActionInFlight
  OkIsEarned
  NoOrphanCommand
PROPERTIES
  ActionsRetire
