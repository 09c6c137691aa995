SPECIFICATION RecordingFairSpec
CONSTANTS
  Kinds = {"a", "b"}
  Sizes = {13, 15221}
  MaxRules = 2
  MaxKept = 2
  MaxStored = 1
  MaxBlocks = 4
INVARIANTS
  OutcomeJustified
  LoadedAsSaved
  BlocksWellFormed
PROPERTIES
  CallsReturn
