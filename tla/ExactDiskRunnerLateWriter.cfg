CONSTANTS
  leader = leader
  child = child
  Leader <- leader
  Descendants <- MCDescendants
  MaxWrites = 2
  MaxSamples = 2
  MaxFootprint = 1
  MaxInterrupts = 0
SPECIFICATION Spec
INVARIANTS
  SealAfterProducerStopped
