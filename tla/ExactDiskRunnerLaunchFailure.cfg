CONSTANTS
  leader = leader
  child = child
  Leader <- leader
  Descendants <- MCDescendants
  MaxWrites = 1
  MaxSamples = 2
  MaxFootprint = 0
  MaxInterrupts = 0
SPECIFICATION Spec
INVARIANTS
  LaunchFailureIsReported
