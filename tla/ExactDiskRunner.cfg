CONSTANTS
  leader = leader
  child = child
  Leader <- leader
  Descendants <- MCDescendants
  MaxWrites = 1
  MaxSamples = 2
  MaxFootprint = 1
  MaxInterrupts = 2
SPECIFICATION FairSpec
INVARIANTS
  NoSurvivors
  SealedFilesStay
  CuratedFromSealedSuccess
  GrowthIsRunLocal
  FinalRowIsPostCommand
  ExitStatusIsTruthful
PROPERTIES
  RunnerEnds
  GroupDisappears
