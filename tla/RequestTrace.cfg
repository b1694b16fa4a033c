CONSTANTS
  Frozen <- MCFrozen
  Manifests <- MCManifests
  Answers <- MCAnswers
SPECIFICATION FairSpec
INVARIANTS
  TypeOK
  RecordIsWhatArrived
  ExitZeroIsAccepted
PROPERTIES
  ServedInFull
  TraceEnds
