CONSTANTS
  p1 = p1  p2 = p2  p3 = p3
  r1 = r1  r2 = r2  r3 = r3
  i1 = i1  i2 = i2
  Promoters <- MCPromoters
  Roots <- MCRoots
  Pids <- MCPids
  Original = original
  None = none
  Torn = torn
SPECIFICATION FairSpec
INVARIANTS
  WindowIsOwned
  PublishedIsValidated
  NoVersionIsLost
PROPERTIES
  AtomicPublication
  WindowCloses
