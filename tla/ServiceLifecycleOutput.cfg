CONSTANTS
  Campaigns <- MCPair
  Services <- MCServices
  Size = 2
  Capacity = 3
  Outputs = {"ok", "other"}
  MaxPolls = 1
  MaxStarts = 2
SPECIFICATION Spec
INVARIANT AcceptedOutputsMatch
