CONSTANTS
  Campaigns <- MCCampaigns
  Services <- MCServices
  Size = 2
  Capacity = 3
  Outputs = {"ok"}
  MaxPolls = 1
  MaxStarts = 2
SPECIFICATION Spec
INVARIANTS
  RowIsOwnCycle
  AcceptedCyclesSlept
