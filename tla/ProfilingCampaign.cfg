CONSTANTS
  Campaigns <- MCCampaigns
  Ports = {1, 2}
  CliPorts = {0, 1}
  MaxSamples = 1
  MaxInterrupts = 2
SPECIFICATION FairSpec
INVARIANTS
  TypeOK
  RunLeavesNothing
  NoStaleAnswer
  LogEndsWithRun
  CampaignVerdict
  RowsArePersisted
PROPERTY CampaignEnds
