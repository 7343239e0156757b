SPECIFICATION Spec
CONSTANTS
  Tools = {1, 2}
  MaxLines = 4
  Networks <- MCNetworks
  Firewalls <- MCFirewalls
  Environments <- MCEnvironments
  Commands <- MCCommands
  Images <- MCImages
  Accounts <- MCAccounts
  Passwd <- MCPasswd
  Homes <- MCHomes
  Groups <- MCGroups
  GroupOf <- MCGroupOf
  Members <- MCMembers
  Starts <- MCStarts
  Characters <- MCCharacters
  Streams <- MCStreams
  Queries <- MCQueries
INVARIANTS
  ContractKept
  RunsHaveNetworks
  FirewallsJudged
  SpecHonoured
  ImagesFlattened
  RootDropped
  SecretsRedacted
  QuestionsKept
CHECK_DEADLOCK FALSE
