SPECIFICATION FairSpec
CONSTANTS
  a1 = a1
  a2 = a2
  a3 = a3
  build = build
  Agents = {a1, a2, a3}
  Capabilities = {build, general}
  general = general
  MaxTasks = 3
  Plans <- MCPlans
  Chosen <- MCChosen
  Persisted <- MCPersisted
  Registry <- MCRegistry
  Advertises <- MCAdvertises
INVARIANTS
  DependenciesRead
  StreamInOrder
  EndsHonestly
  RestedAtEnd
PROPERTY
  CoordinateReturns
CHECK_DEADLOCK FALSE
