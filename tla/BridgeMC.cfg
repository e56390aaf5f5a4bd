SPECIFICATION BridgeSpec
CONSTANTS
  c1 = c1
  c2 = c2
  ag = ag
  v1 = v1
  v2 = v2
  j1 = j1
  j2 = j2
  j3 = j3
  j4 = j4
  e1 = e1
  e2 = e2
  Clients = {c1, c2}
  AgentOf <- MCAgentOf
  Viewers = {v1, v2}
  MaxCalls = 2
  Boarders = {c1, c2}
  Servers = {m1, m2}
  m1 = m1
  m2 = m2
  MaxTasks = 2
  Jobs = {j1, j2, j3}
  Engines = {e1, e2}
  EngineOf <- MCEngineOf
  Streams = {s1}
  Registered = {s1}
  s1 = s1
  Kinds = {"append", "sdk", "delete"}
  Watchers = {v1}
  Callers = {c1, c2}
  Chat <- MCChat
  Shares <- MCShares
INVARIANTS
  PresenceSound
  BoardSound
  FeedShowsNewest
  
PROPERTY OnlineIsPresent
CHECK_DEADLOCK FALSE
