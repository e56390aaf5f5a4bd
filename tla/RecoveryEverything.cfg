SPECIFICATION RecoverySpec
CONSTANTS
  c1 = c1
  c2 = c2
  c3 = c3
  p1 = p1
  w1 = w1
  remember = remember
  paused = paused
  s1 = s1
  Calls = {c1, c2, c3}
  Processes = {p1}
  ProcessOf <- MCProcessOf
  Workspaces = {w1}
  Payloads = {remember, paused}
  MemoryPayloads = {remember}
  Keyed = {remember}
  Streams = {s1}
  StreamOf <- MCStreamOf
  MaxRuns = 2
  MaxDisasters = 1
INVARIANT
  EverythingRecovered
CHECK_DEADLOCK FALSE
