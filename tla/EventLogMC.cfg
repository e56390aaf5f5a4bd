SPECIFICATION Spec
CONSTANTS
  c1 = c1
  c2 = c2
  c3 = c3
  p1 = p1
  p2 = p2
  w1 = w1
  w2 = w2
  remember = remember
  paused = paused
  readonly = readonly
  lifted = lifted
  s1 = s1
  Calls = {c1, c2, c3}
  Processes = {p1, p2}
  ProcessOf <- MCProcessOf
  Workspaces = {w1, w2}
  Payloads = {remember, readonly, lifted}
  MemoryPayloads = {remember}
  Streams = {s1}
  StreamOf <- MCStreamOf
  Change <- MCChange
INVARIANTS
  ForkOnlyByOverlap
  AppendDelivers
  
PROPERTIES
  LogSpec
  
SYMMETRY Symmetry
