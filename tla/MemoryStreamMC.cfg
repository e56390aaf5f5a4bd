SPECIFICATION RecallSpec
CONSTANTS
  j1 = j1
  j2 = j2
  j3 = j3
  j4 = j4
  e1 = e1
  e2 = e2
  s1 = s1
  s2 = s2
  Kinds = {"append", "sdk", "fork", "merge", "delete", "checkpoint", "resume", "snapshot", "restore"}
  Jobs = {j1, j2, j3, j4}
  Engines = {e1, e2}
  EngineOf <- MCEngineOf
  Streams = {s1, s2}
  Registered = {s1}
  Mixes <- MCMixes
  Recent = 1
INVARIANTS
  StreamSound
  EpochIsPosition
  
  
  
 
SYMMETRY Symmetry
