SPECIFICATION Spec
CONSTANTS
  p1 = p1
  p2 = p2
  large = large
  small = small
  Processes = {p1, p2}
  Unledgered = {p2}
  Jobs = {large, small}
  Parts <- MCParts
  MaxKeys = 3
  MaxStarts = 2
INVARIANTS
  KeysOpen
  
  WholePayload
CHECK_DEADLOCK FALSE
