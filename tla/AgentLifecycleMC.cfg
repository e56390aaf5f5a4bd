SPECIFICATION Spec
CONSTANTS
  o1 = o1
  o2 = o2
  o3 = o3
  c1 = c1
  c2 = c2
  p1 = p1
  p2 = p2
  Nobody = Nobody
  Kinds <- MCKinds
  MaxFaults = 1
  Ops = {o1, o2, o3}
  Clients = {c1, c2}
  Processes = {p1, p2}
  ClientOf <- MCClientOf
  ProcessOf <- MCProcessOf
INVARIANTS
  RecordsAgree
  StaleUntilRefresh
  SignedByRowKey
