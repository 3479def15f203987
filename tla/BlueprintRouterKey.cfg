CONSTANTS
  u1 = u1
  u2 = u2
  b1 = b1
  b2 = b2
  n1 = n1
  n2 = n2
  r1 = r1
  r2 = r2
  Users = {u1, u2}
  System = System
  BpIds = {b1, b2}
  NodeIds = {n1, n2}
  Requests = {r1, r2}
  Configs <- MCConfigs
  Originals = {b1}
  MaxVersion <- MCMaxVersion
  MaxBusy <- MCMaxBusy
  MaxSeals = 3
  Absent = Absent
SPECIFICATION Spec
SYMMETRY Symmetry
INVARIANTS NodeKeysEncrypted
CHECK_DEADLOCK FALSE
