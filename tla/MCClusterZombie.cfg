SPECIFICATION Spec
CONSTANTS
  n1 = n1
  n2 = n2
  n3 = n3
  t1 = t1
  t2 = t2
  s1 = s1
  s2 = s2
  NoNode = NoNode
  Node <- ThreeNodes
  Founders = {n1, n2, n3}
  Receivers = {n1, n2, n3}
  Session <- OneSession
  Task = {t1, t2}
  At <- ReaderAt
  Ops <- ReaderOps
  Mode <- Uniform
  Backup <- NoBackup
  MaxWrites = 2
  MaxLoads = 1
  MayJoin = {}
  MayLeave = {}
INVARIANT DeletesDropped
CHECK_DEADLOCK FALSE
