SPECIFICATION Spec
CONSTANTS
  n1 = n1
  n2 = n2
  n3 = n3
  t1 = t1
  t2 = t2
  s1 = s1
  s2 = s2
  NoNode = NoNode
  Node <- ThreeNodes
  Founders = {n1, n2}
  Receivers <- ThreeNodes
  Session <- TwoSessions
  Task = {t1, t2}
  At <- WriterAt
  Ops <- WriterOps
  Mode <- MixedMode
  Backup <- MixedBackup
  MaxWrites = 2
  MaxLoads = 1
  MayJoin = {n3}
  MayLeave = {n1, n2}
INVARIANTS TypeOK InboxQueueSound AckedReplicated Converged
PROPERTY NoRegress
CHECK_DEADLOCK FALSE
