SPECIFICATION FairSpec
CONSTANTS
  MaxSid = 2
  Task = {t1, t2}
  Kinds = {"memory", "file", "redis"}
  Does <- Activities
  MaxBorn <- Sessions
  Lifetime = 1
  MaxTime = 2
  MaxCrash = 1
INVARIANTS TypeOK Tracked
PROPERTIES ExpiredGoes DeadIdsGo
CHECK_DEADLOCK FALSE
