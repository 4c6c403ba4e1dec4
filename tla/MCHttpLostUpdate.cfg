SPECIFICATION Spec
CONSTANTS
  Sid = {s1}
  Req = {r1, r2}
  Name = {a, b}
  Workers = {2}
INVARIANT WritesKept
CHECK_DEADLOCK FALSE
