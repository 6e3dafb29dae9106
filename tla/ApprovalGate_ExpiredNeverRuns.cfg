SPECIFICATION Spec
CONSTANTS
  Run = {r1}
  Key = {k1}
  Payload = {p1}
  BadScope = {}
  Client = {c1, c2}
  Worker = {w1}
  Limit = 1
  Null = Null
PROPERTY ExpiredNeverRuns
