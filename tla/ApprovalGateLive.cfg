\* Two runs fall due while the expirer reads one row a pass.
SPECIFICATION FairSpec
CONSTANTS
  Run = {r1, r2}
  Key = {k1, k2}
  Payload = {p1}
  BadScope = {}
  Client = {c1}
  Worker = {w1}
  Limit = 1
  Null = Null
PROPERTY OverdueIsResolved
