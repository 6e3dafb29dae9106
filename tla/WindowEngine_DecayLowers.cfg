\* One site, three channels, two times and one that cannot be parsed.
CHECK_DEADLOCK FALSE
SPECIFICATION Decisions
CONSTANTS
  r1 = r1
  r2 = r2
  r3 = r3
  shop = shop
  Request = {r1}
  Context = {shop}
  ContextOf <- MCContextOf
  CloseStreak = 2
  Threads = 1
  MaxCrashes = 0
  s1 = s1
  Site = {s1}
  Window <- MCWindow
  Null = Null
  Torn = Torn
INVARIANT DecayLowers
