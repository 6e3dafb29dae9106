\* Ingest: three requests of one context, two at a time; two low decisions in a row close a scene; one crash.
\* Engine: one site, three channels, two times and one that cannot be parsed.
\* The requests end.
CHECK_DEADLOCK FALSE
SPECIFICATION Decisions
CONSTANTS
  r1 = r1
  r2 = r2
  r3 = r3
  shop = shop
  Request = {r1, r2, r3}
  Context = {shop}
  ContextOf <- MCContextOf
  CloseStreak = 2
  Threads = 2
  MaxCrashes = 1
  s1 = s1
  Site = {s1}
  Window <- MCWindow
  Null = Null
  Torn = Torn
SYMMETRY Symmetry
INVARIANTS
  SnapshotsExtendTheChain
  SummariesAddUp
  EngineRiskReachesPeople
  AlarmHasCause
