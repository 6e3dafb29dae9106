\* A live and a paper loop, apart or at once, of at most two cycles each.
\* Two replays, four answers of the model, stopped anywhere; three runs of
\* the tools that announce, or two at once.
\* The clock ends and with it the loops, and so do the replays.
CHECK_DEADLOCK FALSE
SPECIFICATION Sentinel
CONSTANTS
  live = live
  paper = paper
  Loop = {live, paper}
  Mode <- MCMode
  Reading <- MCReading
  Bar <- MCBar
  MaxStreak = 1
  MaxSecond = 4
  MaxRuns = 2
  MaxCycles = 3
  MaxTogether = 2
  QualityMode = "observer"
  Unknown = Unknown
  Null = Null
  Torn = Torn
  Replay = {r1, r2}
  ModelAnswer <- MCModelAnswer
  Run = {v1, v2}
  Symbols <- MCSymbols
  LoopItem <- MCLoopItem
  MaxInvoked = 3
SYMMETRY Symmetry
INVARIANTS
  TriggersAreAgreed
  PostsAreAudited
  SerialMovesScoredOnce
  ReplaysAuditResults
  AlertsAreSound
