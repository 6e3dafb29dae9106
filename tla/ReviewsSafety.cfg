\* Store: two people race over one proposal, which the converter keeps revaluing; two visible versions and the one past them.
\* Review: two proposals, two bridge runs, alone or at once; the policy may change and change back.
\* Learning: one key, one emission a period; three observations in windows of two; two proposals,
\* two policies, two evaluators, alone or at once.
\* The review ends when the runs are used and the policy stays.
CHECK_DEADLOCK FALSE
SPECIFICATION Reviews
CONSTANTS
  Person = {c1, c2}
  p1 = p1
  childcare = childcare
  Proposal = {p1}
  Channel = {childcare, care2}
  ChannelOf <- MCChannelOf
  Delta <- MCDelta
  Top = 2
  InitialLevel = 0
  MaxVersion = 2
  MinApprovals = 1
  Strategy = {"reject"}
  AutoProposal = {a1, a2}
  Rest = {x}
  Reviewer = {ops}
  BridgeReviewer = ops
  Runner = {b1, b2}
  Limit = 2
  Strategies = {"reject", "force"}
  MaxRuns = 2
  Key = {k1}
  Hash = {h1, h2}
  Direction = {"up", "neutral"}
  Radius = {"local", "system"}
  Touch = {"risk"}
  WindowEvents = 2
  MinSamples = 2
  Confirmations = 1
  Epsilon = 49
  Period = 1
  LimitX = 1
  Evaluator = {e1, e2}
  MaxObservations = 3
  MaxTime = 2
  MaxDrafts = 2
  Null = Null
  Empty = Empty
  Garbled = Garbled
SYMMETRY Symmetry
INVARIANTS
  UnapprovedUntouched
  SerialReceiptsAccurate
  ReviewedBeforeListed
  SerialBridgesWriteOnce
  RationHolds
  QueuedIsHarmlessAndEarned
  SerialChangesKeepBaseline
PROPERTIES
  SerialStoreIsALog
