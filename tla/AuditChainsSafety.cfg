\* Overrides: two commands at once over eight events of two people, four lines.
\* Judgments: two consumers of two pairs of intents, six answers of the exchange, two recorded outcomes.
\* Events: two producers of three events each, lists of three.
\* Observer logs: two appenders, two intents of which one is large, three lines.
\* Orchestrator: two commands at once over one plan forwarded twice, two seals.
\* Any of them stopped anywhere.
\* Every command may have ended or stopped, so that nothing is left to do.
SPECIFICATION Chains
CHECK_DEADLOCK FALSE
CONSTANTS
  Command = {c1, c2}
  ann = ann
  bob = bob
  d1 = d1
  btc = btc
  Subject = {ann, bob}
  Target = {d1}
  Symbol = {btc}
  MaxTime = 2
  Input <- MCInput
  MaxRows = 4
  Judgment = {1, 2}
  Giving <- MCGiving
  Bundle <- MCBundle
  Label = {WIN, LOSS}
  MaxOutcomes = 2
  Producer = {p1, p2}
  p1 = p1
  p2 = p2
  s1 = s1
  s2 = s2
  Writing <- MCWriting
  Hashing <- MCHashing
  Payload = {x, y}
  MaxEvents = 3
  Malformed = Malformed
  Altered = Altered
  Incomplete = Incomplete
  Appender = {a1, a2}
  Intent = {1, 2}
  Large = {2}
  MaxLines = 3
  Plan = {plan}
  ChannelOf <- MCChannelOf
  Worker = {w1, w2}
  MaxForwards = 2
  MaxSeals = 2
  Null = Null
  Torn = Torn
SYMMETRY Symmetry
INVARIANTS
  VerifierFindsDamage
  EventsHaveTheirSnapshot
  ReportJoinsRecorded
  WalkTellsHistories
  AcceptedLogsAreSerial
  SerialFilesMoveOn
PROPERTIES
  BlockNeedsSecondPerson
  BrokenLogAnswersNobody
