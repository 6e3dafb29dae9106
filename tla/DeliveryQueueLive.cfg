\* Two plans, one of which may lose its authorisation, through batches of one file.
SPECIFICATION FairSpec
CONSTANTS
  Plan = {p1, p2}
  Receipt = {live, plain}
  ExecReceipt = {live}
  SceneReceipt = {}
  Request = {x1}
  Deliverer = {d1}
  Consumer = {c1}
  Forwarder = {f1}
  Limit = 1
  TailLimit = 1
  Null = Null
\* All commands may have ended with every plan id used: the system really may stop.
CHECK_DEADLOCK FALSE
PROPERTIES
  QueuedIsProcessed
  ProcessedIsForwarded
