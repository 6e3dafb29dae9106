\* Two deliveries and two consumers, with batches of two, over one execution receipt.
\* All commands may have ended with every plan id used: the system really may stop.
CHECK_DEADLOCK FALSE
SPECIFICATION Spec
CONSTANTS
  Plan = {p1, p2}
  Receipt = {live}
  ExecReceipt = {live}
  SceneReceipt = {live}
  Request = {x1}
  Deliverer = {d1, d2}
  Consumer = {c1, c2}
  Forwarder = {f1}
  Limit = 2
  TailLimit = 1
  Null = Null
SYMMETRY Symmetry
INVARIANTS
  Traceable
  GateHeld
PROPERTIES
  RevokedStaysUnprocessed
  ImplementsStages
