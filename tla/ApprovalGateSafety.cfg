\* Three requests and two workers race over one idempotency key, two payloads
\* and one payload the database refuses.
SPECIFICATION Spec
CONSTANTS
  Run = {r1, r2}
  Key = {k1}
  Payload = {p1, p2, bad}
  BadScope = {bad}
  Client = {c1, c2, c3}
  Worker = {w1, w2}
  Limit = 1
  Null = Null
SYMMETRY Symmetry
INVARIANTS
  RunImpliesApproved
  LedgerMatchesApproval
  AnnouncedDecisionStands
PROPERTIES
  ResolvedNeverReopened
  ImplementsAuthorization
