\* Three callers race over one record with two open options and a blocked one.
SPECIFICATION Spec
CONSTANTS
  Dpa = {d1}
  Option = {o1, o2, shut}
  Blocked = {shut}
  Approval = {a1}
  Client = {c1, c2, c3}
  Null = Null
SYMMETRY Symmetry
INVARIANTS
  RanOnlyApplied
PROPERTIES
  TerminalLostOnlyToRace
  ImplementsTrail
