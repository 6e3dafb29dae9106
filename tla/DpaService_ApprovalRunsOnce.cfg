SPECIFICATION Spec
CONSTANTS
  Dpa = {d1}
  Option = {o1}
  Blocked = {}
  Approval = {a1}
  Client = {c1}
  Null = Null
PROPERTY ApprovalRunsOnce
