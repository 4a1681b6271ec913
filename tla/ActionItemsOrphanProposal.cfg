SPECIFICATION Spec
CONSTANTS
  Items = {i1}
  Manual = {i1}
  Proposals = {p1}
  Dates = {d1}
  Requestable = {"PENDING", "CANCELLED"}
  MaxChanges = 4
  None = None
  Sessions = {s1}
  Managers = {s1}
INVARIANT PendingOnlyWhileProposed
