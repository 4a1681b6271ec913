SPECIFICATION Spec
CONSTANTS
  Items = {i1, i2}
  Manual = {i1}
  Proposals = {p1, p2}
  Dates = {d1}
  Requestable = {"IN_PROGRESS"}
  MaxChanges = 5
  None = None
  Sessions = {s1, s2}
  Managers = {s1}
PROPERTY EveryChangeIsATransition
