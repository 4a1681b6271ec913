SPECIFICATION Spec
CONSTANTS
  Items = {i1, i2, i3}
  Manual = {i1}
  Proposals = {p1, p2}
  Dates = {d1}
  Requestable = {"PENDING", "IN_PROGRESS", "COMPLETION_PROPOSED", "CANCELLED"}
  MaxChanges = 8
  None = None
  Sessions = {s1}
  Managers = {s1}
INVARIANTS SeriesIsFlat OnePendingProposal HistoryIsAChain InstancesArePaid
PROPERTIES AtomicCommands KeepsContract
