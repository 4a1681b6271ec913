SPECIFICATION Spec
CONSTANTS
  None = None
  Meetings = {m1}
  External = {}
  Notices = {"ended", "generated"}
  Fetches = {f1, f2}
  Analyses = {a1, a2}
  Requests = {r1}
  Ops = {}
  MaxAttempts = 2
  MaxCrashes = 1
SYMMETRY SymmetricJobs
INVARIANTS InFlightIsOwned
CHECK_DEADLOCK FALSE
