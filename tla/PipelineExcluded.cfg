SPECIFICATION Spec
CONSTANTS
  None = None
  Meetings = {m1}
  External = {}
  Notices = {"ended"}
  Fetches = {f1}
  Analyses = {a1}
  Requests = {r1}
  Ops = {"update"}
  MaxAttempts = 1
  MaxCrashes = 0
PROPERTY ExcludedIsNotAsked
CHECK_DEADLOCK FALSE
