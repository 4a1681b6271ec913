SPECIFICATION Spec
CONSTANTS
  None = None
  Meetings = {m1}
  External = {}
  Notices = {"ended"}
  Fetches = {f1}
  Analyses = {a1, a2}
  Requests = {r1}
  Ops = {"reprocess"}
  MaxAttempts = 1
  MaxCrashes = 0
INVARIANT OneAnalysisInFlight
CHECK_DEADLOCK FALSE
