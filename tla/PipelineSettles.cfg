SPECIFICATION FairSpec
CONSTANTS
  None = None
  Meetings = {m1}
  External = {}
  Notices = {}
  Fetches = {f1}
  Analyses = {a1, a2}
  Requests = {r1}
  Ops = {"reprocess"}
  MaxAttempts = 2
  MaxCrashes = 1
PROPERTY InFlightSettles
CHECK_DEADLOCK FALSE
