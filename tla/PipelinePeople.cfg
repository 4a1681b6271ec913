SPECIFICATION Spec
CONSTANTS
  None = None
  Meetings = {m1}
  External = {m1}
  Notices = {"started"}
  Fetches = {f1}
  Analyses = {a1}
  Requests = {r1}
  Ops = {"update", "reprocess", "import"}
  MaxAttempts = 1
  MaxCrashes = 1
INVARIANTS TypeOK AnalysedWithTranscript
CHECK_DEADLOCK FALSE
