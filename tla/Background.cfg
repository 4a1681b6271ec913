SPECIFICATION Spec
CONSTANTS
  Events = {e1, e2}
  Conferences = {c1}
  Planned = {c1}
  Calls = {k1, k2}
  MaxFaults = 1
  Payloads <- TwoNotices
  ConferenceOf <- SameConference
  Users = {u1}
  Names = {n1, n2, n3}
  Visits = {v1, v2}
  MaxTroubles = 2
  Ttl = 3
  RenewThreshold = 2
  NoName = NoName
  Occasions = {o1}
  Syncs = {s1}
  Sweeps = {w1}
  Editors = {x1}
  MaxVersion = 2
  MaxSlips = 1
  Times = {d1, d2}
  Admins = {a1}
  Never = Never
  MaxHitches = 2
INVARIANTS
  BackgroundTypesOK
  ProcessedIsFetched
  RowsDoNotOverstate
  
PROPERTIES
  NoticesAreAnswered
  MonitoredAreHeard
  NoMeetingIsForgotten
  
CHECK_DEADLOCK FALSE
