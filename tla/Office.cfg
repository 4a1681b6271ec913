SPECIFICATION Spec
CONSTANTS
  Tasks = {t1, t2}
  Existing = {t1}
  ReviewItems = {r1, r2}
  Hearings <- SampleHearings
  Resolvers = {p1, p2}
  MovesTo = {"PENDING", "COMPLETED"}
  MaxAnalyses = 2
  NoTask = NoTask
  MaxEdition = 2
  Colleagues = {u1}
  MaxMishaps = 1
  Files = {"f"}
  Sheets = {"ops", "ext"}
  Externals = "ext"
  Lines <- SampleLines
  Operators = {o1}
  MaxRows = 2
  MaxImports = 2
  MaxEdits = 3
  Touchable = {2, 5, 14}
  MaxSeeds = 2
  MaxWorks = 1
  Viewers <- SampleViewers
  Queries <- SampleQueries
  Numbers = {1, 2, 3}
  Samples <- SampleTasks
  Mornings = {7, 8}
  PageSize = 2
  MaxEditions = 1
  NoOne = NoOne
  Visitors <- SampleVisitors
  Owners = {"ana", "bea"}
  Beginnings <- SampleBeginnings
  Moves = {"IN_PROGRESS", "CANCELLED"}
  MaxVersion = 2
  MaxSent = 1
  Absent = Absent
  SheetNames <- SampleSheets
  Keys = {1, 2}
  Syncers = {s1, s2}
  Recent <- SampleRecent
  MaxFacts = 2
  MaxHands = 1
  MaxSnags = 1
  Transcripts <- SampleTranscripts
  Consolidated <- SampleHeard
  Threshold = 6
  BlockSize = 7
  MaxRetries = 1
  Findings = {"r1", "r2", "r3"}
  Links <- SampleLinks
  Filed <- SampleFiled
  Flagged = {"r1", "r3"}
  Matched = {"r2"}
  DeskSize = 2
  MaxStirs = 1
  MaxWaiting = 1
  Typed = "typed"
  Nobody = Nobody
  Admins = {a1, a2}
  People = {"ana"}
  Options = {"v0", "v1"}
  Words = {"Norte", "NORTE"}
  Loose <- InLowerCase
  AreaIds = {"k1", "k2"}
  ProjectIds = {"p1", "p2"}
  MaxSaves = 2
  Empty = Empty
INVARIANTS
  OfficeTypesOK
  
  ProposedCanBeAnswered
  ApprovedIsAccepted
  CompletedHasNothingOpen
  SentWasDelivered
  
  ImportedOnce
  DemoIsCoherent
  CountsAgree
  ListsAreExact
  OwnWorkIsShown
  SyncedIsCurrent
  
  DecisionsAreMeant
  SavesAreKept
PROPERTIES
  
  WorkIsKept
  FreshOffersStand
CHECK_DEADLOCK FALSE
