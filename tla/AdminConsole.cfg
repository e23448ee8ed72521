SPECIFICATION ConsoleSpec
CONSTANTS
  p1 = p1  p2 = p2  p3 = p3
  s1 = s1  s2 = s2  x1 = x1  x2 = x2
  q1 = q1  q2 = q2  v1 = v1  v2 = v2  v3 = v3  h1 = h1  h2 = h2
  Null = Null
  Pages <- MCPages
  MaxCalls <- MCCalls
  MaxFaults <- MCFaults
  People = {p1, p2, p3}
  Policies = {q1, q2}
  InitialPolicies = {q1}
  Versions = {v1, v2, v3}
  InitialVersion <- MCVersion
  InitialSeason <- MCSeason
  InitialAwards <- MCAwards
  ScoredEvents = {h1, h2}
  InitialMoment <- MCMoment
  Instants = {1, 2, 3}
  Now = 2
  Periods <- MCPeriods
  Statuses = {s1, s2}
  StatusOf <- MCStatusOf
  InitialStatuses = {s1}
  Plays = {x1, x2}
  PlayOf <- MCPlayOf
  Regs = {r1, r2, r3}
  InitialRegs = {r1, r2}
  Files = {f1, f2}
  Doubtful = {f1}
  Cases = {c1, c2}
  Flagged = {p3}
  Clashing <- MCClashing
  Books = {b1, b2}
  Texts = {1, 2}
  Events = {e1, e2}
  SavedEvents = {e1}
  Spans <- MCSpans
  PastHours = {1}
  SeatCounts = {1, 2}
  Streams = {t1, t2}
  SavedStreams = {t1}
  Fields = {d1, d2}
  Attendees = {a1, a2}
  Registered = {a1}
  Came = {a1}
  Unmatched = {a2}
  RoleNames = {"P", "V"}
  Nobody = Nobody
  Open = Open
  Reviewers = {TRUE}
INVARIANTS
  ConsoleTypeOK
  PeriodsDisjoint
  HistoryFitsSeason
  OneRetried
  ImportAsDecided
  CoverFileExists
  StreamsFitEvent
PROPERTIES
  SuccessIsShown
  RosterImportIsPreviewed
  NewestListStays
  ArchiveIsFinal
  LogoutIsReal
  ReviewLedgerRefined
  OverwrittenWasSeen
CHECK_DEADLOCK FALSE
