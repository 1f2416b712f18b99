CONSTANTS
  m1 = m1  m2 = m2  r1 = r1  r2 = r2
  Messages = {m1, m2}
  Malformed = {m2}
  Rounds = {r1, r2}
  MaxSends = 2
  Faults = {"no_answer", "no_connection", "report_refused", "crash"}
SPECIFICATION FairSpec
INVARIANTS TypeOK NothingForgotten ReportedAfterSending TriesAccounted SentAtMostOnce
PROPERTIES GivenUpAfterReports ResultStays ImplementsReporting CacheDrains
