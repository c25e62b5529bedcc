\* Two handler threads, one event before the last ones, two faults and one restart.
SPECIFICATION FairSpec
CONSTANTS
  h1 = h1
  h2 = h2
  Handlers = {h1, h2}
  MaxEvents = 1
  MaxFaults = 2
  MaxCrashes = 1
INVARIANTS
  TypeOK
  ResultComplete
PROPERTIES
  ReportReachesPage
  ReadersEnd
CHECK_DEADLOCK FALSE
