SPECIFICATION mcSpec
CONSTANTS
  r1 = r1
  r2 = r2
  Requests = {r1, r2}
  PathsOf <- mcPathsOf
  MaxVersion = 2
  MaxSamples = 2
  AdHandlers = {h1, h2}
  Viewers = {v1}
  Cleaner = Cleaner
  Nobody = Nobody
  NumSlots = 3
  MaxDelay = 1
  MaxMinute = 4
  MaxReqs = 3
SYMMETRY mcSymmetry
INVARIANTS
  TypesOK
  StatisticsAddUp
  ClosedServesNothing
  QpsAddsUp
  NilOnlyWhileVisited
  ReportOfOneMinute
  OnlyLateMeetPrepared
CHECK_DEADLOCK FALSE
