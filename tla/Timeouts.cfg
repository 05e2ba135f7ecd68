SPECIFICATION Spec
CONSTANTS
  AllocMayFail = FALSE
  c1 = c1
  c2 = c2
  NoConn = NoConn
  Conns = {c1,c2}
  j1 = j1
  j2 = j2
  NoJob = NoJob
  Jobs = {j1,j2}
  Ttrs = {2,3}
  Delays = {0,1}
  Waits <- SomeWaits
  Margin = 1
  Lag = 2
  MaxTime = 4
SYMMETRY Symmetry
INVARIANTS
  SoonestExact
  MarginKept
  ReservationsTold
  DelayInTime
PROPERTIES
  AnsweredInTime
  AllExpiredReturned
  NotTimedOutEarly
