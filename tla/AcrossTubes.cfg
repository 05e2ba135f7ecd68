SPECIFICATION Spec
CONSTANTS
  c1 = c1
  t1 = t1
  t2 = t2
  NoConn = NoConn
  Conns = {c1}
  Tubes = {t1,t2}
  DefaultTube = t1
  MaxJobs = 2
  Pris = {0,1}
  KickBounds = {2}
  AllocMayFail = FALSE
INVARIANTS
  WaitingInPlace
  NoMatchLeft
PROPERTIES
  ServesMostUrgent
