SPECIFICATION FairSpec
CONSTANTS
  c1 = c1
  t1 = t1
  NoConn = NoConn
  Conns = {c1}
  Tubes = {t1}
  DefaultTube = t1
  MaxJobs = 1
  Pris = {0}
  KickBounds = {1}
  AllocMayFail = FALSE
PROPERTIES
  ReservationsTimeOut
