SPECIFICATION Spec
CONSTANTS
  c1 = c1
  c2 = c2
  t1 = t1
  NoConn = NoConn
  Conns = {c1,c2}
  Tubes = {t1}
  DefaultTube = t1
  MaxJobs = 1
  Pris = {0}
  KickBounds = {1}
  AllocMayFail = FALSE
SYMMETRY ConnSymmetry
PROPERTIES
  DelayedCanBeDeleted
