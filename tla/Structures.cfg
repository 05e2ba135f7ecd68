SPECIFICATION AllSpec
CONSTANTS
  MaxJobs = 6
  c1 = c1
  c2 = c2
  c3 = c3
  Conns = {c1,c2,c3}
  NoConn = NoConn
  MaxTick = 3
  r1 = r1
  r2 = r2
  Clients = {r1,r2}
  DefaultTube = DefaultTube
  tb = tb
  tc = tc
  NoTube = NoTube
  Tubes = {DefaultTube,tb,tc}
  MaxIrefs = 2
  s1 = s1
  StoreConns = {s1}
  MaxId = 5
  InitSlots = 2
  ResizeRatio = 1
SYMMETRY Symmetry
INVARIANTS
  HeapOrdered
  HeapIndexExact
  CountCoversUsers
  UnusedTubesDeleted
  CountExact
  ListsMirrored
PROPERTIES
  ImplementsMatching
  ImplementsTicks
  ImplementsSequences
CHECK_DEADLOCK FALSE
