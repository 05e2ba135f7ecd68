SPECIFICATION Spec
CONSTANTS
  c1 = c1
  c2 = c2
  NoConn = NoConn
  Conns = {c1,c2}
  MaxTick = 3
INVARIANTS
  TickposIsPosition
CHECK_DEADLOCK FALSE
