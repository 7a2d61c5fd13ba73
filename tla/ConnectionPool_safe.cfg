\* Three threads and two connections, lost connections, Stop and the timer.
CONSTANTS
  Threads = {t1, t2, t3}
  Connections = {c1, c2, c3, c4, c5}
  Nil = Nil
  Timer = Timer
  MaxConnections = 2
  MaxQueries = 5
  MaxFaults = 2
  MaxTicks = 1
  Stops = 1
SPECIFICATION Spec
INVARIANTS TypeOK Exclusive AtMostMax
SYMMETRY Symmetry
CHECK_DEADLOCK FALSE
