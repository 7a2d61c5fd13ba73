\* As many connections as threads.
CONSTANTS
  Threads = {t1, t2}
  Connections = {c1, c2, c3}
  Nil = Nil
  Timer = Timer
  MaxConnections = 2
  MaxQueries = 5
  MaxFaults = 2
  MaxTicks = 0
  Stops = 1
SPECIFICATION FairSpec
PROPERTY Returns
CHECK_DEADLOCK FALSE
