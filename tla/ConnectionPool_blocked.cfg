\* Two threads and one connection: a wake-up is lost.
CONSTANTS
  Threads = {t1, t2}
  Connections = {c1, c2}
  Nil = Nil
  Timer = Timer
  MaxConnections = 1
  MaxQueries = 2
  MaxFaults = 0
  MaxTicks = 0
  Stops = 0
SPECIFICATION FairSpec
PROPERTY BlocksOnlyAtLimit
CHECK_DEADLOCK FALSE
