\* Threads compete for loading one venue, which ends and may come back on another
\* handler; every request is served.
CONSTANTS
  Outers = {w1, w2}
  Handlers = {h1, h2}
  Venues = {v1}
  Players = {p1}
  Nil = Nil
  MaxPlayers = 1
  MaxWaits = 1
  MaxRequests = 3
  MaxFaults = 1
SPECIFICATION FairSpec
INVARIANTS TypeOK LockHeld OneOpen NoReopen Reachable CurrentVenue
PROPERTY Served
CHECK_DEADLOCK FALSE
