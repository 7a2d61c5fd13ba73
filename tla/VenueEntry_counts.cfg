\* A venue is removed with players inside.
CONSTANTS
  Outers = {w1}
  Handlers = {h1}
  Venues = {v1}
  Players = {p1}
  Nil = Nil
  MaxPlayers = 1
  MaxWaits = 0
  MaxRequests = 3
  MaxFaults = 0
SPECIFICATION Spec
INVARIANT TotalIsPlayers
CHECK_DEADLOCK FALSE
