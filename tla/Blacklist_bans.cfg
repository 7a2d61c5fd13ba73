\* Two servers with two threads each list the same address.
CONSTANTS
  Servers = {v1, v2}
  Threads = {k1, k2}
  Nil = Nil
  Limit = 3
  Window = 3
  BanTime = 3
  MaxTime = 4
  MaxAbnormal = 5
  MaxCrashes = 1
  MaxFaults = 1
SPECIFICATION Spec
INVARIANTS TypeOK BanHolds BanSaved ListedOnlyIfAbnormal AbnormalIsListed
SYMMETRY Symmetry
CHECK_DEADLOCK FALSE
