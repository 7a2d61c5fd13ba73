\* One outer thread and two players, who are freed after they have gone.
CONSTANTS
  Threads = {t1}
  Players = {p1, p2}
  MaxSessions = 2
  Nil = Nil
  OfflineLimit = 3
  ReferenceLimit = 2
  MaxRequests = 1
  MaxRemoved = 0
SPECIFICATION FairSpec
INVARIANT MemberIsKnown
PROPERTY DormantFreed
CHECK_DEADLOCK FALSE
