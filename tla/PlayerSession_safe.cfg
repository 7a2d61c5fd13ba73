\* Two outer threads, a player with two sessions, entering and leaving.
CONSTANTS
  Threads = {t1, t2}
  Players = {p1}
  MaxSessions = 2
  Nil = Nil
  OfflineLimit = 3
  ReferenceLimit = 2
  MaxRequests = 1
  MaxRemoved = 1
SPECIFICATION Spec
INVARIANTS TypeOK SessionsAgree HeldNotFreed AvatarAgrees
SYMMETRY Symmetry
CHECK_DEADLOCK FALSE
