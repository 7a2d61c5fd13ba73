\* No statement fails; a conflict during deductCashPledge is enough.
CONSTANTS
  Rooms = {r1}
  Players = {p1}
  NoPlayer = NoPlayer
  PledgeNeed = 2
  DiamondNeed = 1
  GoldNeeds = {3}
  MaxTries = 2
  IntLimit = 4
  InitGold = {3}
  InitDiamond = {1}
  OtherGold = {0, 4}
  Settlements = {1}
  MaxCalls = 4
  MaxOther = 2
  MaxFaults = 0
SPECIFICATION Spec
INVARIANT FailedDeductLeavesPledge
CHECK_DEADLOCK FALSE
