\* Two rooms and another service compete for the accounts of two players.
\* Statements fail, servers crash, and a settlement leaves a pledge that
\* does not fit into an int for the next joinGame to find.
CONSTANTS
  Rooms = {r1, r2}
  Players = {p1, p2}
  NoPlayer = NoPlayer
  PledgeNeed = 2
  DiamondNeed = 1
  GoldNeeds = {3}
  MaxTries = 2
  IntLimit = 4
  InitGold = {3}
  InitDiamond = {1}
  OtherGold = {0, 4}
  Settlements = {1, 5}
  MaxCalls = 4
  MaxOther = 2
  MaxFaults = 2
SPECIFICATION Spec
INVARIANTS TypeOK AvatarMatchesRow PledgeExact PledgeBacked ReleasedOwesNothing
PROPERTY NoLostUpdate
SYMMETRY Symmetry
CHECK_DEADLOCK FALSE
