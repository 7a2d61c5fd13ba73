\* All nets of four nodes.
CONSTANTS
  Nodes = {1, 2, 3, 4}
  Coins = {0, 2}
  MaxDebt = 1
  Parts = 216000
SPECIFICATION Spec
INVARIANTS TypeOK OneWayDebts MoneyConserved SolventNetsSettle NobodyOverpaid
PROPERTY Settles
CHECK_DEADLOCK FALSE
