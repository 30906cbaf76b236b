SPECIFICATION Spec
CONSTANTS
  MaxInt = 10000
  Prices <- MCPrices
  MaxStake = 120
  MaxDivisor = 4
  Boards <- MCBoards
  HandLines <- MCHandLines
  StakeUnits = {2}
  MaxTilt = 4
INVARIANTS
  ProfitExact
  GradingPays
  NoArbitrage
  LineSound
PROPERTIES
  LineSettles
CHECK_DEADLOCK FALSE
