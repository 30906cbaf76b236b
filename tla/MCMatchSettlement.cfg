SPECIFICATION MatchSpec
CONSTANTS
  u1 = u1  g1 = g1  m1 = m1  m2 = m2  w1 = w1  w2 = w2  a = a  b = b
  Users = {u1}
  Markets = {m1, m2}
  MatchMarkets = {m1, m2}
  Sides = {a, b}
  Wagers = {w1, w2}
  Request <- MCRequest
  Credit <- MCCredit
  MaxPayout = 10
  MaxInt = 65535
  LegacyMarkets = {}
  LegacyWagers = {}
  MaxRegrades = 0
  Matches = {g1}
  MatchOf <- MCMatchOf
  KeyOf <- MCKeyOf
  EarlierMarkets = {m1}
  Dispatchers = {1, 2}
  NoDelivery = NoDelivery
  HandOutcomes <- MCHandOutcomes
  MaxAttempts = 2
  MaxFaults = 1
INVARIANTS
  ConsumerPaysTheResult
PROPERTIES
  DecisionStands
  StakesReturn
  OnlyBookSteps
CHECK_DEADLOCK FALSE
