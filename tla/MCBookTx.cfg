SPECIFICATION TxSpec
CONSTANTS
  u1 = u1  m1 = m1  w1 = w1  w2 = w2  a = a
  Workers = {1, 2}
  Users = {u1}
  Markets = {m1}
  MatchMarkets = {}
  Sides = {a}
  Wagers = {w1, w2}
  Request <- MCRequest
  Credit <- MCCredit
  WagerOrder <- MCOrder
  MaxPayout = 10
  MaxInt = 65535
  LegacyMarkets = {}
  LegacyWagers = {}
  MaxRegrades = 1
INVARIANTS
  TxSound
  NoRowDeadlock
PROPERTIES
  ImplementsBook
CHECK_DEADLOCK FALSE
