SPECIFICATION Spec
CONSTANTS
  u1 = u1  u2 = u2  m1 = m1  m2 = m2  w1 = w1  w2 = w2  w3 = w3  a = a  b = b
  Users = {u1, u2}
  Markets = {m1, m2}
  MatchMarkets = {m2}
  Sides = {a, b}
  Wagers = {w1, w2, w3}
  Request <- MCRequest
  Credit <- MCCredit
  MaxPayout = 10
  MaxInt = 65535
  LegacyMarkets = {m2}
  LegacyWagers = {w3}
  MaxRegrades = 2
INVARIANTS
  MoneyHeld
  KeysSound
  PaidAsGraded
  NothingStranded
PROPERTIES
  DecisionsStay
CHECK_DEADLOCK FALSE
