SPECIFICATION ParlaySpec
CONSTANTS
  m1 = m1  m2 = m2  m3 = m3  p1 = p1  p2 = p2
  Markets = {m1, m2}
  Parlays = {p1, p2}
  Legs <- TwoParlays
  Stake <- MCStake
  Juice = 350
  MaxPayout = 1000
  MaxInt = 65535
INVARIANTS
  ParlayMoneySound
  LastLegSettles
  PaidAsResolved
CHECK_DEADLOCK FALSE
