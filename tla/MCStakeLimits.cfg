SPECIFICATION Spec
CONSTANTS
  u1 = u1  u2 = u2  a = a  b = b  w1 = w1  w2 = w2  w3 = w3
  r1 = r1  r2 = r2  r3 = r3
  Users = {u1, u2}
  Sides = {a}
  Whole = Whole
  Wagers = {w1, w2, w3}
  Scenarios <- OneMarket
  NewLimits = {0, 1}
  AutoLimits = {0, 1}
  MaxChanges = 2
INVARIANTS
  AdmissionSound
PROPERTIES
  LimitsHold
  ApprovedWithinLimit
CHECK_DEADLOCK FALSE
