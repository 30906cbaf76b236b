SPECIFICATION Spec
CONSTANTS
  ann = ann
  bob = bob
  Users <- MCUsers
  Results <- MCResults
  Sources <- MCSources
  Forms = {f1}
  Requests = {r1, r2, r3}
  MaxSubmits = 2
  Commands = {c1, c2}
  MaxEdits = 1
  MaxRoleChanges = 1
  Bad = Bad
  NoSource = NoSource
  None = None
SYMMETRY Symmetry
CHECK_DEADLOCK FALSE
INVARIANT FormRecordedOnce
