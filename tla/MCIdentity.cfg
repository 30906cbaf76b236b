SPECIFICATION Spec
CONSTANTS
  u1 = u1
  u2 = u2
  s1 = s1
  s2 = s2
  Users <- MCUsers
  Subjects <- MCSubjects
  Idents <- MCIdents
  Addressees = {u2}
  Browsers = {b1, b2}
  Attempts = {a1, a2}
  Invites = {i1}
  Sessions = {t1, t2}
  MaxCommands = 2
  None = None
  Operator = Operator
SYMMETRY Symmetry
INVARIANTS
  RolesSound
  OneLiveSessionPerSignIn
PROPERTIES
  OwnerKept
  SignInSound
CHECK_DEADLOCK FALSE
