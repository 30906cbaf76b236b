SPECIFICATION Spec
CONSTANTS
  m1 = m1
  Teams = {t1, t2}
  Players = {p1, p2, p3}
  Users = {u1}
  Matches = {m1}
  FormatOf <- MCFormatOf
  Histories <- MCHistories
  NoTeam = NoTeam  NoUser = NoUser  NoTx = NoTx
SYMMETRY Symmetry
INVARIANTS
  ReferencesHold
  StandingsMatchResults
PROPERTY
  CaptainsKept
CHECK_DEADLOCK FALSE
