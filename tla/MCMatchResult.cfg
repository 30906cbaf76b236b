SPECIFICATION ResultSpec
CONSTANTS
  ann = ann  annAgain = annAgain  bob = bob  boss = boss  owner = owner
  pa = pa  pb = pb  pc = pc
  Actors = {ann, annAgain, bob, boss, owner}
  Players = {pa, pb, pc}
  NoPlayer = NoPlayer
  PlayerOf <- MCPlayerOf
  Privileged = {boss, owner}
  Format = "singles"
  Roster <- MCRoster
  Participants <- MCParticipants
  Captains <- MCCaptains
  Proposals <- MCProposals
  SubmissionIds = {s1, s2}
  ConfirmationIds = {k1}
  VerificationIds = {v1, v2, v3}
  CommandIds = {c1, c2, c3, c4}
  Nobody = Nobody
  NoId = NoId
SYMMETRY Symmetry
INVARIANTS
  ResultsSound
  TwoPartyRule
PROPERTIES
  ResultsAppendOnly
CHECK_DEADLOCK FALSE
