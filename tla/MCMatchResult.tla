---------------------------- MODULE MCMatchResult ----------------------------
(* Two members of each side, one of them with a second account; an         *)
(* administrator who plays and an owner who does not.                      *)
EXTENDS MatchResult, TLC

CONSTANTS ann, annAgain, bob, boss, owner, pa, pb, pc

MCPlayerOf == [a \in Actors |->
  CASE a \in {ann, annAgain} -> pa [] a = bob -> pb [] a = boss -> pc [] OTHER -> NoPlayer]
MCRoster == <<{pa}, {pb, pc}>>
MCParticipants == <<{pa}, {pb}>>
MCCaptains == <<{pa}, {pb, pc}>>

Win(s, score) == [outcome |-> "side_win", winner |-> s, score |-> score]
Tie(w) == [outcome |-> "tie", winner |-> w, score |-> "none"]
MCProposals == {Win(1, "2&1"), Win(1, "1up"), Tie(NoSide), Tie(2), Win(NoSide, "1up")}

Symmetry == Permutations(CommandIds) \cup Permutations(SubmissionIds)
              \cup Permutations(VerificationIds)
=============================================================================
