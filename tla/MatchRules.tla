------------------------------ MODULE MatchRules ------------------------------
(***************************************************************************)
(* What makes a team and a match well formed (competition.NewTeam,         *)
(* NewMatch, ParticipantRuleFor): shared by the match aggregate and by the *)
(* tournament's tables.                                                    *)
(***************************************************************************)
EXTENDS Integers, FiniteSets

CONSTANT Players   \* golfers

Formats == {"singles", "fourball", "foursomes", "scramble", "other"}

(* ParticipantRuleFor: players per side; the flexible format has no most.  *)
MinPerSide(format) == IF format \in {"singles", "other"} THEN 1 ELSE 2
HasMost(format) == format # "other"

ValidCount(format, n) ==
  /\ n >= MinPerSide(format)
  /\ HasMost(format) => n <= MinPerSide(format)

(* NewTeam: some members, and among them at least one captain.             *)
LegalTeam(members, captains) ==
  members # {} /\ captains # {} /\ captains \subseteq members

(* NewMatch: as many players as the format asks for, each one on the team  *)
(* of one side, nobody on both sides.                                      *)
LegalSides(format, roster, players) ==
  /\ \A s \in {1, 2} :
       /\ players[s] \subseteq roster[s]
       /\ ValidCount(format, Cardinality(players[s]))
  /\ players[1] \cap players[2] = {}
=============================================================================
