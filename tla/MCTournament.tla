---------------------------- MODULE MCTournament ----------------------------
(* Two teams, three golfers and one member; one match whose format takes   *)
(* one or more golfers a side, so that a team may field its last captain.  *)
(* The database is fresh, or upgraded with that match already in it.       *)
EXTENDS Tournament, TLC

CONSTANT m1
MCFormatOf == [m \in Matches |-> "other"]
MCHistories ==
  LET sides == {<<[team |-> t, players |-> a], [team |-> u, players |-> b]>> :
                  t \in Teams, u \in Teams, a \in SUBSET Players, b \in SUBSET Players}
      legal == {s \in sides : /\ s[1].team # s[2].team
                              /\ s[1].players # {} /\ s[2].players # {}
                              /\ s[1].players \cap s[2].players = {}}
  IN {<<>>} \cup {m1 :> s : s \in legal}
Symmetry == Permutations(Teams) \cup Permutations(Players)
=============================================================================
