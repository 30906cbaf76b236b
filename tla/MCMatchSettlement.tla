-------------------------- MODULE MCMatchSettlement --------------------------
(* A match whose first market was made before selections had to be mapped, *)
(* the market that may replace it, and two overlapping dispatchers that    *)
(* give up after two attempts.  By hand a market is graded as a dead heat. *)
EXTENDS MatchSettlement, TLC

CONSTANTS u1, g1, m1, m2, w1, w2, a, b

MCMatchOf == [m \in MatchMarkets |-> g1]
MCKeyOf ==
  [m \in MatchMarkets |->
     a :> "side_1" @@ b :> (IF m \in EarlierMarkets THEN "other" ELSE "side_2")]

MCRequest ==
  w1 :> [user |-> u1, market |-> m2, side |-> a, stake |-> 2, odds |-> -250] @@
  w2 :> [user |-> u1, market |-> m2, side |-> b, stake |-> 2, odds |-> 250]

MCCredit == u1 :> 4
MCHandOutcomes == {[s \in Sides |-> "win"]}
=============================================================================
