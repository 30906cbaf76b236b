------------------------------ MODULE MCParlay ------------------------------
(***************************************************************************)
(* TwoParlays: two parlays over the same two markets, at even money.       *)
(* ThreeLegs: two favourites and a long shot.                              *)
(***************************************************************************)
EXTENDS Parlay, TLC

CONSTANTS m1, m2, m3, p1, p2

TwoParlays == [p \in {p1, p2} |->
  IF p = p1 THEN (m1 :> 100) @@ (m2 :> 100) ELSE (m1 :> 150) @@ (m2 :> -150)]

ThreeLegs == [p \in {p1} |-> (m1 :> -300) @@ (m2 :> -300) @@ (m3 :> 300)]

MCStake == [p \in Parlays |-> 10]
=============================================================================
