------------------------------- MODULE MCBook -------------------------------
(***************************************************************************)
(* A small book: two members, three wagers on the two sides of one market, *)
(* with a stake that splits unevenly, a favourite and an underdog; or, in  *)
(* the legacy instance, a market settled with wagers left behind.          *)
(***************************************************************************)
EXTENDS Book, TLC

CONSTANTS u1, u2, m1, m2, w1, w2, w3, a, b

MCRequest ==
  w1 :> [user |-> u1, market |-> m1, side |-> a, stake |-> 3, odds |-> -150] @@
  w2 :> [user |-> u1, market |-> m1, side |-> b, stake |-> 2, odds |-> 250] @@
  w3 :> [user |-> u2, market |-> m2, side |-> a, stake |-> 3, odds |-> 100]

MCCredit == u1 :> 4 @@ u2 :> 1
=============================================================================
