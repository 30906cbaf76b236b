------------------------------ MODULE MCBookTx ------------------------------
(***************************************************************************)
(* Two workers, one market, two wagers of one member who can cover only    *)
(* one of them.                                                            *)
(***************************************************************************)
EXTENDS BookTx

CONSTANTS u1, m1, w1, w2, a

MCRequest ==
  [w \in {w1, w2} |-> [user |-> u1, market |-> m1, side |-> a, odds |-> 100,
                       stake |-> IF w = w1 THEN 2 ELSE 1]]

MCCredit == [u \in {u1} |-> 2]

MCOrder == <<w1, w2>>
=============================================================================
