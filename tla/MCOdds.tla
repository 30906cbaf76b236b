------------------------------- MODULE MCOdds -------------------------------
(***************************************************************************)
(* A market whose line moves, and the book's arithmetic on every price a   *)
(* line can reach: what a stake of 1 to MaxStake cents wins at it and how  *)
(* the wager is posted when it is graded.                                  *)
(***************************************************************************)
EXTENDS Line

(* A pick'em, a favourite and an outsider, three runners, and boards       *)
(* posted below even money.  On the first two there are enough wagers for  *)
(* the prices of two sides to have drifted when they are taken.            *)
MCBoards ==
  {[line |-> <<-110, -110>>, dynamic |-> TRUE, wagers |-> 3, refunds |-> 1, hand |-> 0],
   [line |-> <<150, 150, 200>>, dynamic |-> TRUE, wagers |-> 3, refunds |-> 1, hand |-> 0],
   [line |-> <<-110, -110>>, dynamic |-> TRUE, wagers |-> 2, refunds |-> 4, hand |-> 1],
   [line |-> <<-333, 250>>, dynamic |-> TRUE, wagers |-> 2, refunds |-> 4, hand |-> 0],
   [line |-> <<105, 101>>, dynamic |-> TRUE, wagers |-> 2, refunds |-> 4, hand |-> 0],
   [line |-> <<100, -110>>, dynamic |-> FALSE, wagers |-> 2, refunds |-> 4, hand |-> 1]}
MCHandLines == {-101}

Extremes == {-10000, -100, 100, 10000}
MCPrices == Extremes \cup UNION {Range(line) : line \in UNION {Range(board) : board \in Range(Repriced)}}
=============================================================================
