------------------------------ MODULE Grading ------------------------------
(***************************************************************************)
(* What the arithmetic of Odds promises, at every price of a set and for   *)
(* stakes of 1 to MaxStake cents: the profit AmericanOdds.Profit computes, *)
(* the postings settleWager builds, and what deadHeatSplit leaves to up to *)
(* MaxDivisor tied winners.                                                *)
(*                                                                         *)
(* None of it depends on the wagers a book has taken.  The properties ask  *)
(* it of an empty book, for every wager that may come; the theorems state  *)
(* it without that condition too.                                          *)
(***************************************************************************)
EXTENDS Odds

CONSTANTS Prices, MaxStake, MaxDivisor

ASSUME GradingAssumption ==
  /\ \A price \in Prices : ValidOdds(price)
  /\ MaxStake \in Nat /\ MaxDivisor \in Nat

VARIABLE wagers   \* the wagers taken so far

Stakes == 1 .. MaxStake
Divisors == 1 .. MaxDivisor

(* AmericanOdds.Profit: the integer arithmetic yields the nearest cent of  *)
(* the rational profit, exact halves up, for odd and even denominators     *)
(* alike.                                                                  *)
ProfitIsNearestCent ==
  \A price \in Prices, stake \in Stakes : IsNearestCent(price, stake, Profit(price, stake))

(* AmericanOdds.Profit and Return: a stake that passes the overflow guard  *)
(* has a product, a profit and a return that all fit in the integer width, *)
(* so Return never fails once Profit has succeeded.                        *)
GuardedProfitFits ==
  \A price \in Prices, stake \in Stakes :
    ~ ProfitOverflows(price, stake) =>
        /\ stake * Numerator(price) <= MaxInt
        /\ stake + Profit(price, stake) <= MaxInt

(* settleWager: every grading of every wager, dead heats and stakes too    *)
(* small to split or to win a cent included, builds a ledger transaction   *)
(* that ledger.ValidatePostings accepts.                                   *)
EveryGradingPosts ==
  \A price \in Prices, stake \in Stakes, result \in Results, n \in Divisors :
    LegalPostings(result, stake, price, n)

(* deadHeatSplit: n tied winners holding the same stake are together never *)
(* paid more than one outright winner of that stake and price would be,    *)
(* beyond the half cent each payment may round up.                         *)
TiedWinnersShareOnePayout ==
  \A price \in Prices, stake \in Stakes, n \in Divisors :
    2 * n * Lines("win", stake, price, n).user
      <= 2 * Lines("win", stake, price, 1).user + n + 1

(* AmericanOdds.Profit and Return: at every price the profit is the        *)
(* nearest cent, and nothing that passed the overflow guard leaves the     *)
(* integer width.                                                          *)
ProfitExact == wagers = <<>> => ProfitIsNearestCent /\ GuardedProfitFits

(* settleWager and deadHeatSplit: every grading of every stake can be      *)
(* posted, and tied winners together receive one payout.                   *)
GradingPays == wagers = <<>> => EveryGradingPosts /\ TiedWinnersShareOnePayout
=============================================================================
