-------------------------------- MODULE Odds --------------------------------
(***************************************************************************)
(* The integer arithmetic of the book: what a stake wins at an American    *)
(* price (ledger.AmericanOdds.Profit) and how one graded wager is posted   *)
(* to the ledger (betting.settleWager).  All amounts are cents.            *)
(*                                                                         *)
(* The code computes in int64.  MaxInt stands for math.MaxInt64, so that   *)
(* the overflow guard can be explored with small numbers and proved for    *)
(* every width.                                                            *)
(***************************************************************************)
EXTENDS Integers, FiniteSets

CONSTANT MaxInt

ASSUME MaxIntAssumption == MaxInt \in Nat /\ MaxInt >= 1000

-----------------------------------------------------------------------------
(* ledger.AmericanOdds *)

ValidOdds(o) == o \in Int /\ (o >= 100 \/ o <= -100)

Numerator(o) == IF o > 0 THEN o ELSE 100

Denominator(o) == IF o > 0 THEN 100 ELSE -o

OverflowUnchecked(o, stake) == FALSE

(* Profit refuses a stake whose product with the numerator would not fit.  *)
ProfitOverflows(o, stake) == stake > MaxInt \div Numerator(o)

ProfitHalfDown(o, stake) ==
  LET product == stake * Numerator(o)
      d       == Denominator(o)
  IN  product \div d + (IF product % d > (d + 1) \div 2 THEN 1 ELSE 0)

Profit(o, stake) ==
  LET product == stake * Numerator(o)
      d       == Denominator(o)
  IN  product \div d + (IF product % d >= (d + 1) \div 2 THEN 1 ELSE 0)

-----------------------------------------------------------------------------
(* betting.settleWager *)

Results  == {"win", "loss", "push", "void"}
Accounts == {"user", "escrow", "house"}

WinningStakeRoundsUp(stake, divisor) == (stake + divisor - 1) \div divisor

(* deadHeatSplit: the part of the stake that rides; the rest is lost.  The *)
(* division truncates, so the odd cent stays with the house.               *)
WinningStake(stake, divisor) == stake \div divisor

(* A stake smaller than the number of tied winners leaves nothing riding,  *)
(* and Profit refuses a zero stake.                                        *)
WinProfit(stake, o, divisor) ==
  LET winning == WinningStake(stake, divisor)
  IN  IF winning = 0 THEN 0 ELSE Profit(o, winning)

(* Net amount each account receives when the wager is graded.              *)
LinesKeepRemainder(result, stake, o, divisor) ==
  LET winning == WinningStake(stake, divisor)
      profit  == WinProfit(stake, o, divisor)
  IN  CASE result = "win"  -> [escrow |-> -stake, house |-> -profit, user |-> winning + profit]
        [] result = "loss" -> [escrow |-> -stake, house |-> stake, user |-> 0]
        [] OTHER           -> [escrow |-> -stake, house |-> 0, user |-> stake]

Lines(result, stake, o, divisor) ==
  LET winning == WinningStake(stake, divisor)
      profit  == WinProfit(stake, o, divisor)
  IN  CASE result = "win"  -> [escrow |-> -stake,
                               house  |-> (stake - winning) - profit,
                               user   |-> winning + profit]
        [] result = "loss" -> [escrow |-> -stake, house |-> stake, user |-> 0]
        [] OTHER           -> [escrow |-> -stake, house |-> 0, user |-> stake]

PostedAlways(result, stake, o, divisor) == Accounts

(* The accounts a grading posts to: settleWager leaves out the house and   *)
(* the user leg of a win when that leg moves no money.                     *)
Posted(result, stake, o, divisor) ==
  LET lines == Lines(result, stake, o, divisor)
  IN  CASE result = "win"  -> {"escrow"} \cup {a \in {"house", "user"} : lines[a] # 0}
        [] result = "loss" -> {"escrow", "house"}
        [] OTHER           -> {"escrow", "user"}

-----------------------------------------------------------------------------
(* What the arithmetic promises.  Each is stated for one wager.            *)

(* Reference definition of rounding: the integer p nearest to              *)
(* stake * numerator / denominator, an exact half cent going up.           *)
IsNearestCent(o, stake, p) ==
  /\ (2 * p - 1) * Denominator(o) <= 2 * stake * Numerator(o)
  /\ 2 * stake * Numerator(o) < (2 * p + 1) * Denominator(o)

(* ledger.ValidatePostings: at least two postings, none of them zero, over *)
(* distinct accounts, that sum to zero.                                    *)
LegalPostings(result, stake, o, divisor) ==
  LET lines  == Lines(result, stake, o, divisor)
      posted == Posted(result, stake, o, divisor)
      amount(a) == IF a \in posted THEN lines[a] ELSE 0
  IN  /\ Cardinality(posted) >= 2
      /\ \A a \in posted : lines[a] # 0
      /\ amount("user") + amount("escrow") + amount("house") = 0
=============================================================================
