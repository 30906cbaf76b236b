-------------------------------- MODULE Line --------------------------------
(***************************************************************************)
(* One market's line: the prices members are shown and how they move       *)
(* (pricing.Reprice; bettingpg's RepriceMarketAfterWager, PricingConsumer  *)
(* and SetOpeningLine).  A wager that is rejected or cancelled never moves *)
(* the line, so a wager here stays pending or is accepted.                 *)
(*                                                                         *)
(* A wager is priced when it is placed.  Acceptance publishes an event and *)
(* the line moves when the pricing consumer handles it, maybe more than    *)
(* once; a void or a reduction commits first and moves the line in a       *)
(* second transaction, whose failure the code drops.                       *)
(*                                                                         *)
(* The code computes probabilities in floating point; here they are whole  *)
(* numbers of parts per Scale.  Stakes are counted in units of the         *)
(* liquidity times ln 2, so that exp(stake / liquidity) is a power of two. *)
(***************************************************************************)
EXTENDS Grading, Sequences, FiniteSetsExt, Functions, TLC

CONSTANTS
  Boards,       \* the markets created: opening line, dynamic pricing, and
                \* bounds on its wagers, their refunds and lines set by hand
  HandLines,    \* prices an administrator sets by hand
  StakeUnits,   \* stakes a member may bet
  MaxTilt       \* maxTiltExponent, in the same units

Scale == 10000
MaxOdds == 10000
MaxRoundingSteps == 32

ASSUME LineAssumption ==
  /\ \A b \in Boards :
       /\ b.line \in Seq({o \in -MaxOdds .. MaxOdds : ValidOdds(o)})
       /\ b.dynamic \in BOOLEAN /\ {b.wagers, b.refunds, b.hand} \subseteq Nat
  /\ \A o \in HandLines : ValidOdds(o)
  /\ StakeUnits \subseteq Nat \ {0}
  /\ MaxTilt \in Nat

VARIABLES     \* beside wagers, in the order they were placed
  market,     \* state, dynamic pricing and offered line
  opening,    \* selections.opening_american_odds, the prior
  due,        \* wagers whose WagerAccepted event is not yet handled for good
  after,      \* voided or reduced wagers whose repricing is still to run
  stale,      \* a repricing was dropped and none has run since
  budget        \* bounds: wagers, refunds and hand-set lines still to come

vars == <<market, opening, wagers, due, after, stale, budget>>

Selections == DOMAIN opening
MaxWagers == Max({b.wagers : b \in Boards})

-----------------------------------------------------------------------------
(* pricing *)

Nearest(n, d) == (n + d \div 2) \div d

ImpliedProbability(o) ==
  IF o > 0 THEN Nearest(100 * Scale, o + 100) ELSE Nearest(-o * Scale, 100 - o)

Clamp(x, low, high) == IF x < low THEN low ELSE IF x > high THEN high ELSE x

AmericanUnderdogOnly(probability) == Nearest(100 * (Scale - probability), probability)

AmericanFromProbability(probability) ==
  LET p == Clamp(probability, ImpliedProbability(MaxOdds), ImpliedProbability(-MaxOdds))
  IN  IF 2 * p <= Scale
      THEN Clamp(Nearest(100 * (Scale - p), p), 100, MaxOdds)
      ELSE -Clamp(Nearest(100 * p, Scale - p), 100, MaxOdds)

ShortenOnePoint(o) ==
  CASE o > 100       -> o - 1
    [] o = 100       -> -100
    [] o > -MaxOdds /\ o <= -100 -> o - 1
    [] OTHER         -> o

(* The walk back to the first price at or above the floor.                 *)
ClearFloor(o, floor) ==
  LET walk[p \in Int, steps \in Nat] ==
        IF steps = 0 \/ ImpliedProbability(p) >= floor \/ ShortenOnePoint(p) = p
        THEN p ELSE walk[ShortenOnePoint(p), steps - 1]
  IN  walk[o, MaxRoundingSteps]

Total(f) == MapThenSumSet(LAMBDA i : f[i], DOMAIN f)

(* Mutant: the sides may give up more than the margin between them.        *)
DriftPastMargin(priors) ==
  LET overround == Total(priors)
      keep == IF overround > Scale THEN 12 * Scale - 2 * overround ELSE 10 * overround
  IN  [i \in DOMAIN priors |-> Nearest(priors[i] * keep, 10 * overround)]

DriftUnbounded(priors) == [i \in DOMAIN priors |-> 0]

(* Every selection may give up 0.8 of the margin, shared in proportion.    *)
DriftFloors(priors) ==
  LET overround == Total(priors)
      keep == IF overround > Scale THEN 2 * overround + 8 * Scale ELSE 10 * overround
  IN  [i \in DOMAIN priors |-> Nearest(priors[i] * keep, 10 * overround)]

(* Lifts what has drifted past its floor and rescales the rest to keep the *)
(* overround, until nothing new is lifted.  The rescalings compose, so the *)
(* probabilities depend only on the set lifted so far.                     *)
ApplyDriftFloors(probabilities, floors, overround) ==
  LET all == DOMAIN floors
      rescaled(lifted) ==
        LET left == overround - MapThenSumSet(LAMBDA i : floors[i], lifted)
            free == MapThenSumSet(LAMBDA i : probabilities[i], all \ lifted)
        IN  [i \in all |-> IF i \in lifted THEN floors[i]
                          ELSE Nearest(probabilities[i] * left, free)]
      clamped[lifted \in SUBSET all] ==
        LET low == {i \in all \ lifted : rescaled(lifted)[i] < floors[i]}
        IN  IF low = {} THEN lifted ELSE clamped[lifted \cup low]
  IN  rescaled(clamped[{}])

TiltAway(prior, stake) == Nearest(prior, 2 ^ stake)

(* prior * exp(stake / liquidity), the exponent capped.                    *)
Tilt(prior, stake) == prior * 2 ^ (IF stake > MaxTilt THEN MaxTilt ELSE stake)

Reprice(line, stakes) ==
  LET priors    == [i \in DOMAIN line |-> ImpliedProbability(line[i])]
      overround == Total(priors)
      weights   == [i \in DOMAIN line |-> Tilt(priors[i], stakes[i])]
      tilted    == [i \in DOMAIN line |-> Nearest(weights[i] * overround, Total(weights))]
      floors    == DriftFloors(priors)
      settled   == ApplyDriftFloors(tilted, floors, overround)
  IN  [i \in DOMAIN line |-> ClearFloor(AmericanFromProbability(settled[i]), floors[i])]

(* Reprice is a pure function: it is tabulated once, for every line the    *)
(* market can have and every stake the bounded wagers can put on it.  (The *)
(* @@ with an empty function makes TLC keep the table.)                    *)
Repriced ==
  LET lines == UNION {[DOMAIN b.line -> Range(b.line) \cup HandLines] : b \in Boards}
      most  == MaxWagers * Max(StakeUnits)
  IN  [line \in lines |->
         [stakes \in [DOMAIN line -> 0 .. most] |-> Reprice(line, stakes)] @@ <<>>] @@ <<>>

(* acceptedStakeBySelection                                                *)
AcceptedStakes(book) ==
  LET sum[n \in 0 .. Len(book)] ==
        IF n = 0 THEN [s \in Selections |-> 0]
        ELSE IF book[n].state # "accepted" THEN sum[n - 1]
        ELSE [sum[n - 1] EXCEPT ![book[n].sel] = @ + book[n].stake]
  IN  sum[Len(book)]

(* repriceInTx: what the line has to be.  A market without dynamic pricing *)
(* offers its opening line.                                                *)
Target(line, book) ==
  IF market.dynamic /\ Len(line) >= 2 THEN Repriced[line][AcceptedStakes(book)] ELSE line

-----------------------------------------------------------------------------
(* CreateMarket seeds the opening line with the offered one.               *)
Init ==
  /\ \E b \in Boards :
       /\ opening = b.line
       /\ market = [state |-> "draft", dynamic |-> b.dynamic, offered |-> b.line]
       /\ budget = [wagers |-> b.wagers, refunds |-> b.refunds, hand |-> b.hand]
  /\ wagers = <<>>
  /\ due = {} /\ after = {} /\ stale = FALSE

OpenMarket ==
  /\ market.state = "draft"
  /\ market' = [market EXCEPT !.state = "open"]
  /\ UNCHANGED <<opening, wagers, due, after, stale, budget>>

CloseMarket ==
  /\ market.state = "open"
  /\ market' = [market EXCEPT !.state = "closed"]
  /\ UNCHANGED <<opening, wagers, due, after, stale, budget>>

SetOfferedOnly(s, o) ==
  /\ market.state \in {"draft", "open"}
  /\ budget.hand > 0 /\ budget' = [budget EXCEPT !.hand = @ - 1]
  /\ market' = [market EXCEPT !.offered[s] = o]
  /\ UNCHANGED <<opening, wagers, due, after, stale>>

(* A hand-set line changes the prior and reprices the whole board at once. *)
SetOpeningLine(s, o) ==
  /\ market.state \in {"draft", "open"}
  /\ budget.hand > 0 /\ budget' = [budget EXCEPT !.hand = @ - 1]
  /\ opening' = [opening EXCEPT ![s] = o]
  /\ market' = [market EXCEPT !.offered = Target(opening', wagers)]
  /\ stale' = FALSE
  /\ UNCHANGED <<wagers, due, after>>

(* The odds are the offered line's when the wager is placed.  board: the   *)
(* opening line then in force, which the table does not keep.              *)
PlaceWager(s, k) ==
  /\ budget.wagers > 0 /\ budget' = [budget EXCEPT !.wagers = @ - 1]
  /\ market.state = "open"
  /\ wagers' = Append(wagers, [sel |-> s, stake |-> k, state |-> "pending",
                               odds |-> market.offered[s], board |-> opening])
  /\ UNCHANGED <<market, opening, due, after, stale>>

AcceptWager(w) ==
  /\ wagers[w].state = "pending"
  /\ wagers' = [wagers EXCEPT ![w].state = "accepted"]
  /\ due' = due \cup {w}
  /\ UNCHANGED <<market, opening, after, stale, budget>>

(* The refund commits; the repricing is the next transaction.  One refund  *)
(* is in flight at a time, a bound of the model.                           *)
VoidWager(w) ==
  /\ wagers[w].state = "accepted"
  /\ after = {}
  /\ budget.refunds > 0 /\ budget' = [budget EXCEPT !.refunds = @ - 1]
  /\ wagers' = [wagers EXCEPT ![w].state = "voided"]
  /\ after' = after \cup {w}
  /\ UNCHANGED <<market, opening, due, stale>>

ReduceWager(w, k) ==
  /\ wagers[w].state = "accepted"
  /\ after = {}
  /\ budget.refunds > 0 /\ budget' = [budget EXCEPT !.refunds = @ - 1]
  /\ wagers' = [wagers EXCEPT ![w].stake = k]
  /\ after' = after \cup {w}
  /\ UNCHANGED <<market, opening, due, stale>>

RepriceAnyState ==
  /\ market' = [market EXCEPT !.offered = Target(opening, wagers)]
  /\ stale' = FALSE

(* One transaction under the market's row lock, a no-op unless the market  *)
(* is open and dynamically priced.                                         *)
RepriceMarketAfterWager ==
  IF market.dynamic /\ market.state = "open"
  THEN /\ market' = [market EXCEPT !.offered = Target(opening, wagers)]
       /\ stale' = FALSE
  ELSE UNCHANGED <<market, stale>>

HandleWithoutReprice(w) ==
  /\ w \in due
  /\ due' = due \ {w}
  /\ UNCHANGED <<market, opening, wagers, after, stale, budget>>

(* The dispatcher marks the event completed once it was handled; when that *)
(* mark is lost the event is handled again.                                *)
HandleAccepted(w) ==
  /\ w \in due
  /\ RepriceMarketAfterWager
  /\ due' = due \ {w}
  /\ UNCHANGED <<opening, wagers, after, budget>>

HandleAgainLater(w) ==
  /\ w \in due
  /\ RepriceMarketAfterWager
  /\ UNCHANGED <<opening, wagers, due, after, budget>>

(* Every attempt failed: the dispatcher gives the event up for good, and   *)
(* the line waits for the next repricing.                                  *)
EventFailed(w) ==
  /\ w \in due
  /\ due' = due \ {w}
  /\ stale' = TRUE
  /\ UNCHANGED <<market, opening, wagers, after, budget>>

RepriceAfterRefund(w) ==
  /\ w \in after
  /\ RepriceMarketAfterWager
  /\ after' = after \ {w}
  /\ UNCHANGED <<opening, wagers, due, budget>>

(* The process stops or the repricing fails; the refund stands.            *)
RepriceDropped(w) ==
  /\ w \in after
  /\ after' = after \ {w}
  /\ stale' = TRUE
  /\ UNCHANGED <<market, opening, wagers, due, budget>>

Next ==
  \/ OpenMarket \/ CloseMarket
  \/ \E s \in Selections, o \in HandLines : SetOpeningLine(s, o)
  \/ \E s \in Selections, k \in StakeUnits : PlaceWager(s, k)
  \/ \E w \in DOMAIN wagers :
       \/ AcceptWager(w) \/ VoidWager(w)
       \/ \E k \in 1 .. wagers[w].stake - 1 : ReduceWager(w, k)
       \/ HandleAccepted(w) \/ HandleAgainLater(w) \/ EventFailed(w)
       \/ RepriceAfterRefund(w) \/ RepriceDropped(w)

(* The dispatcher keeps polling: an event is completed or given up.        *)
Spec == Init /\ [][Next]_vars /\ \A w \in 1 .. MaxWagers : WF_vars(HandleAccepted(w))

-----------------------------------------------------------------------------
(* Properties *)

(* Every price on the board is a price ledger.NewAmericanOdds accepts.     *)
LineTypeOK ==
  /\ market.state \in {"draft", "open", "closed"}
  /\ DOMAIN market.offered = Selections
  /\ \A s \in Selections : ValidOdds(market.offered[s]) /\ market.offered[s] \in -MaxOdds .. MaxOdds
  /\ \A w \in DOMAIN wagers :
       /\ wagers[w].state \in {"pending", "accepted", "voided"}
       /\ wagers[w].sel \in Selections /\ ValidOdds(wagers[w].odds)
  /\ due \cup after \subseteq DOMAIN wagers

(* driftFloors, "what stops a member arbitraging the book against its own  *)
(* line movement": however a board posted above even money is moved by     *)
(* action on it, taking one price on every side at different moments still *)
(* pays the book, unless a hand-set line came in between.                  *)
NoArbitrage ==
  \A board \in {wagers[w].board : w \in DOMAIN wagers} :
    LET taken(s) == {ImpliedProbability(wagers[w].odds) :
                       w \in {v \in DOMAIN wagers : wagers[v].sel = s /\ wagers[v].board = board}}
        sides == {s \in DOMAIN board : taken(s) # {}}
    IN  /\ sides = DOMAIN board
        /\ market.dynamic
        /\ MapThenSumSet(LAMBDA s : ImpliedProbability(board[s]), sides) > Scale
        => MapThenSumSet(LAMBDA s : Min(taken(s)), sides) > Scale

(* RepriceMarketAfterWager and repriceInTx: while the market takes action, *)
(* the line differs from what the opening line and the accepted stakes     *)
(* determine only if an acceptance is still to be handled, a refund's      *)
(* repricing still to run, or one was dropped.                             *)
LineFollowsAction ==
  market.state \in {"draft", "open"} /\ market.offered # Target(opening, wagers)
    => due # {} \/ after # {} \/ stale

(* Reprice: the side that carries the most money is never offered at a     *)
(* longer price than it opened at, up to the rounding of probabilities to  *)
(* one part in Scale, which the model adds.                                *)
BackedSideShortens ==
  LET stakes == AcceptedStakes(wagers)
      line   == Target(opening, wagers)
  IN  \A s \in Selections :
        (\A t \in Selections : stakes[t] <= stakes[s])
          => ImpliedProbability(line[s]) + 1 >= ImpliedProbability(opening[s])

(* WagerRecordRow.ClosingOdds: once the market has stopped taking action   *)
(* its line is final, whatever is handled or refunded later.               *)
ClosingLineFinal ==
  [][market.state \notin {"draft", "open"} =>
       market'.offered = market.offered /\ opening' = opening]_vars

(* PricingConsumer: a line that waits for an acceptance to be handled is   *)
(* brought up to date, unless the market closes first or the event, or the *)
(* repricing of a refund, is lost for good.                                *)
LineCatchesUp ==
  (market.offered # Target(opening, wagers) /\ due # {})
    ~> (market.offered = Target(opening, wagers) \/ market.state = "closed" \/ stale)

(* RepriceMarketAfterWager: the board always holds legal prices, is where  *)
(* the opening line and the accepted stakes put it unless an event is on   *)
(* its way or was lost, and shortens the side that carries the money.      *)
LineSound == LineTypeOK /\ LineFollowsAction /\ BackedSideShortens

(* The line stops moving when the market closes, and until then it catches *)
(* up with what was accepted.                                              *)
LineSettles == ClosingLineFinal /\ LineCatchesUp
=============================================================================
