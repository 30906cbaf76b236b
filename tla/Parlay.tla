------------------------------- MODULE Parlay -------------------------------
(***************************************************************************)
(* Parlays: one stake on several match markets that pays when every leg    *)
(* lands (betting.PlaceParlay, GradeParlay, ParlayOddsFor; bettingpg's     *)
(* PlaceParlay, AcceptParlay, RejectParlay, CancelParlay and, inside the   *)
(* settlement of a market, resolveParlayLegsTx).                           *)
(*                                                                         *)
(* Settlements of different markets run concurrently and meet at the       *)
(* parlays that have a leg on both: each marks its own leg, then locks the *)
(* parlay's row and looks at all of them.  An acceptance locks the         *)
(* parlay's row and reads the markets without locking them.  Writes become *)
(* visible when the transaction commits.                                   *)
(*                                                                         *)
(* Prices are exact fractions here and floats in the code.                 *)
(***************************************************************************)
EXTENDS Odds, FiniteSetsExt, Functions

CONSTANTS
  Markets,     \* match markets
  Parlays,
  Legs,        \* Legs[p]: the odds taken on each market p has a leg on
  Stake,       \* Stake[p]
  Juice,       \* extra margin per leg after the first, in basis points
  MaxPayout

ASSUME ParlayAssumption ==
  /\ IsFiniteSet(Markets) /\ IsFiniteSet(Parlays)
  /\ DOMAIN Legs = Parlays
  /\ \A p \in Parlays :
       /\ DOMAIN Legs[p] \subseteq Markets
       /\ \A m \in DOMAIN Legs[p] : ValidOdds(Legs[p][m])
  /\ Stake \in [Parlays -> Nat \ {0}]
  /\ Juice \in Nat /\ MaxPayout \in Nat

VARIABLES
  market,     \* market state
  state,      \* parlay state
  result,     \* result[p][m]: parlay_legs.result, "none" while null
  ledger,     \* per parlay, what its ledger transactions moved
  accepting,  \* parlays an acceptance has locked and checked
  settling    \* the settlement transaction running on each market

parlayVars == <<market, state, result, ledger, accepting, settling>>

MinParlayLegs == 2
MaxParlayLegs == 8

LegResults == Results \cup {"none"}

-----------------------------------------------------------------------------
(* Prices *)

(* pricing.ImpliedProbability                                              *)
Implied(o) == IF o > 0 THEN [n |-> 100, d |-> o + 100] ELSE [n |-> -o, d |-> 100 - o]

GCD[a \in Nat, b \in Nat] == IF b = 0 THEN a ELSE GCD[b, a % b]

Times(x, y) ==
  LET n == x.n * y.n
      d == x.d * y.d
  IN  [n |-> n \div GCD[n, d], d |-> d \div GCD[n, d]]

Shade == Times([n |-> 10000 + Juice, d |-> 10000], [n |-> 1, d |-> 1])

(* The probability the legs on markets M imply together, shaded once for   *)
(* every leg after the first.                                              *)
Combined(odds, M) ==
  LET legs == MapThenFoldSet(Times, [n |-> 1, d |-> 1], LAMBDA m : Implied(odds[m]),
                             LAMBDA S : CHOOSE m \in S : TRUE, M)
  IN  MapThenFoldSet(Times, legs, LAMBDA i : Shade, Min, 2 .. Cardinality(M))

(* pricing.AmericanFromProbability below even money, nearest line.         *)
American(x) ==
  LET line == (200 * (x.d - x.n) + x.n) \div (2 * x.n)
  IN  IF line > 10000 THEN 10000 ELSE line

(* ParlayOddsFor refuses too few or too many legs, and a price shorter     *)
(* than even money (ErrParlayTooShort).                                    *)
CanPrice(odds, M) ==
  /\ Cardinality(M) \in MinParlayLegs .. MaxParlayLegs
  /\ 2 * Combined(odds, M).n <= Combined(odds, M).d

ParlayOddsFor(odds, M) == American(Combined(odds, M))

-----------------------------------------------------------------------------
(* betting.GradeParlay, for the results r of a parlay's legs               *)

Surviving(r) == {m \in DOMAIN r : r[m] = "win"}
Lost(r) == \E m \in DOMAIN r : r[m] = "loss"
Open(r) == {m \in DOMAIN r : r[m] = "none"}

(* settleParlayIfCompleteTx: a losing leg decides the parlay at once.      *)
Complete(r) == Open(r) = {} \/ Lost(r)

(* A single surviving leg pays its own price.                              *)
SurvivingPrice(p, r) ==
  IF Cardinality(Surviving(r)) = 1
  THEN Legs[p][CHOOSE m \in Surviving(r) : TRUE]
  ELSE ParlayOddsFor(Legs[p], Surviving(r))

(* What the grading pays the member and the house out of the stake.        *)
GradeParlay(p, r) ==
  LET profit == Profit(SurvivingPrice(p, r), Stake[p])
  IN  CASE Lost(r) -> [user |-> 0, house |-> Stake[p]]
        [] ~ Lost(r) /\ Surviving(r) = {} -> [user |-> Stake[p], house |-> 0]
        [] OTHER -> [user |-> Stake[p] + profit, house |-> -profit]

(* Grading fails when what is left has no price, when its profit overflows *)
(* or when the profit is zero, which the ledger refuses as a posting.      *)
CanGrade(p, r) ==
  \/ Lost(r) \/ Surviving(r) = {}
  \/ /\ Cardinality(Surviving(r)) = 1 \/ CanPrice(Legs[p], Surviving(r))
     /\ ~ ProfitOverflows(SurvivingPrice(p, r), Stake[p])
     /\ Profit(SurvivingPrice(p, r), Stake[p]) \in 1 .. MaxInt

-----------------------------------------------------------------------------
(* The settlement transaction of one market.  out: the result of each      *)
(* parlay's selection.  todo: affected parlays still to be looked at.      *)
(* held: parlay rows locked.  graded: parlays it pays.                     *)
NoSettlement == [active |-> FALSE, final |-> "open", out |-> [p \in Parlays |-> "none"],
                 todo |-> {}, held |-> {}, graded |-> {}]

ParlayInit ==
  /\ market = [m \in Markets |-> "open"]
  /\ state = [p \in Parlays |-> "none"]
  /\ result = [p \in Parlays |-> [m \in DOMAIN Legs[p] |-> "none"]]
  /\ ledger = [p \in Parlays |-> [accepted |-> 0, releases |-> 0, user |-> 0, house |-> 0]]
  /\ accepting = {}
  /\ settling = [m \in Markets |-> NoSettlement]

(* A transaction holds the row of parlay p.                                *)
Locked(p) == p \in accepting \/ \E m \in Markets : p \in settling[m].held

-----------------------------------------------------------------------------
(* Placement, review *)

(* PlaceParlay: every leg's market is open and the combination has a price *)
(* that pays; read without locks and inserted as pending later.            *)
QuoteParlay(p) ==
  LET legs == DOMAIN Legs[p] IN
  /\ state[p] = "none"
  /\ \A m \in legs : market[m] = "open"
  /\ CanPrice(Legs[p], legs)
  /\ ~ ProfitOverflows(ParlayOddsFor(Legs[p], legs), Stake[p])
  /\ Profit(ParlayOddsFor(Legs[p], legs), Stake[p]) \in 1 .. MaxPayout
  /\ state' = [state EXCEPT ![p] = "quoted"]
  /\ UNCHANGED <<market, result, ledger, accepting, settling>>

InsertParlay(p) ==
  /\ state[p] = "quoted"
  /\ state' = [state EXCEPT ![p] = "pending"]
  /\ UNCHANGED <<market, result, ledger, accepting, settling>>

(* AcceptParlay: the row is locked and no leg's market has been decided.   *)
AcceptCheck(p) ==
  /\ state[p] = "pending" /\ ~ Locked(p)
  /\ \A m \in DOMAIN Legs[p] : market[m] \notin {"settled", "voided", "cancelled", "closed_no_action"}
  /\ accepting' = accepting \cup {p}
  /\ UNCHANGED <<market, state, result, ledger, settling>>

AcceptPostsBackwards(p) ==
  /\ p \in accepting
  /\ state' = [state EXCEPT ![p] = "accepted"]
  /\ ledger' = [ledger EXCEPT ![p].accepted = @ - Stake[p]]
  /\ accepting' = accepting \ {p}
  /\ UNCHANGED <<market, result, settling>>

(* ... then the balance covers the stake and the stake goes to escrow.     *)
AcceptParlay(p) ==
  /\ p \in accepting
  /\ state' = [state EXCEPT ![p] = "accepted"]
  /\ ledger' = [ledger EXCEPT ![p].accepted = @ + Stake[p]]
  /\ accepting' = accepting \ {p}
  /\ UNCHANGED <<market, result, settling>>

(* ... or it does not, or the transaction fails.                           *)
AcceptFails(p) ==
  /\ p \in accepting
  /\ accepting' = accepting \ {p}
  /\ UNCHANGED <<market, state, result, ledger, settling>>

(* RejectParlay and the member's CancelParlay.                             *)
RejectParlay(p) ==
  /\ state[p] = "pending" /\ ~ Locked(p)
  /\ state' = [state EXCEPT ![p] = "rejected"]
  /\ UNCHANGED <<market, result, ledger, accepting, settling>>

-----------------------------------------------------------------------------
(* Settlement of a market, as far as parlays are concerned *)

(* The open legs of accepted parlays on m, as committed when the statement *)
(* runs.                                                                   *)
Affected(m) ==
  {p \in Parlays : m \in DOMAIN Legs[p] /\ state[p] = "accepted" /\ result[p][m] = "none"}

(* A market may be graded, or voided, which voids every leg on it.         *)
ResolveLegs(m) ==
  /\ market[m] = "open" /\ ~ settling[m].active
  /\ \E final \in {"settled", "voided"}, out \in [Affected(m) -> Results] :
       /\ final = "voided" => \A p \in Affected(m) : out[p] = "void"
       /\ settling' = [settling EXCEPT ![m] =
            [NoSettlement EXCEPT !.active = TRUE, !.final = final, !.todo = Affected(m),
               !.out = [p \in Parlays |-> IF p \in Affected(m) THEN out[p] ELSE "none"]]]
  /\ UNCHANGED <<market, state, result, ledger, accepting>>

(* Leg results as the settlement of m sees them: its own, uncommitted, and *)
(* the committed ones.                                                     *)
Seen(m, p) == [result[p] EXCEPT ![m] = settling[m].out[p]]

LookUnlocked(m, p) ==
  /\ p \in settling[m].todo
  /\ Complete(Seen(m, p)) => CanGrade(p, Seen(m, p)) /\ ledger[p].releases = 0
  /\ settling' = [settling EXCEPT ![m].todo = @ \ {p},
       ![m].graded = IF Complete(Seen(m, p)) THEN @ \cup {p} ELSE @]
  /\ UNCHANGED <<market, state, result, ledger, accepting>>

SettleIgnoresKey(m, p) ==
  /\ p \in settling[m].todo
  /\ ~ Locked(p)
  /\ Complete(Seen(m, p)) => CanGrade(p, Seen(m, p))
  /\ settling' = [settling EXCEPT ![m].todo = @ \ {p}, ![m].held = @ \cup {p},
       ![m].graded = IF Complete(Seen(m, p)) THEN @ \cup {p} ELSE @]
  /\ UNCHANGED <<market, state, result, ledger, accepting>>

(* settleParlayIfCompleteTx: the parlay's row is locked, then its legs are *)
(* read.  The settlement goes on only if the parlay is incomplete or can   *)
(* be graded under a ledger key nobody has used; parlays come in any order *)
(* (a Go map).                                                             *)
SettleParlayIfComplete(m, p) ==
  /\ p \in settling[m].todo
  /\ ~ Locked(p)
  /\ Complete(Seen(m, p)) => CanGrade(p, Seen(m, p)) /\ ledger[p].releases = 0
  /\ settling' = [settling EXCEPT ![m].todo = @ \ {p}, ![m].held = @ \cup {p},
       ![m].graded = IF Complete(Seen(m, p)) THEN @ \cup {p} ELSE @]
  /\ UNCHANGED <<market, state, result, ledger, accepting>>

Pay(e, g) == [accepted |-> e.accepted, releases |-> e.releases + 1,
              user |-> e.user + g.user, house |-> e.house + g.house]

CommitGradesOldLegs(m) ==
  LET s == settling[m] IN
  /\ s.active /\ s.todo = {}
  /\ market' = [market EXCEPT ![m] = s.final]
  /\ result' = [p \in Parlays |-> IF s.out[p] = "none" THEN result[p] ELSE Seen(m, p)]
  /\ state' = [p \in Parlays |-> IF p \in s.graded THEN "settled" ELSE state[p]]
  /\ ledger' = [p \in Parlays |->
       IF p \in s.graded THEN Pay(ledger[p], GradeParlay(p, result[p])) ELSE ledger[p]]
  /\ settling' = [settling EXCEPT ![m] = NoSettlement]
  /\ UNCHANGED accepting

CommitSettlement(m) ==
  LET s == settling[m] IN
  /\ s.active /\ s.todo = {}
  /\ market' = [market EXCEPT ![m] = s.final]
  /\ result' = [p \in Parlays |-> IF s.out[p] = "none" THEN result[p] ELSE Seen(m, p)]
  /\ state' = [p \in Parlays |-> IF p \in s.graded THEN "settled" ELSE state[p]]
  /\ ledger' = [p \in Parlays |->
       IF p \in s.graded THEN Pay(ledger[p], GradeParlay(p, Seen(m, p))) ELSE ledger[p]]
  /\ settling' = [settling EXCEPT ![m] = NoSettlement]
  /\ UNCHANGED accepting

(* A parlay cannot be graded, a ledger key is taken, two settlements wait  *)
(* for each other's parlays, or anything else fails: all is rolled back.   *)
AbortSettlement(m) ==
  /\ settling[m].active
  /\ settling' = [settling EXCEPT ![m] = NoSettlement]
  /\ UNCHANGED <<market, state, result, ledger, accepting>>

-----------------------------------------------------------------------------
ParlayStep(p) ==
  \/ QuoteParlay(p) \/ InsertParlay(p) \/ AcceptCheck(p) \/ AcceptParlay(p)
  \/ AcceptFails(p) \/ RejectParlay(p)

MarketStep(m) ==
  \/ ResolveLegs(m)
  \/ \E p \in Parlays : SettleParlayIfComplete(m, p)
  \/ CommitSettlement(m)
  \/ AbortSettlement(m)

ParlayNext == (\E p \in Parlays : ParlayStep(p)) \/ (\E m \in Markets : MarketStep(m))

ParlaySpec == ParlayInit /\ [][ParlayNext]_parlayVars

-----------------------------------------------------------------------------
(* Properties *)

(* Parlays, legs, markets and settlements have their types.                *)
ParlayTypeOK ==
  /\ market \in [Markets -> {"open", "settled", "voided"}]
  /\ state \in [Parlays -> {"none", "quoted", "pending", "accepted", "rejected", "settled"}]
  /\ \A p \in Parlays : result[p] \in [DOMAIN Legs[p] -> LegResults]
  /\ ledger \in [Parlays -> [accepted : Nat, releases : Nat, user : Int, house : Int]]
  /\ accepting \subseteq Parlays
  /\ \A m \in Markets :
       /\ settling[m].active \in BOOLEAN
       /\ settling[m].final \in {"open", "settled", "voided"}
       /\ settling[m].out \in [Parlays -> LegResults]
       /\ settling[m].todo \cup settling[m].held \cup settling[m].graded \subseteq Parlays

(* The stake is taken once, when a parlay is accepted, and paid out once,  *)
(* when it is settled, however settlements of its markets and repeated     *)
(* acceptances interleave; what is paid out is exactly the stake.          *)
StakeMovesOnce ==
  \A p \in Parlays :
    /\ ledger[p].accepted = IF state[p] \in {"accepted", "settled"} THEN Stake[p] ELSE 0
    /\ ledger[p].releases = IF state[p] = "settled" THEN 1 ELSE 0
    /\ ledger[p].user + ledger[p].house = IF state[p] = "settled" THEN Stake[p] ELSE 0

(* The settlement that brings in the last leg, or a losing one, settles    *)
(* the parlay: two markets settled at the same time never each leave it to *)
(* the other.                                                              *)
LastLegSettles ==
  \A p \in Parlays : state[p] = "accepted" => ~ Complete(result[p])

(* A settled parlay was paid as its legs came in.  Results that arrive     *)
(* after it was lost change nothing.                                       *)
PaidAsResolved ==
  \A p \in Parlays : state[p] = "settled" =>
    /\ Complete(result[p])
    /\ ledger[p].user = GradeParlay(p, result[p]).user

(* "A parlay can never be left holding a leg on a market the book          *)
(* considers finished" (resolveParlayLegsTx).                              *)
NoLegOnFinishedMarket ==
  \A p \in Parlays : state[p] = "accepted" =>
    \A m \in Open(result[p]) : market[m] = "open"

(* "A three-leg parlay with one push pays as the two-leg parlay it became" *)
(* (GradeParlay): no settlement meets a parlay it cannot grade.            *)
SettlementCanGrade ==
  \A m \in Markets : \A p \in settling[m].todo :
    Complete(Seen(m, p)) => CanGrade(p, Seen(m, p))

(* AcceptParlay and settleParlayIfCompleteTx keep the tables typed and     *)
(* move each stake in once and out once.                                   *)
ParlayMoneySound == ParlayTypeOK /\ StakeMovesOnce
=============================================================================
