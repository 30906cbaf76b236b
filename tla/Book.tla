-------------------------------- MODULE Book --------------------------------
(***************************************************************************)
(* The betting book: markets, single wagers and the escrow ledger behind   *)
(* them (internal/betting and internal/bettingpg).  Every store method     *)
(* that runs as one database transaction is one action here; BookTx takes  *)
(* the same transactions apart into statements and row locks and is shown  *)
(* to implement this module.                                               *)
(*                                                                         *)
(* Two operations are two actions each, because the code reads state       *)
(* outside the lock it later writes under: a placement reads the market    *)
(* without locking it (QuoteWager, then InsertWager), and a regrade looks  *)
(* for stranded wagers before its transaction starts (ReadStranded, then   *)
(* RegradeStranded).                                                       *)
(*                                                                         *)
(* Ledger transactions are kept per wager.  Every transaction a wager      *)
(* causes moves money between its owner, the escrow account and the house, *)
(* so per-wager totals carry everything an account balance is made of.     *)
(***************************************************************************)
EXTENDS Odds, Functions

CONSTANTS
  Users,          \* members
  Markets,        \* market ids
  MatchMarkets,   \* the markets of type match, which need grading
  Sides,          \* the selections every market offers
  Wagers,         \* wager ids
  Request,        \* Request[w]: what the placement of wager w asks for
  Credit,         \* Credit[u]: opening balance plus credit limit of a member
  MaxPayout,      \* ceiling on the profit of one wager
  LegacyMarkets,  \* markets settled by the earlier release ...
  LegacyWagers,   \* ... and the wagers that release accepted after grading
  MaxRegrades     \* bound: regrade requests in flight per market

Requests ==
  [user : Users, market : Markets, side : Sides, stake : Nat \ {0}, odds : Int]

ASSUME BookAssumption ==
  /\ IsFiniteSet(Wagers) /\ IsFiniteSet(Sides)
  /\ MatchMarkets \subseteq Markets
  /\ LegacyMarkets \subseteq Markets
  /\ LegacyWagers \subseteq Wagers
  /\ Request \in [Wagers -> Requests]
  /\ \A w \in Wagers : ValidOdds(Request[w].odds)
  /\ \A w \in LegacyWagers : Request[w].market \in LegacyMarkets
  /\ Credit \in [Users -> Nat]
  /\ MaxPayout \in Nat
  /\ MaxRegrades \in Nat

VARIABLES
  market,    \* market state
  version,   \* latest market_settlements version, 0 before the first
  outcome,   \* outcome[m][s]: result recorded by the latest graded settlement
  divisor,   \* dead-heat divisor recorded with it
  state,     \* wager state
  stake,     \* the stake a wager rides at
  ledger,    \* per wager, what its ledger transactions moved
  keys,      \* per wager, the idempotency keys of those transactions
  regrades   \* regrade requests that have seen stranded wagers

marketVars == <<market, version, outcome, divisor>>
wagerVars  == <<state, stake, ledger, keys>>
vars       == <<marketVars, wagerVars, regrades>>

-----------------------------------------------------------------------------
(* Values *)

MarketStates == {"draft", "open", "closed", "settlement_pending", "settled",
                 "voided", "cancelled", "closed_no_action"}

(* "none" before a placement, "quoted" while a placement has read an open  *)
(* market and not yet inserted its row; the others are betting.WagerState. *)
WagerStates == {"none", "quoted", "pending", "accepted", "rejected", "settled", "voided"}

Outcomes == [Sides -> Results]
Ungraded == [s \in Sides |-> "none"]

(* accepted: user to escrow at acceptance.  reduced: escrow back to user.  *)
(* released: what left escrow when the wager ended, of which paid went to  *)
(* the user and house to the house.                                        *)
LedgerEntry == [accepted : Int, reduced : Int, released : Int, paid : Int, house : Int]
NoEntry == [accepted |-> 0, reduced |-> 0, released |-> 0, paid |-> 0, house |-> 0]

(* Entry e after a transaction that takes c out of escrow.                 *)
Release(e, c, toUser, toHouse) ==
  [accepted |-> e.accepted, reduced |-> e.reduced, released |-> e.released + c,
   paid |-> e.paid + toUser, house |-> e.house + toHouse]

(* Idempotency keys of the ledger transactions of one wager.               *)
Keys == [kind : {"acceptance", "void", "reduce", "settlement"}, n : Nat]
AcceptanceKey    == [kind |-> "acceptance", n |-> 0]
VoidKey          == [kind |-> "void", n |-> 0]
ReduceKey(to)    == [kind |-> "reduce", n |-> to]
SettlementKey(v) == [kind |-> "settlement", n |-> v]

Market(w) == Request[w].market

Escrow(w) == ledger[w].accepted - ledger[w].reduced - ledger[w].released
UserNet(w) == ledger[w].reduced + ledger[w].paid - ledger[w].accepted

(* balance + credit limit of a member (accountBalance, creditLimitForUser) *)
Available(u) ==
  Credit[u] + SumFunction([w \in {v \in Wagers : Request[v].user = u} |-> UserNet(w)])

(* States in which AcceptWager and ReduceWager refuse to move money.       *)
Decided == {"settled", "voided", "cancelled"}

Live(m) == {w \in Wagers : Market(w) = m /\ state[w] \in {"pending", "accepted"}}

Accepted(m) == {w \in Wagers : Market(w) = m /\ state[w] = "accepted"}

-----------------------------------------------------------------------------
(* Initially no market is open and no wager placed, except for what the    *)
(* earlier release left behind: graded markets with wagers it accepted     *)
(* after grading them (the case RegradeStrandedWagers exists for).         *)
Init ==
  /\ market = [m \in Markets |-> IF m \in LegacyMarkets THEN "settled" ELSE "draft"]
  /\ version = [m \in Markets |-> IF m \in LegacyMarkets THEN 1 ELSE 0]
  /\ \E graded \in Outcomes, tied \in 1 .. Cardinality(Sides) :
       /\ tied > 1 => tied = Cardinality({s \in Sides : graded[s] = "win"})
       /\ outcome = [m \in Markets |-> IF m \in LegacyMarkets THEN graded ELSE Ungraded]
       /\ divisor = [m \in Markets |-> IF m \in LegacyMarkets THEN tied ELSE 1]
  /\ state = [w \in Wagers |-> IF w \in LegacyWagers THEN "accepted" ELSE "none"]
  /\ stake = [w \in Wagers |-> Request[w].stake]
  /\ ledger = [w \in Wagers |-> IF w \in LegacyWagers
                                THEN [NoEntry EXCEPT !.accepted = Request[w].stake]
                                ELSE NoEntry]
  /\ keys = [w \in Wagers |-> IF w \in LegacyWagers THEN {AcceptanceKey} ELSE {}]
  /\ regrades = [m \in Markets |-> 0]

-----------------------------------------------------------------------------
(* Market lifecycle *)

OpenMarket(m) ==
  /\ market[m] = "draft"
  /\ market' = [market EXCEPT ![m] = "open"]
  /\ UNCHANGED <<version, outcome, divisor, wagerVars, regrades>>

CloseMarket(m) ==
  /\ market[m] = "open"
  /\ market' = [market EXCEPT ![m] = "closed"]
  /\ UNCHANGED <<version, outcome, divisor, wagerVars, regrades>>

(* Retires a market nobody is on.  A match market always needs grading.    *)
CloseMarketWithoutAction(m) ==
  /\ m \notin MatchMarkets
  /\ market[m] \in {"closed", "settlement_pending"}
  /\ Live(m) = {}
  /\ market' = [market EXCEPT ![m] = "closed_no_action"]
  /\ UNCHANGED <<version, outcome, divisor, wagerVars, regrades>>

-----------------------------------------------------------------------------
(* Wager lifecycle *)

(* What the transactions write, apart from the conditions they check.      *)
WriteInsert(w) ==
  /\ state' = [state EXCEPT ![w] = "pending"]
  /\ UNCHANGED <<marketVars, stake, ledger, keys, regrades>>

WriteAcceptance(w) ==
  /\ AcceptanceKey \notin keys[w]
  /\ state' = [state EXCEPT ![w] = "accepted"]
  /\ ledger' = [ledger EXCEPT ![w].accepted = @ + stake[w]]
  /\ keys' = [keys EXCEPT ![w] = @ \cup {AcceptanceKey}]
  /\ UNCHANGED <<marketVars, stake, regrades>>

WriteRejection(w) ==
  /\ state' = [state EXCEPT ![w] = "rejected"]
  /\ UNCHANGED <<marketVars, stake, ledger, keys, regrades>>

WriteVoid(w) ==
  /\ VoidKey \notin keys[w]
  /\ state' = [state EXCEPT ![w] = "voided"]
  /\ ledger' = [ledger EXCEPT ![w] = Release(@, stake[w], stake[w], 0)]
  /\ keys' = [keys EXCEPT ![w] = @ \cup {VoidKey}]
  /\ UNCHANGED <<marketVars, stake, regrades>>

WriteReduction(w, n) ==
  /\ ReduceKey(n) \notin keys[w]
  /\ stake' = [stake EXCEPT ![w] = n]
  /\ ledger' = [ledger EXCEPT ![w].reduced = @ + (stake[w] - n)]
  /\ keys' = [keys EXCEPT ![w] = @ \cup {ReduceKey(n)}]
  /\ UNCHANGED <<marketVars, state, regrades>>

(* PlaceWager, first half: the market, selection and price are read with   *)
(* no lock on the market and the request passes betting.PlaceWager.        *)
QuoteWager(w) ==
  LET r == Request[w] IN
  /\ state[w] = "none"
  /\ market[r.market] = "open"
  /\ ~ ProfitOverflows(r.odds, r.stake)
  /\ Profit(r.odds, r.stake) \in 1 .. MaxPayout
  /\ state' = [state EXCEPT ![w] = "quoted"]
  /\ UNCHANGED <<marketVars, stake, ledger, keys, regrades>>

(* PlaceWager, second half: the row is inserted as pending.  Nothing looks *)
(* at the market again.                                                    *)
InsertWager(w) ==
  /\ state[w] = "quoted"
  /\ WriteInsert(w)

(* The placement fails after its read; the transaction rolls back.         *)
DropQuote(w) ==
  /\ state[w] = "quoted"
  /\ state' = [state EXCEPT ![w] = "none"]
  /\ UNCHANGED <<marketVars, stake, ledger, keys, regrades>>

(* Repeating an acceptance changes nothing (verifyAcceptance).             *)
AcceptWithoutMarketCheck(w) ==
  /\ state[w] = "pending"
  /\ Available(Request[w].user) >= stake[w]
  /\ WriteAcceptance(w)

AcceptWager(w) ==
  /\ state[w] = "pending"
  /\ market[Market(w)] \notin Decided
  /\ Available(Request[w].user) >= stake[w]
  /\ WriteAcceptance(w)

(* The book's RejectWager and the member's own CancelWager.                *)
RejectWager(w) ==
  /\ state[w] = "pending"
  /\ WriteRejection(w)

(* Voiding again is a no-op: the key of the refund is on the ledger.       *)
VoidRefundsAcceptance(w) ==
  /\ state[w] = "accepted"
  /\ VoidKey \notin keys[w]
  /\ state' = [state EXCEPT ![w] = "voided"]
  /\ ledger' = [ledger EXCEPT ![w] = Release(@, @.accepted, @.accepted, 0)]
  /\ keys' = [keys EXCEPT ![w] = @ \cup {VoidKey}]
  /\ UNCHANGED <<marketVars, stake, regrades>>

VoidWager(w) ==
  /\ state[w] = "accepted"
  /\ WriteVoid(w)

(* A stake already cut to n once is left alone: the key of that reduction  *)
(* is on the ledger.                                                       *)
ReduceAlsoRaises(w, n) ==
  /\ state[w] = "accepted"
  /\ market[Market(w)] \notin Decided
  /\ n > 0 /\ n # stake[w]
  /\ WriteReduction(w, n)

ReduceToNothing(w, n) ==
  /\ state[w] = "accepted"
  /\ market[Market(w)] \notin Decided
  /\ n < stake[w]
  /\ WriteReduction(w, n)

ReduceWager(w, n) ==
  /\ state[w] = "accepted"
  /\ market[Market(w)] \notin Decided
  /\ n > 0 /\ n < stake[w]
  /\ WriteReduction(w, n)

-----------------------------------------------------------------------------
(* Settlement (Store.settleWith) *)

(* Grades a set of accepted wagers of m: side s with result out[s], a win  *)
(* over n tied winners.  Each wager gets one ledger transaction under the  *)
(* key of the new settlement version; a key already used aborts it all.    *)
GradeSet(graded, m, out, n) ==
  LET result(w) == out[Request[w].side]
      lines(w)  == Lines(result(w), stake[w], Request[w].odds, n)
      key       == SettlementKey(version[m] + 1)
  IN  /\ \A w \in graded : key \notin keys[w]
      /\ version' = [version EXCEPT ![m] = @ + 1]
      /\ state' = [w \in Wagers |->
                     IF w \notin graded THEN state[w]
                     ELSE IF result(w) = "void" THEN "voided" ELSE "settled"]
      /\ ledger' = [w \in Wagers |->
                     IF w \notin graded THEN ledger[w]
                     ELSE Release(ledger[w], stake[w], lines(w).user, lines(w).house)]
      /\ keys' = [w \in Wagers |-> IF w \in graded THEN keys[w] \cup {key} ELSE keys[w]]
      /\ UNCHANGED stake

GradeSettledAgain(m, out, n) ==
  GradeSet({w \in Wagers : Market(w) = m /\ state[w] \in {"accepted", "settled"}}, m, out, n)

(* splitAcceptedWagers: only wagers still accepted are graded.             *)
Grade(m, out, n) == GradeSet(Accepted(m), m, out, n)

Winners(out) == Cardinality({s \in Sides : out[s] = "win"})

(* Grading an open market closes it first, in the same transaction.  A     *)
(* declared dead heat needs two winners and splits each win between them.  *)
SettleMarket(m, out, tied) ==
  /\ market[m] \in {"open", "closed", "settlement_pending"}
  /\ tied => Winners(out) >= 2
  /\ LET n == IF tied THEN Winners(out) ELSE 1
     IN  /\ Grade(m, out, n)
         /\ outcome' = [outcome EXCEPT ![m] = out]
         /\ divisor' = [divisor EXCEPT ![m] = n]
  /\ market' = [market EXCEPT ![m] = "settled"]
  /\ UNCHANGED regrades

(* Every stake goes back.  A voided settlement records no outcome rows.    *)
VoidMarket(m) ==
  /\ market[m] \in {"open", "closed", "settlement_pending"}
  /\ Grade(m, [s \in Sides |-> "void"], 1)
  /\ market' = [market EXCEPT ![m] = "voided"]
  /\ UNCHANGED <<outcome, divisor, regrades>>

(* RegradeStrandedWagers, before its transaction: the market is settled    *)
(* and has a wager still in accepted state.                                *)
ReadStranded(m) ==
  /\ market[m] = "settled"
  /\ outcome[m] \in Outcomes
  /\ Accepted(m) # {}
  /\ regrades[m] < MaxRegrades
  /\ regrades' = [regrades EXCEPT ![m] = @ + 1]
  /\ UNCHANGED <<marketVars, wagerVars>>

(* ... and in it: what is still accepted is graded by the recorded outcome *)
(* and divisor, as a new settlement version.                               *)
RegradeUntied(m) ==
  /\ regrades[m] > 0
  /\ market[m] = "settled"
  /\ Grade(m, outcome[m], 1)
  /\ regrades' = [regrades EXCEPT ![m] = @ - 1]
  /\ UNCHANGED <<market, outcome, divisor>>

RegradeFlips(m) ==
  /\ regrades[m] > 0
  /\ market[m] = "settled"
  /\ \E out \in Outcomes :
       Grade(m, out, divisor[m]) /\ outcome' = [outcome EXCEPT ![m] = out]
  /\ regrades' = [regrades EXCEPT ![m] = @ - 1]
  /\ UNCHANGED <<market, divisor>>

RegradeStranded(m) ==
  /\ regrades[m] > 0
  /\ market[m] = "settled"
  /\ Grade(m, outcome[m], divisor[m])
  /\ regrades' = [regrades EXCEPT ![m] = @ - 1]
  /\ UNCHANGED <<market, outcome, divisor>>

-----------------------------------------------------------------------------
MarketStep(m) ==
  \/ OpenMarket(m)
  \/ CloseMarket(m)
  \/ CloseMarketWithoutAction(m)
  \/ \E out \in Outcomes, tied \in BOOLEAN : SettleMarket(m, out, tied)
  \/ VoidMarket(m)
  \/ ReadStranded(m)
  \/ RegradeStranded(m)

WagerStep(w) ==
  \/ QuoteWager(w)
  \/ InsertWager(w)
  \/ DropQuote(w)
  \/ AcceptWager(w)
  \/ RejectWager(w)
  \/ VoidWager(w)
  \/ \E n \in 0 .. Request[w].stake : ReduceWager(w, n)

Next == (\E m \in Markets : MarketStep(m)) \/ (\E w \in Wagers : WagerStep(w))

Spec == Init /\ [][Next]_vars

-----------------------------------------------------------------------------
(* Properties *)

(* The tables have their types, and an accepted wager has a stake.         *)
TypeOK ==
  /\ market \in [Markets -> MarketStates]
  /\ version \in [Markets -> Nat]
  /\ outcome \in [Markets -> Outcomes \cup {Ungraded}]
  /\ divisor \in [Markets -> Nat \ {0}]
  /\ state \in [Wagers -> WagerStates]
  /\ stake \in [Wagers -> Nat \ {0}]
  /\ ledger \in [Wagers -> LedgerEntry]
  /\ keys \in [Wagers -> SUBSET Keys]
  /\ regrades \in [Markets -> Nat]

(* Escrow holds exactly the current stake of every accepted wager and      *)
(* nothing for any other, through acceptance, reductions, voids, grading   *)
(* and regrading; so verifyAcceptance never meets a mismatch.              *)
EscrowHeld ==
  \A w \in Wagers : Escrow(w) = IF state[w] = "accepted" THEN stake[w] ELSE 0

(* What leaves escrow when a wager ends is what the member and the house   *)
(* receive: settleWager and VoidWager neither create nor lose a cent.      *)
LedgerBalanced ==
  \A w \in Wagers : ledger[w].released = ledger[w].paid + ledger[w].house

ReleaseKeys(w) == {k \in keys[w] : k.kind \in {"void", "settlement"}}

(* A stake leaves escrow once: a wager has one void or settlement          *)
(* transaction if it has ended with money at stake, and none before.       *)
ReleasedOnce ==
  \A w \in Wagers :
    IF state[w] \in {"settled", "voided"}
    THEN \E k \in keys[w] : ReleaseKeys(w) = {k}
    ELSE ReleaseKeys(w) = {}

(* w was paid what the recorded outcome of its market pays.                *)
PaidByOutcome(w) ==
  LET m      == Market(w)
      result == IF market[m] = "voided" THEN "void" ELSE outcome[m][Request[w].side]
      lines  == Lines(result, stake[w], Request[w].odds, divisor[m])
  IN  /\ market[m] \in {"settled", "voided"}
      /\ state[w] = IF result = "void" THEN "voided" ELSE "settled"
      /\ ledger[w].paid = lines.user
      /\ ledger[w].house = lines.house

(* A graded wager was paid what its market's recorded outcome and divisor  *)
(* pay at the stake and odds it rode at, whether the original settlement   *)
(* or a regrade paid it; a wager of a voided market got its stake back.    *)
PaidAsGraded ==
  \A w \in Wagers :
    (\E k \in keys[w] : k.kind = "settlement") => PaidByOutcome(w)

(* No wager is left accepted on a market that has been decided: no stake   *)
(* is in escrow with nothing to release it.  What the earlier release left *)
(* behind is the one exception.                                            *)
NothingStranded ==
  \A w \in Wagers \ LegacyWagers :
    state[w] = "accepted" => market[Market(w)] \notin Decided

(* An idempotency key never blocks real work: the next settlement version  *)
(* of a market has a fresh key for each accepted wager, and a reduction    *)
(* below the current stake is never mistaken for a repeat.                 *)
KeysFresh ==
  \A w \in Wagers : state[w] = "accepted" =>
    /\ SettlementKey(version[Market(w)] + 1) \notin keys[w]
    /\ VoidKey \notin keys[w]
    /\ \A n \in 1 .. (stake[w] - 1) : ReduceKey(n) \notin keys[w]

(* A wager that was rejected, settled or voided never moves money again    *)
(* and never changes state, whatever settlement, regrade or void follows.  *)
EndedWagersFinal ==
  [][\A w \in Wagers : state[w] \in {"rejected", "settled", "voided"} =>
       state'[w] = state[w] /\ ledger'[w] = ledger[w] /\ keys'[w] = keys[w]]_vars

(* A recorded outcome is never rewritten: a regrade cannot flip a market's *)
(* result or its dead-heat divisor and pay the other side.                 *)
OutcomeFinal ==
  [][\A m \in Markets : market[m] \in Decided \cup {"closed_no_action"} =>
       /\ market'[m] = market[m]
       /\ outcome'[m] = outcome[m]
       /\ divisor'[m] = divisor[m]]_vars

(* MarketNoAction "closed without a single wager on it": no wager of such  *)
(* a market is waiting or holds money.                                     *)
NoActionMeansNoWagers ==
  \A m \in Markets : market[m] = "closed_no_action" => Live(m) = {}

(* The ledger of every wager is right at every moment: what is in escrow   *)
(* is what is at stake, and what left it went to the member and the house. *)
MoneyHeld == TypeOK /\ EscrowHeld /\ LedgerBalanced

(* The idempotency keys do what they are for: they stop a second release   *)
(* of a stake and never the first one.                                     *)
KeysSound == ReleasedOnce /\ KeysFresh

(* What SettleMarket, VoidMarket, RegradeStranded, VoidWager and           *)
(* RejectWager decided stays decided, for the wager and for the market.    *)
DecisionsStay == EndedWagersFinal /\ OutcomeFinal
=============================================================================
