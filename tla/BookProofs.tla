----------------------------- MODULE BookProofs -----------------------------
(***************************************************************************)
(* Proofs about Book: type correctness, the escrow and ledger invariants,  *)
(* for every set of members, markets and wagers and every request; and     *)
(* about MatchSettlement, which drives it from verified match results.     *)
(***************************************************************************)
EXTENDS Book, MatchSettlement, Grading, FiniteSetTheorems, TLAPS

-----------------------------------------------------------------------------
(* The arithmetic of one grading *)

(* Profit of a positive stake at a valid price is an integer.              *)
LEMMA ProfitType ==
  ASSUME NEW c \in Nat, NEW o, ValidOdds(o)
  PROVE  Profit(o, c) \in Int
<1>1. o \in Int /\ Numerator(o) \in Int /\ Denominator(o) \in Int /\ Denominator(o) > 0
  BY DEF ValidOdds, Numerator, Denominator
<1>2. c * Numerator(o) \in Int
  BY <1>1
<1>3. (c * Numerator(o)) \div Denominator(o) \in Int
  BY <1>1, <1>2
<1>4. QED
  BY <1>3 DEF Profit

(* settleWager: whatever the result, the escrowed stake goes to the member *)
(* and the house without a cent left over or made up.                      *)
LEMMA LinesBalance ==
  ASSUME NEW result, NEW c \in Nat, NEW o, ValidOdds(o), NEW n \in Nat \ {0}
  PROVE  /\ Lines(result, c, o, n).user \in Int
         /\ Lines(result, c, o, n).house \in Int
         /\ Lines(result, c, o, n).user + Lines(result, c, o, n).house = c
<1>1. WinningStake(c, n) \in Nat
  BY DEF WinningStake
<1>2. WinProfit(c, o, n) \in Int
  BY <1>1, ProfitType DEF WinProfit
<1>3. QED
  BY <1>1, <1>2 DEF Lines

-----------------------------------------------------------------------------
(* The inductive invariant *)

(* What the ledger holds for a wager, state by state: nothing before       *)
(* acceptance, the stake in escrow while accepted, and one release after.  *)
Untouched(w) == ledger[w] = NoEntry /\ keys[w] = {}

Riding(w) ==
  /\ ledger[w].accepted - ledger[w].reduced = stake[w]
  /\ ledger[w].released = 0 /\ ledger[w].paid = 0 /\ ledger[w].house = 0
  /\ \A k \in keys[w] : k.kind \in {"acceptance", "reduce"}
  /\ \A k \in keys[w] : k.kind = "reduce" => k.n >= stake[w]

Released(w) ==
  /\ ledger[w].accepted - ledger[w].reduced = ledger[w].released
  /\ ledger[w].released = ledger[w].paid + ledger[w].house
  /\ \E k \in keys[w] : ReleaseKeys(w) = {k}

WagerInv(w) ==
  /\ state[w] \in {"none", "quoted", "pending", "rejected"} => Untouched(w)
  /\ state[w] = "accepted" => Riding(w)
  /\ state[w] \in {"settled", "voided"} => Released(w)

GradedInv == \A m \in Markets : market[m] = "settled" => outcome[m] \in Outcomes

IInv ==
  /\ TypeOK
  /\ \A w \in Wagers : WagerInv(w)
  /\ PaidAsGraded
  /\ NothingStranded
  /\ GradedInv

(* Every initial state, the leftovers of the earlier release included,     *)
(* satisfies the inductive invariant.                                      *)
LEMMA InitIInv == Init => IInv
<1> SUFFICES ASSUME Init PROVE IInv
  OBVIOUS
<1> USE BookAssumption
<1>r. \A w \in Wagers : /\ Request[w].stake \in Nat \ {0}
                        /\ Request[w].market \in Markets
  BY DEF Requests
<1>1. PICK graded \in Outcomes, tied \in 1 .. Cardinality(Sides) :
        /\ outcome = [m \in Markets |-> IF m \in LegacyMarkets THEN graded ELSE Ungraded]
        /\ divisor = [m \in Markets |-> IF m \in LegacyMarkets THEN tied ELSE 1]
  BY DEF Init
<1>c. Cardinality(Sides) \in Nat
  BY FS_CardinalityType
<1>2. TypeOK
  <2>1. market \in [Markets -> MarketStates] /\ version \in [Markets -> Nat]
        /\ regrades \in [Markets -> Nat]
    BY DEF Init, MarketStates
  <2>2. outcome \in [Markets -> Outcomes \cup {Ungraded}]
    BY <1>1
  <2>3. divisor \in [Markets -> Nat \ {0}]
    BY <1>1, <1>c
  <2>4. state \in [Wagers -> WagerStates] /\ stake \in [Wagers -> Nat \ {0}]
    BY <1>r DEF Init, WagerStates
  <2>5. ledger \in [Wagers -> LedgerEntry]
    BY <1>r DEF Init, LedgerEntry, NoEntry
  <2>6. keys \in [Wagers -> SUBSET Keys]
    BY DEF Init, Keys, AcceptanceKey
  <2>7. QED
    BY <2>1, <2>2, <2>3, <2>4, <2>5, <2>6 DEF TypeOK
<1>3. ASSUME NEW w \in Wagers PROVE WagerInv(w)
  <2>1. CASE w \in LegacyWagers
    BY <2>1, <1>r DEF Init, WagerInv, Riding, NoEntry, AcceptanceKey
  <2>2. CASE w \notin LegacyWagers
    BY <2>2 DEF Init, WagerInv, Untouched
  <2>3. QED
    BY <2>1, <2>2
<1>4. PaidAsGraded
  BY DEF Init, PaidAsGraded, AcceptanceKey
<1>5. NothingStranded
  BY DEF Init, NothingStranded
<1>6. GradedInv
  BY <1>1 DEF Init, GradedInv
<1>7. QED
  BY <1>2, <1>3, <1>4, <1>5, <1>6 DEF IInv

(* A step that leaves a wager's row and ledger alone keeps its invariant.  *)
LEMMA SameWager ==
  ASSUME NEW w \in Wagers, WagerInv(w),
         state'[w] = state[w], stake'[w] = stake[w],
         ledger'[w] = ledger[w], keys'[w] = keys[w]
  PROVE  WagerInv(w)'
BY DEF WagerInv, Untouched, Riding, Released, ReleaseKeys

(* A wager that has not been released has no settlement transaction.       *)
LEMMA NoSettlementYet ==
  ASSUME NEW w \in Wagers, WagerInv(w), state[w] \notin {"settled", "voided"},
         state[w] \in WagerStates
  PROVE  \A k \in keys[w] : k.kind \notin {"void", "settlement"}
BY DEF WagerInv, Untouched, Riding, WagerStates

(* A step that leaves a wager and its market alone keeps what it was paid. *)
LEMMA SamePay ==
  ASSUME NEW w \in Wagers, PaidByOutcome(w),
         market'[Market(w)] = market[Market(w)],
         outcome'[Market(w)] = outcome[Market(w)],
         divisor'[Market(w)] = divisor[Market(w)],
         state'[w] = state[w], stake'[w] = stake[w], ledger'[w] = ledger[w]
  PROVE  PaidByOutcome(w)'
BY DEF PaidByOutcome, Market

(* Steps that change market states only, and never to or from a decided    *)
(* state, keep the invariant.                                              *)
LEMMA LifecycleStep ==
  ASSUME IInv, NEW m \in Markets,
         OpenMarket(m) \/ CloseMarket(m) \/ CloseMarketWithoutAction(m)
  PROVE  IInv'
<1> USE BookAssumption
<1>0. PICK s \in {"open", "closed", "closed_no_action"} :
        /\ market' = [market EXCEPT ![m] = s]
        /\ market[m] \notin {"settled", "voided", "cancelled"}
        /\ UNCHANGED <<version, outcome, divisor, wagerVars, regrades>>
  BY DEF OpenMarket, CloseMarket, CloseMarketWithoutAction
<1>1. TypeOK'
  BY <1>0 DEF IInv, TypeOK, MarketStates, wagerVars
<1>2. \A w \in Wagers : WagerInv(w)'
  BY <1>0, SameWager DEF IInv, wagerVars
<1>3. PaidAsGraded'
  <2>1. ASSUME NEW w \in Wagers, PaidByOutcome(w) PROVE PaidByOutcome(w)'
    <3>1. Market(w) # m
      BY <2>1, <1>0 DEF PaidByOutcome
    <3>2. QED
      BY <2>1, <3>1, <1>0, SamePay DEF IInv, TypeOK, wagerVars
  <2>2. QED
    BY <2>1, <1>0 DEF IInv, PaidAsGraded, wagerVars
<1>4. NothingStranded'
  BY <1>0 DEF IInv, TypeOK, NothingStranded, Market, Decided, wagerVars
<1>5. GradedInv'
  BY <1>0 DEF IInv, TypeOK, GradedInv
<1>6. QED
  BY <1>1, <1>2, <1>3, <1>4, <1>5 DEF IInv

(* A step that moves one wager between states that hold no money keeps the *)
(* invariant.                                                              *)
LEMMA UnfundedMove ==
  ASSUME IInv, NEW w \in Wagers, NEW s \in {"none", "quoted", "pending", "rejected"},
         state[w] \in {"none", "quoted", "pending"},
         state' = [state EXCEPT ![w] = s],
         UNCHANGED <<marketVars, stake, ledger, keys, regrades>>
  PROVE  IInv'
<1> USE BookAssumption
<1>1. TypeOK'
  BY DEF IInv, TypeOK, WagerStates, marketVars
<1>2. ASSUME NEW x \in Wagers PROVE WagerInv(x)'
  <2>1. CASE x = w
    BY <2>1 DEF IInv, TypeOK, WagerInv, Untouched
  <2>2. CASE x # w
    BY <2>2, SameWager DEF IInv, TypeOK
  <2>3. QED
    BY <2>1, <2>2
<1>3. PaidAsGraded'
  <2>1. \A k \in keys[w] : k.kind # "settlement"
    BY DEF IInv, WagerInv, Untouched
  <2>2. QED
    BY <2>1, SamePay DEF IInv, TypeOK, PaidAsGraded, marketVars
<1>4. NothingStranded'
  BY DEF IInv, TypeOK, NothingStranded, Market, marketVars
<1>5. GradedInv'
  BY DEF IInv, GradedInv, marketVars
<1>6. QED
  BY <1>1, <1>2, <1>3, <1>4, <1>5 DEF IInv

(* Placement and rejection are such moves.                                 *)
LEMMA UnfundedStep ==
  ASSUME IInv, NEW w \in Wagers,
         QuoteWager(w) \/ InsertWager(w) \/ DropQuote(w) \/ RejectWager(w)
  PROVE  IInv'
<1>1. PICK s \in {"none", "quoted", "pending", "rejected"} :
        /\ state[w] \in {"none", "quoted", "pending"}
        /\ state' = [state EXCEPT ![w] = s]
        /\ UNCHANGED <<marketVars, stake, ledger, keys, regrades>>
  BY DEF QuoteWager, InsertWager, DropQuote, RejectWager, WriteInsert, WriteRejection
<1>2. QED
  BY <1>1, UnfundedMove

(* AcceptWager moves the stake of one pending wager of an undecided market *)
(* into escrow.                                                            *)
LEMMA AcceptStep ==
  ASSUME IInv, NEW w \in Wagers, AcceptWager(w)
  PROVE  IInv'
<1> USE BookAssumption
<1>0. /\ state[w] = "pending" /\ Untouched(w) /\ stake[w] \in Nat \ {0}
      /\ market[Market(w)] \notin Decided
      /\ state' = [state EXCEPT ![w] = "accepted"]
      /\ ledger' = [ledger EXCEPT ![w].accepted = @ + stake[w]]
      /\ keys' = [keys EXCEPT ![w] = @ \cup {AcceptanceKey}]
      /\ UNCHANGED <<marketVars, stake, regrades>>
  BY DEF AcceptWager, WriteAcceptance, IInv, TypeOK, WagerInv
<1>1. TypeOK'
  <2>1. ledger' \in [Wagers -> LedgerEntry]
    BY <1>0 DEF IInv, TypeOK, LedgerEntry
  <2>2. keys' \in [Wagers -> SUBSET Keys]
    BY <1>0 DEF IInv, TypeOK, Keys, AcceptanceKey
  <2>3. QED
    BY <1>0, <2>1, <2>2 DEF IInv, TypeOK, WagerStates, marketVars
<1>2. ASSUME NEW x \in Wagers PROVE WagerInv(x)'
  <2>1. CASE x = w
    <3>1. /\ state'[w] = "accepted" /\ stake'[w] = stake[w]
          /\ keys'[w] = {AcceptanceKey}
      BY <1>0 DEF IInv, TypeOK, Untouched
    <3>2. ledger'[w] = [NoEntry EXCEPT !.accepted = stake[w]]
      BY <1>0 DEF IInv, TypeOK, Untouched, NoEntry, LedgerEntry
    <3>3. Riding(w)'
      BY <3>1, <3>2, <1>0 DEF Riding, NoEntry, AcceptanceKey
    <3>4. QED
      BY <2>1, <3>1, <3>3 DEF WagerInv
  <2>2. CASE x # w
    BY <2>2, <1>0, SameWager DEF IInv, TypeOK
  <2>3. QED
    BY <2>1, <2>2
<1>3. PaidAsGraded'
  <2>1. \A k \in keys'[w] : k.kind # "settlement"
    BY <1>0 DEF IInv, TypeOK, Untouched, AcceptanceKey
  <2>2. ASSUME NEW x \in Wagers, x # w
        PROVE  /\ state'[x] = state[x] /\ keys'[x] = keys[x]
               /\ ledger'[x] = ledger[x] /\ stake'[x] = stake[x]
    BY <1>0, <2>2 DEF IInv, TypeOK
  <2>3. QED
    BY <1>0, <2>1, <2>2, SamePay DEF IInv, PaidAsGraded, marketVars
<1>4. NothingStranded'
  BY <1>0 DEF IInv, TypeOK, NothingStranded, Market, marketVars
<1>5. GradedInv'
  BY <1>0 DEF IInv, GradedInv, marketVars
<1>6. QED
  BY <1>1, <1>2, <1>3, <1>4, <1>5 DEF IInv

(* VoidWager gives one accepted wager its stake back under a key that was  *)
(* never used.                                                             *)
LEMMA VoidStep ==
  ASSUME IInv, NEW w \in Wagers, VoidWager(w)
  PROVE  IInv'
<1> USE BookAssumption
<1>0. /\ state[w] = "accepted" /\ Riding(w) /\ stake[w] \in Nat \ {0}
      /\ state' = [state EXCEPT ![w] = "voided"]
      /\ ledger' = [ledger EXCEPT ![w] = Release(ledger[w], stake[w], stake[w], 0)]
      /\ keys' = [keys EXCEPT ![w] = @ \cup {VoidKey}]
      /\ UNCHANGED <<marketVars, stake, regrades>>
  BY DEF VoidWager, WriteVoid, IInv, TypeOK, WagerInv
<1>1. TypeOK'
  <2>0. Release(ledger[w], stake[w], stake[w], 0) \in LedgerEntry
    BY <1>0 DEF IInv, TypeOK, LedgerEntry, Release
  <2>1. ledger' \in [Wagers -> LedgerEntry]
    BY <1>0, <2>0 DEF IInv, TypeOK
  <2>2. keys' \in [Wagers -> SUBSET Keys]
    BY <1>0 DEF IInv, TypeOK, Keys, VoidKey
  <2>3. QED
    BY <1>0, <2>1, <2>2 DEF IInv, TypeOK, WagerStates, marketVars
<1>k. keys'[w] = keys[w] \cup {VoidKey}
  BY <1>0 DEF IInv, TypeOK
<1>2. ASSUME NEW x \in Wagers PROVE WagerInv(x)'
  <2>1. CASE x = w
    <3>1. state'[w] = "voided"
      BY <1>0 DEF IInv, TypeOK
    <3>2. ledger'[w] = Release(ledger[w], stake[w], stake[w], 0)
      BY <1>0 DEF IInv, TypeOK
    <3>3. ReleaseKeys(w)' = {VoidKey}
      BY <1>0, <1>k DEF ReleaseKeys, Riding, VoidKey
    <3>4. /\ ledger'[w].accepted - ledger'[w].reduced = ledger'[w].released
          /\ ledger'[w].released = ledger'[w].paid + ledger'[w].house
      BY <1>0, <3>2 DEF Release, Riding, IInv, TypeOK, LedgerEntry
    <3>5. Released(w)'
      BY <1>k, <3>3, <3>4 DEF Released
    <3>6. QED
      BY <2>1, <3>1, <3>5 DEF WagerInv
  <2>2. CASE x # w
    BY <2>2, <1>0, SameWager DEF IInv, TypeOK
  <2>3. QED
    BY <2>1, <2>2
<1>3. PaidAsGraded'
  <2>1. \A k \in keys'[w] : k.kind # "settlement"
    BY <1>0, <1>k DEF Riding, VoidKey
  <2>2. ASSUME NEW x \in Wagers, x # w
        PROVE  /\ state'[x] = state[x] /\ keys'[x] = keys[x]
               /\ ledger'[x] = ledger[x] /\ stake'[x] = stake[x]
    BY <1>0, <2>2 DEF IInv, TypeOK
  <2>3. QED
    BY <1>0, <2>1, <2>2, SamePay DEF IInv, PaidAsGraded, marketVars
<1>4. NothingStranded'
  BY <1>0 DEF IInv, TypeOK, NothingStranded, Market, marketVars
<1>5. GradedInv'
  BY <1>0 DEF IInv, GradedInv, marketVars
<1>6. QED
  BY <1>1, <1>2, <1>3, <1>4, <1>5 DEF IInv

(* ReduceWager lowers the stake of one accepted wager and gives back       *)
(* exactly the difference.                                                 *)
LEMMA ReduceStep ==
  ASSUME IInv, NEW w \in Wagers, NEW n \in Nat, ReduceWager(w, n)
  PROVE  IInv'
<1> USE BookAssumption
<1>0. /\ state[w] = "accepted" /\ Riding(w) /\ stake[w] \in Nat \ {0}
      /\ n > 0 /\ n < stake[w]
      /\ stake' = [stake EXCEPT ![w] = n]
      /\ ledger' = [ledger EXCEPT ![w].reduced = @ + (stake[w] - n)]
      /\ keys' = [keys EXCEPT ![w] = @ \cup {ReduceKey(n)}]
      /\ UNCHANGED <<marketVars, state, regrades>>
  BY DEF ReduceWager, WriteReduction, IInv, TypeOK, WagerInv
<1>1. TypeOK'
  <2>1. ledger' \in [Wagers -> LedgerEntry]
    BY <1>0 DEF IInv, TypeOK, LedgerEntry
  <2>2. keys' \in [Wagers -> SUBSET Keys]
    BY <1>0 DEF IInv, TypeOK, Keys, ReduceKey
  <2>3. QED
    BY <1>0, <2>1, <2>2 DEF IInv, TypeOK, marketVars
<1>k. keys'[w] = keys[w] \cup {ReduceKey(n)} /\ keys[w] \in SUBSET Keys
  BY <1>0 DEF IInv, TypeOK
<1>2. ASSUME NEW x \in Wagers PROVE WagerInv(x)'
  <2>1. CASE x = w
    <3>1. state'[w] = "accepted" /\ stake'[w] = n
      BY <1>0 DEF IInv, TypeOK
    <3>2. ledger'[w] = [ledger[w] EXCEPT !.reduced = @ + (stake[w] - n)]
      BY <1>0 DEF IInv, TypeOK
    <3>3. \A k \in keys'[w] : /\ k.kind \in {"acceptance", "reduce"}
                              /\ k.kind = "reduce" => k.n >= n
      BY <1>0, <1>k DEF Riding, ReduceKey, Keys
    <3>4. Riding(w)'
      BY <1>0, <3>1, <3>2, <3>3 DEF Riding, IInv, TypeOK, LedgerEntry
    <3>5. QED
      BY <2>1, <3>1, <3>4 DEF WagerInv
  <2>2. CASE x # w
    BY <2>2, <1>0, SameWager DEF IInv, TypeOK
  <2>3. QED
    BY <2>1, <2>2
<1>3. PaidAsGraded'
  <2>1. \A k \in keys'[w] : k.kind # "settlement"
    BY <1>0, <1>k DEF Riding, ReduceKey
  <2>2. ASSUME NEW x \in Wagers, x # w
        PROVE  /\ state'[x] = state[x] /\ keys'[x] = keys[x]
               /\ ledger'[x] = ledger[x] /\ stake'[x] = stake[x]
    BY <1>0, <2>2 DEF IInv, TypeOK
  <2>3. QED
    BY <1>0, <2>1, <2>2, SamePay DEF IInv, PaidAsGraded, marketVars
<1>4. NothingStranded'
  BY <1>0 DEF IInv, TypeOK, NothingStranded, Market, marketVars
<1>5. GradedInv'
  BY <1>0 DEF IInv, GradedInv, marketVars
<1>6. QED
  BY <1>1, <1>2, <1>3, <1>4, <1>5 DEF IInv

(* Grading: every accepted wager of the market is released by its result,  *)
(* every other wager is left alone.                                        *)
LEMMA GradeWagers ==
  ASSUME IInv, NEW m \in Markets, NEW out, NEW n \in Nat \ {0}, Grade(m, out, n)
  PROVE  /\ version' \in [Markets -> Nat]
         /\ state' \in [Wagers -> WagerStates]
         /\ stake' = stake
         /\ ledger' \in [Wagers -> LedgerEntry]
         /\ keys' \in [Wagers -> SUBSET Keys]
         /\ \A w \in Wagers : WagerInv(w)'
<1> USE BookAssumption
<1> DEFINE graded(w) == Market(w) = m /\ state[w] = "accepted"
           lines(w) == Lines(out[Request[w].side], stake[w], Request[w].odds, n)
           key == SettlementKey(version[m] + 1)
<1>0. /\ version' = [version EXCEPT ![m] = @ + 1]
      /\ stake' = stake
      /\ state' = [w \in Wagers |-> IF ~ graded(w) THEN state[w]
                                    ELSE IF out[Request[w].side] = "void" THEN "voided"
                                    ELSE "settled"]
      /\ ledger' = [w \in Wagers |->
                      IF ~ graded(w) THEN ledger[w]
                      ELSE Release(ledger[w], stake[w], lines(w).user, lines(w).house)]
      /\ keys' = [w \in Wagers |-> IF graded(w) THEN keys[w] \cup {key} ELSE keys[w]]
  BY DEF Grade, GradeSet, Accepted
<1>t. /\ version \in [Markets -> Nat] /\ state \in [Wagers -> WagerStates]
      /\ stake \in [Wagers -> Nat \ {0}] /\ ledger \in [Wagers -> LedgerEntry]
      /\ keys \in [Wagers -> SUBSET Keys]
      /\ \A w \in Wagers : WagerInv(w)
  BY DEF IInv, TypeOK
<1>l. ASSUME NEW w \in Wagers
      PROVE  /\ lines(w).user \in Int /\ lines(w).house \in Int
             /\ lines(w).user + lines(w).house = stake[w]
  BY <1>t, LinesBalance
<1> HIDE DEF lines
<1>k. key \in Keys /\ key.kind = "settlement"
  BY <1>t DEF Keys, SettlementKey
<1> HIDE DEF key
<1>1. version' \in [Markets -> Nat]
  BY <1>0, <1>t
<1>2. state' \in [Wagers -> WagerStates]
  BY <1>0, <1>t DEF WagerStates
<1>3. ledger' \in [Wagers -> LedgerEntry]
  <2>1. ASSUME NEW w \in Wagers
        PROVE  Release(ledger[w], stake[w], lines(w).user, lines(w).house) \in LedgerEntry
    BY <1>t, <1>l DEF Release, LedgerEntry
  <2>2. QED
    BY <1>0, <1>t, <2>1
<1>4. keys' \in [Wagers -> SUBSET Keys]
  BY <1>0, <1>t, <1>k
<1>5. ASSUME NEW w \in Wagers PROVE WagerInv(w)'
  <2>1. CASE graded(w)
    <3>1. /\ state[w] = "accepted" /\ Riding(w)
          /\ state'[w] \in {"settled", "voided"}
          /\ keys'[w] = keys[w] \cup {key}
          /\ ledger'[w] = Release(ledger[w], stake[w], lines(w).user, lines(w).house)
      BY <2>1, <1>0, <1>t DEF WagerInv
    <3>2. ReleaseKeys(w)' = {key}
      BY <3>1, <1>k DEF ReleaseKeys, Riding
    <3>3. /\ ledger'[w].accepted - ledger'[w].reduced = ledger'[w].released
          /\ ledger'[w].released = ledger'[w].paid + ledger'[w].house
      BY <3>1, <1>l, <1>t DEF Release, Riding, LedgerEntry
    <3>4. Released(w)'
      BY <3>1, <3>2, <3>3 DEF Released
    <3>5. QED
      BY <3>1, <3>4 DEF WagerInv
  <2>2. CASE ~ graded(w)
    BY <2>2, <1>0, <1>t, SameWager
  <2>3. QED
    BY <2>1, <2>2
<1>6. QED
  BY <1>0, <1>1, <1>2, <1>3, <1>4, <1>5

(* A wager graded by a settlement is paid by the result of its side; any   *)
(* other wager keeps its state, ledger and keys.                           *)
LEMMA GradePays ==
  ASSUME IInv, NEW m \in Markets, NEW out, NEW n \in Nat \ {0}, Grade(m, out, n),
         NEW w \in Wagers
  PROVE  /\ Market(w) = m /\ state[w] = "accepted" =>
              LET result == out[Request[w].side]
                  lines  == Lines(result, stake[w], Request[w].odds, n)
              IN  /\ state'[w] = IF result = "void" THEN "voided" ELSE "settled"
                  /\ stake'[w] = stake[w]
                  /\ ledger'[w].paid = lines.user
                  /\ ledger'[w].house = lines.house
         /\ ~ (Market(w) = m /\ state[w] = "accepted") =>
              /\ state'[w] = state[w] /\ stake'[w] = stake[w]
              /\ ledger'[w] = ledger[w] /\ keys'[w] = keys[w]
<1> USE BookAssumption
<1> DEFINE lines == Lines(out[Request[w].side], stake[w], Request[w].odds, n)
<1>1. CASE Market(w) = m /\ state[w] = "accepted"
  <2>1. /\ ledger'[w] = Release(ledger[w], stake[w], lines.user, lines.house)
        /\ state'[w] = IF out[Request[w].side] = "void" THEN "voided" ELSE "settled"
        /\ stake'[w] = stake[w]
    BY <1>1 DEF Grade, GradeSet, Accepted
  <2>2. ledger[w].paid = 0 /\ ledger[w].house = 0
    BY <1>1 DEF IInv, WagerInv, Riding
  <2>3. lines.user \in Int /\ lines.house \in Int
    BY LinesBalance DEF IInv, TypeOK
  <2>4. ledger'[w].paid = lines.user /\ ledger'[w].house = lines.house
    BY <2>1, <2>2, <2>3 DEF Release
  <2>5. QED
    BY <1>1, <2>1, <2>4
<1>2. CASE ~ (Market(w) = m /\ state[w] = "accepted")
  BY <1>2 DEF Grade, GradeSet, Accepted
<1>3. QED
  BY <1>1, <1>2

(* After a grading that leaves no accepted wager on m, nothing is stranded *)
(* there; elsewhere nothing changed.                                       *)
LEMMA GradeStrandsNothing ==
  ASSUME IInv, NEW m \in Markets, NEW out, NEW n \in Nat \ {0}, Grade(m, out, n),
         NEW s, market' = [market EXCEPT ![m] = s]
  PROVE  NothingStranded'
<1> SUFFICES ASSUME NEW w \in Wagers \ LegacyWagers, state'[w] = "accepted"
             PROVE  market'[Market(w)] \notin Decided
  BY DEF NothingStranded, Market
<1>1. Market(w) # m /\ state[w] = "accepted"
  BY GradePays
<1>2. market'[Market(w)] = market[Market(w)]
  BY <1>1, BookAssumption DEF IInv, TypeOK, Market, Requests
<1>3. QED
  BY <1>1, <1>2 DEF IInv, NothingStranded

(* SettleMarket grades every accepted wager of a market that had no        *)
(* settlement yet, and records the outcome it paid by.                     *)
LEMMA SettleStep ==
  ASSUME IInv, NEW m \in Markets, NEW out \in Outcomes, NEW tied \in BOOLEAN,
         SettleMarket(m, out, tied)
  PROVE  IInv'
<1> USE BookAssumption
<1>w. Winners(out) \in Nat
  <2>1. IsFiniteSet({s \in Sides : out[s] = "win"})
    BY FS_Subset, {s \in Sides : out[s] = "win"} \subseteq Sides
  <2>2. QED
    BY <2>1, FS_CardinalityType DEF Winners
<1>0. PICK n \in Nat \ {0} :
        /\ market[m] \in {"open", "closed", "settlement_pending"}
        /\ Grade(m, out, n)
        /\ outcome' = [outcome EXCEPT ![m] = out]
        /\ divisor' = [divisor EXCEPT ![m] = n]
        /\ market' = [market EXCEPT ![m] = "settled"]
        /\ regrades' = regrades
  <2> DEFINE N == IF tied THEN Winners(out) ELSE 1
  <2>1. N \in Nat \ {0}
    BY <1>w DEF SettleMarket
  <2>2. /\ market[m] \in {"open", "closed", "settlement_pending"}
        /\ Grade(m, out, N)
        /\ outcome' = [outcome EXCEPT ![m] = out]
        /\ divisor' = [divisor EXCEPT ![m] = N]
        /\ market' = [market EXCEPT ![m] = "settled"]
        /\ regrades' = regrades
    BY DEF SettleMarket
  <2> HIDE DEF N
  <2>3. QED
    BY <2>1, <2>2
<1>t. TypeOK /\ market'[m] = "settled" /\ outcome'[m] = out /\ divisor'[m] = n
  BY <1>0 DEF IInv, TypeOK
<1>1. TypeOK'
  BY <1>0, <1>t, GradeWagers DEF TypeOK, MarketStates
<1>2. \A w \in Wagers : WagerInv(w)'
  BY <1>0, GradeWagers
<1>3. PaidAsGraded'
  <2> SUFFICES ASSUME NEW w \in Wagers, \E k \in keys'[w] : k.kind = "settlement"
               PROVE  PaidByOutcome(w)'
    BY DEF PaidAsGraded
  <2>1. CASE Market(w) = m /\ state[w] = "accepted"
    <3>1. out[Request[w].side] \in Results
      BY DEF Outcomes, Requests
    <3>2. QED
      BY <2>1, <3>1, <1>0, <1>t, GradePays DEF PaidByOutcome, Market
  <2>2. CASE ~ (Market(w) = m /\ state[w] = "accepted")
    <3>1. PaidByOutcome(w)
      BY <2>2, <1>0, GradePays DEF IInv, PaidAsGraded
    <3>2. Market(w) # m
      BY <3>1, <1>0 DEF PaidByOutcome
    <3>3. QED
      BY <3>1, <3>2, <2>2, <1>0, <1>t, GradePays, SamePay DEF TypeOK
  <2>3. QED
    BY <2>1, <2>2
<1>4. NothingStranded'
  BY <1>0, GradeStrandsNothing
<1>5. GradedInv'
  BY <1>0, <1>t DEF IInv, TypeOK, GradedInv
<1>6. QED
  BY <1>1, <1>2, <1>3, <1>4, <1>5 DEF IInv

(* VoidMarket returns every accepted stake of a market that had no         *)
(* settlement yet.                                                         *)
LEMMA VoidMarketStep ==
  ASSUME IInv, NEW m \in Markets, VoidMarket(m)
  PROVE  IInv'
<1> USE BookAssumption
<1> DEFINE out == [s \in Sides |-> "void"]
<1>0. /\ market[m] \in {"open", "closed", "settlement_pending"}
      /\ Grade(m, out, 1)
      /\ market' = [market EXCEPT ![m] = "voided"]
      /\ UNCHANGED <<outcome, divisor, regrades>>
  BY DEF VoidMarket
<1>o. \A s \in Sides : out[s] = "void"
  OBVIOUS
<1> HIDE DEF out
<1>t. TypeOK /\ market'[m] = "voided"
  BY <1>0 DEF IInv, TypeOK
<1>1. TypeOK'
  BY <1>0, <1>t, GradeWagers DEF TypeOK, MarketStates
<1>2. \A w \in Wagers : WagerInv(w)'
  BY <1>0, GradeWagers
<1>3. PaidAsGraded'
  <2> SUFFICES ASSUME NEW w \in Wagers, \E k \in keys'[w] : k.kind = "settlement"
               PROVE  PaidByOutcome(w)'
    BY DEF PaidAsGraded
  <2>1. CASE Market(w) = m /\ state[w] = "accepted"
    <3>1. out[Request[w].side] = "void"
      BY <1>o DEF Requests
    <3>2. \A d : Lines("void", stake[w], Request[w].odds, d)
                   = [escrow |-> -stake[w], house |-> 0, user |-> stake[w]]
      BY DEF Lines
    <3>3. /\ state'[w] = "voided" /\ stake'[w] = stake[w]
          /\ ledger'[w].paid = stake[w] /\ ledger'[w].house = 0
      BY <2>1, <3>1, <3>2, <1>0, GradePays
    <3>4. QED
      BY <2>1, <3>2, <3>3, <1>t DEF PaidByOutcome, Market
  <2>2. CASE ~ (Market(w) = m /\ state[w] = "accepted")
    <3>1. PaidByOutcome(w)
      BY <2>2, <1>0, GradePays DEF IInv, PaidAsGraded
    <3>2. Market(w) # m
      BY <3>1, <1>0 DEF PaidByOutcome
    <3>3. QED
      BY <3>1, <3>2, <2>2, <1>0, <1>t, GradePays, SamePay DEF TypeOK
  <2>3. QED
    BY <2>1, <2>2
<1>4. NothingStranded'
  <2>1. 1 \in Nat \ {0} /\ Grade(m, out, 1) /\ market' = [market EXCEPT ![m] = "voided"]
    BY <1>0
  <2>2. QED
    BY ONLY IInv, m \in Markets, <2>1, GradeStrandsNothing, Zenon
<1>5. GradedInv'
  BY <1>0, <1>t DEF IInv, TypeOK, GradedInv
<1>6. QED
  BY <1>1, <1>2, <1>3, <1>4, <1>5 DEF IInv

(* Looking for stranded wagers changes no table.                           *)
LEMMA ReadStrandedStep ==
  ASSUME IInv, NEW m \in Markets, ReadStranded(m)
  PROVE  IInv'
<1>0. /\ regrades' = [regrades EXCEPT ![m] = @ + 1]
      /\ UNCHANGED <<marketVars, wagerVars>>
  BY DEF ReadStranded
<1>1. TypeOK'
  BY <1>0 DEF IInv, TypeOK, marketVars, wagerVars
<1>2. \A w \in Wagers : WagerInv(w)'
  BY <1>0, SameWager DEF IInv, wagerVars
<1>3. PaidAsGraded'
  BY <1>0, SamePay DEF IInv, PaidAsGraded, marketVars, wagerVars
<1>4. NothingStranded'
  BY <1>0 DEF IInv, NothingStranded, Market, marketVars, wagerVars
<1>5. GradedInv'
  BY <1>0 DEF IInv, GradedInv, marketVars
<1>6. QED
  BY <1>1, <1>2, <1>3, <1>4, <1>5 DEF IInv

(* RegradeStranded pays what is still accepted by the outcome and the      *)
(* divisor already recorded, and leaves every earlier payment alone.       *)
LEMMA RegradeStep ==
  ASSUME IInv, NEW m \in Markets, RegradeStranded(m)
  PROVE  IInv'
<1> USE BookAssumption
<1>0. /\ regrades[m] > 0 /\ market[m] = "settled"
      /\ Grade(m, outcome[m], divisor[m])
      /\ regrades' = [regrades EXCEPT ![m] = @ - 1]
      /\ UNCHANGED <<market, outcome, divisor>>
  BY DEF RegradeStranded
<1>t. TypeOK /\ outcome[m] \in Outcomes /\ divisor[m] \in Nat \ {0}
  BY <1>0 DEF IInv, TypeOK, GradedInv
<1>1. TypeOK'
  <2>1. regrades' \in [Markets -> Nat]
    BY <1>0 DEF IInv, TypeOK
  <2>2. QED
    BY <1>0, <1>t, <2>1, GradeWagers DEF TypeOK
<1>2. \A w \in Wagers : WagerInv(w)'
  BY <1>0, <1>t, GradeWagers
<1>3. PaidAsGraded'
  <2> SUFFICES ASSUME NEW w \in Wagers, \E k \in keys'[w] : k.kind = "settlement"
               PROVE  PaidByOutcome(w)'
    BY DEF PaidAsGraded
  <2>1. CASE Market(w) = m /\ state[w] = "accepted"
    <3>1. outcome[m][Request[w].side] \in Results
      BY <1>t DEF Outcomes, Requests
    <3>2. QED
      BY <2>1, <3>1, <1>0, <1>t, GradePays DEF PaidByOutcome, Market
  <2>2. CASE ~ (Market(w) = m /\ state[w] = "accepted")
    <3>1. PaidByOutcome(w)
      BY <2>2, <1>0, <1>t, GradePays DEF IInv, PaidAsGraded
    <3>2. QED
      BY <3>1, <2>2, <1>0, <1>t, GradePays, SamePay
  <2>3. QED
    BY <2>1, <2>2
<1>4. NothingStranded'
  <2>1. market' = [market EXCEPT ![m] = "settled"]
    BY <1>0 DEF IInv, TypeOK
  <2>2. QED
    BY <2>1, <1>0, <1>t, GradeStrandsNothing
<1>5. GradedInv'
  BY <1>0 DEF IInv, GradedInv
<1>6. QED
  BY <1>1, <1>2, <1>3, <1>4, <1>5 DEF IInv

(* Every step of the book preserves the inductive invariant.               *)
LEMMA NextIInv == IInv /\ [Next]_vars => IInv'
<1> SUFFICES ASSUME IInv, [Next]_vars PROVE IInv'
  OBVIOUS
<1> USE BookAssumption
<1>1. ASSUME NEW m \in Markets, MarketStep(m) PROVE IInv'
  <2>1. CASE OpenMarket(m) \/ CloseMarket(m) \/ CloseMarketWithoutAction(m)
    BY <2>1, LifecycleStep
  <2>2. CASE \E out \in Outcomes, tied \in BOOLEAN : SettleMarket(m, out, tied)
    BY <2>2, SettleStep
  <2>3. CASE VoidMarket(m)
    BY <2>3, VoidMarketStep
  <2>4. CASE ReadStranded(m)
    BY <2>4, ReadStrandedStep
  <2>5. CASE RegradeStranded(m)
    BY <2>5, RegradeStep
  <2>6. QED
    BY <1>1, <2>1, <2>2, <2>3, <2>4, <2>5 DEF MarketStep
<1>2. ASSUME NEW w \in Wagers, WagerStep(w) PROVE IInv'
  <2>1. CASE QuoteWager(w) \/ InsertWager(w) \/ DropQuote(w) \/ RejectWager(w)
    BY <2>1, UnfundedStep
  <2>2. CASE AcceptWager(w)
    BY <2>2, AcceptStep
  <2>3. CASE VoidWager(w)
    BY <2>3, VoidStep
  <2>4. CASE \E n \in 0 .. Request[w].stake : ReduceWager(w, n)
    <3>1. PICK n \in 0 .. Request[w].stake : ReduceWager(w, n)
      BY <2>4
    <3>2. n \in Nat
      BY DEF Requests
    <3>3. QED
      BY <3>1, <3>2, ReduceStep
  <2>5. QED
    BY <1>2, <2>1, <2>2, <2>3, <2>4 DEF WagerStep
<1>3. CASE UNCHANGED vars
  <2>1. UNCHANGED <<market, version, outcome, divisor, state, stake, ledger, keys, regrades>>
    BY <1>3 DEF vars, marketVars, wagerVars
  <2>2. TypeOK'
    BY <2>1 DEF IInv, TypeOK
  <2>3. \A w \in Wagers : WagerInv(w)'
    BY <2>1, SameWager DEF IInv
  <2>4. PaidAsGraded'
    BY <2>1, SamePay DEF IInv, PaidAsGraded
  <2>5. NothingStranded' /\ GradedInv'
    BY <2>1 DEF IInv, NothingStranded, GradedInv, Market
  <2>6. QED
    BY <2>2, <2>3, <2>4, <2>5 DEF IInv
<1>4. QED
  BY <1>1, <1>2, <1>3 DEF Next

-----------------------------------------------------------------------------
(* Theorems *)

(* The inductive invariant holds throughout every behaviour of the book.   *)
THEOREM Invariance == Spec => []IInv
<1>1. QED
  BY InitIInv, NextIInv, PTL DEF Spec

(* Every variable keeps its type.                                          *)
THEOREM TypeCorrect == Spec => []TypeOK
<1>1. IInv => TypeOK
  BY DEF IInv
<1>2. QED
  BY <1>1, Invariance, PTL

(* Escrow holds exactly the stakes of the accepted wagers.                 *)
THEOREM EscrowCorrect == Spec => []EscrowHeld
<1>1. IInv => EscrowHeld
  <2> SUFFICES ASSUME IInv, NEW w \in Wagers
               PROVE  Escrow(w) = IF state[w] = "accepted" THEN stake[w] ELSE 0
    BY DEF EscrowHeld
  <2>0. state[w] \in WagerStates /\ ledger[w] \in LedgerEntry /\ WagerInv(w)
    BY DEF IInv, TypeOK
  <2>1. CASE state[w] \in {"none", "quoted", "pending", "rejected"}
    BY <2>0, <2>1 DEF WagerInv, Untouched, NoEntry, Escrow
  <2>2. CASE state[w] = "accepted"
    BY <2>0, <2>2 DEF WagerInv, Riding, Escrow, LedgerEntry
  <2>3. CASE state[w] \in {"settled", "voided"}
    BY <2>0, <2>3 DEF WagerInv, Released, Escrow, LedgerEntry
  <2>4. QED
    BY <2>0, <2>1, <2>2, <2>3 DEF WagerStates
<1>2. QED
  BY <1>1, Invariance, PTL

(* No cent is created or lost when a wager ends.                           *)
THEOREM LedgerCorrect == Spec => []LedgerBalanced
<1>1. IInv => LedgerBalanced
  <2> SUFFICES ASSUME IInv, NEW w \in Wagers
               PROVE  ledger[w].released = ledger[w].paid + ledger[w].house
    BY DEF LedgerBalanced
  <2>0. state[w] \in WagerStates /\ WagerInv(w)
    BY DEF IInv, TypeOK
  <2>1. QED
    BY <2>0 DEF WagerStates, WagerInv, Untouched, Riding, Released, NoEntry
<1>2. QED
  BY <1>1, Invariance, PTL

(* A stake leaves escrow at most once, under one idempotency key.          *)
THEOREM ReleaseCorrect == Spec => []ReleasedOnce
<1>1. IInv => ReleasedOnce
  <2> SUFFICES ASSUME IInv, NEW w \in Wagers
               PROVE  IF state[w] \in {"settled", "voided"}
                      THEN \E k \in keys[w] : ReleaseKeys(w) = {k}
                      ELSE ReleaseKeys(w) = {}
    BY DEF ReleasedOnce
  <2>0. state[w] \in WagerStates /\ WagerInv(w)
    BY DEF IInv, TypeOK
  <2>1. CASE state[w] \in {"settled", "voided"}
    BY <2>0, <2>1 DEF WagerInv, Released
  <2>2. CASE state[w] \notin {"settled", "voided"}
    BY <2>0, <2>2, NoSettlementYet DEF ReleaseKeys
  <2>3. QED
    BY <2>1, <2>2
<1>2. QED
  BY <1>1, Invariance, PTL

(* Every graded wager was paid by its market's recorded outcome.           *)
THEOREM PaymentCorrect == Spec => []PaidAsGraded
<1>1. IInv => PaidAsGraded
  BY DEF IInv
<1>2. QED
  BY <1>1, Invariance, PTL

(* No stake is left in escrow on a decided market.                         *)
THEOREM StrandsNothing == Spec => []NothingStranded
<1>1. IInv => NothingStranded
  BY DEF IInv
<1>2. QED
  BY <1>1, Invariance, PTL

(* A used idempotency key never stands in the way of a settlement, a void  *)
(* or a reduction that is still due.                                       *)
THEOREM KeysCorrect == Spec => []KeysFresh
<1>1. IInv => KeysFresh
  <2> SUFFICES ASSUME IInv, NEW w \in Wagers, state[w] = "accepted"
               PROVE  /\ SettlementKey(version[Market(w)] + 1) \notin keys[w]
                      /\ VoidKey \notin keys[w]
                      /\ \A n \in 1 .. (stake[w] - 1) : ReduceKey(n) \notin keys[w]
    BY DEF KeysFresh
  <2>0. Riding(w) /\ stake[w] \in Nat
    BY DEF IInv, TypeOK, WagerInv
  <2>1. SettlementKey(version[Market(w)] + 1) \notin keys[w] /\ VoidKey \notin keys[w]
    BY <2>0 DEF Riding, SettlementKey, VoidKey
  <2>2. ASSUME NEW n \in 1 .. (stake[w] - 1) PROVE ReduceKey(n) \notin keys[w]
    BY <2>0 DEF Riding, ReduceKey
  <2>3. QED
    BY <2>1, <2>2
<1>2. QED
  BY <1>1, Invariance, PTL

(* An ended wager never changes state and never moves money again.         *)
THEOREM EndedFinal == Spec => EndedWagersFinal
<1> DEFINE Final == \A w \in Wagers : state[w] \in {"rejected", "settled", "voided"} =>
              state'[w] = state[w] /\ ledger'[w] = ledger[w] /\ keys'[w] = keys[w]
<1>1. ASSUME IInv, Next PROVE Final
  <2> SUFFICES ASSUME NEW w \in Wagers, state[w] \in {"rejected", "settled", "voided"}
               PROVE  state'[w] = state[w] /\ ledger'[w] = ledger[w] /\ keys'[w] = keys[w]
    OBVIOUS
  <2>t. state \in [Wagers -> WagerStates] /\ ledger \in [Wagers -> LedgerEntry]
        /\ keys \in [Wagers -> SUBSET Keys]
    BY <1>1 DEF IInv, TypeOK
  <2>1. ASSUME NEW m \in Markets, NEW out, NEW n, Grade(m, out, n)
        PROVE  state'[w] = state[w] /\ ledger'[w] = ledger[w] /\ keys'[w] = keys[w]
    BY <2>1 DEF Grade, GradeSet, Accepted
  <2>2. CASE \E m \in Markets : MarketStep(m)
    <3>1. PICK m \in Markets : MarketStep(m)
      BY <2>2
    <3>2. (\E out, n : Grade(m, out, n)) \/ UNCHANGED wagerVars
      BY <3>1 DEF MarketStep, OpenMarket, CloseMarket, CloseMarketWithoutAction,
                  SettleMarket, VoidMarket, ReadStranded, RegradeStranded
    <3>3. QED
      BY <2>1, <3>2 DEF wagerVars
  <2>3. CASE \E x \in Wagers : WagerStep(x)
    <3>1. PICK x \in Wagers : WagerStep(x)
      BY <2>3
    <3>2. x # w
      BY <3>1 DEF WagerStep, QuoteWager, InsertWager, DropQuote, AcceptWager,
                  RejectWager, VoidWager, ReduceWager, WriteInsert, WriteAcceptance,
                WriteRejection, WriteVoid, WriteReduction
    <3>3. QED
      BY <3>1, <3>2, <2>t DEF WagerStep, QuoteWager, InsertWager, DropQuote, AcceptWager,
                              RejectWager, VoidWager, ReduceWager, WriteInsert, WriteAcceptance,
                WriteRejection, WriteVoid, WriteReduction
  <2>4. QED
    BY <1>1, <2>2, <2>3 DEF Next
<1>2. IInv /\ [Next]_vars => [Final]_vars
  BY <1>1
<1>3. QED
  BY <1>2, Invariance, PTL DEF Spec, EndedWagersFinal

(* A decided market keeps its state, outcome and dead-heat divisor.        *)
THEOREM OutcomesFinal == Spec => OutcomeFinal
<1> DEFINE Final == \A m \in Markets : market[m] \in Decided \cup {"closed_no_action"} =>
                      /\ market'[m] = market[m]
                      /\ outcome'[m] = outcome[m]
                      /\ divisor'[m] = divisor[m]
<1>1. ASSUME IInv, Next PROVE Final
  <2> SUFFICES ASSUME NEW m \in Markets, market[m] \in Decided \cup {"closed_no_action"}
               PROVE  /\ market'[m] = market[m]
                      /\ outcome'[m] = outcome[m]
                      /\ divisor'[m] = divisor[m]
    OBVIOUS
  <2>t. market \in [Markets -> MarketStates] /\ outcome \in [Markets -> Outcomes \cup {Ungraded}]
        /\ divisor \in [Markets -> Nat \ {0}]
    BY <1>1 DEF IInv, TypeOK
  <2>1. CASE \E x \in Markets : MarketStep(x)
    <3>1. PICK x \in Markets : MarketStep(x)
      BY <2>1
    <3>2. CASE x = m
      BY <3>1, <3>2, <2>t DEF MarketStep, OpenMarket, CloseMarket, CloseMarketWithoutAction,
           SettleMarket, VoidMarket, ReadStranded, RegradeStranded, Decided, marketVars
    <3>3. CASE x # m
      BY <3>1, <3>3, <2>t DEF MarketStep, OpenMarket, CloseMarket, CloseMarketWithoutAction,
           SettleMarket, VoidMarket, ReadStranded, RegradeStranded, marketVars
    <3>4. QED
      BY <3>2, <3>3
  <2>2. CASE \E w \in Wagers : WagerStep(w)
    BY <2>2 DEF WagerStep, QuoteWager, InsertWager, DropQuote, AcceptWager,
                RejectWager, VoidWager, ReduceWager, WriteInsert, WriteAcceptance,
                WriteRejection, WriteVoid, WriteReduction, marketVars
  <2>3. QED
    BY <1>1, <2>1, <2>2 DEF Next
<1>2. IInv /\ [Next]_vars => [Final]_vars
  BY <1>1
<1>3. QED
  BY <1>2, Invariance, PTL DEF Spec, OutcomeFinal

(* settleWager, VoidWager, ReduceWager and RejectWager: for any members,   *)
(* markets, wagers and prices, escrow holds what is at stake and what left *)
(* it was paid out to the cent.                                            *)
THEOREM MoneyCorrect == Spec => []MoneyHeld
<1>1. TypeOK /\ EscrowHeld /\ LedgerBalanced => MoneyHeld
  BY DEF MoneyHeld
<1>2. QED
  BY <1>1, TypeCorrect, EscrowCorrect, LedgerCorrect, PTL

(* The keys of settleWager, VoidIdempotencyKey and ReduceIdempotencyKey:   *)
(* they stop every second release of a stake and never the first one.      *)
THEOREM KeyUseCorrect == Spec => []KeysSound
<1>1. ReleasedOnce /\ KeysFresh => KeysSound
  BY DEF KeysSound
<1>2. QED
  BY <1>1, ReleaseCorrect, KeysCorrect, PTL

(* SettleMarket, RegradeStrandedWagers and VoidMarket: whatever follows,   *)
(* an ended wager and a decided market stay as they are.                   *)
THEOREM DecisionsFinal == Spec => DecisionsStay
<1>1. QED
  BY EndedFinal, OutcomesFinal, PTL DEF DecisionsStay

-----------------------------------------------------------------------------
(* Match settlement, for any number of matches, markets, wagers,           *)
(* dispatchers and crashes: the composition makes only steps of Book, so   *)
(* everything proved of Book holds of it; what is decided stays decided;   *)
(* and the consumer pays what the verified result says.                    *)

(* The refinement *)

(* buildMatchOutcome grades every selection.                               *)
LEMMA MatchOutcomeType ==
  ASSUME NEW m, NEW v
  PROVE  MatchOutcome(m, v) \in Outcomes
BY DEF MatchOutcome, Outcomes, Results

(* A hand-declared outcome is one Book allows.                             *)
LEMMA HandOutcomeType == HandOutcomes \subseteq Outcomes
BY MatchAssumption DEF Outcomes, Results

(* Every step of the composition is a step of Book, or leaves it alone.    *)
LEMMA BookStep == [MatchNext]_allVars => [Next]_vars
<1> SUFFICES ASSUME [MatchNext]_allVars PROVE [Next]_vars
  OBVIOUS
<1>m. MatchMarkets \subseteq Markets
  BY BookAssumption
<1>1. ASSUME NEW m \in MatchMarkets, CreateMarket(m) PROVE UNCHANGED vars
  BY <1>1 DEF CreateMarket
<1>2. ASSUME NEW m \in MatchMarkets, AdminMarketStep(m) PROVE Next
  <2>1. \/ OpenMarket(m) \/ CloseMarket(m) \/ VoidMarket(m)
        \/ \E out \in Outcomes, tied \in BOOLEAN : SettleMarket(m, out, tied)
    BY <1>2, HandOutcomeType DEF AdminMarketStep
  <2>2. MarketStep(m) /\ m \in Markets
    BY <2>1, <1>m DEF MarketStep
  <2>3. QED
    BY <2>2 DEF Next
<1>3. ASSUME NEW g \in Matches, NEW v \in Verdicts, RecordAdminResult(g, v)
      PROVE  UNCHANGED vars
  BY <1>3 DEF RecordAdminResult
<1>4. ASSUME NEW w \in Wagers, MemberStep(w) PROVE Next
  <2>1. Request[w].stake \in Nat
    BY BookAssumption DEF Requests
  <2>2. 1 .. Request[w].stake \subseteq 0 .. Request[w].stake
    BY <2>1
  <2>3. WagerStep(w)
    BY <1>4, <2>2 DEF MemberStep, WagerStep
  <2>4. QED
    BY <2>3 DEF Next
<1>5. ASSUME NEW k \in Dispatchers, WorkerStep(k) \/ Crash(k) PROVE [Next]_vars
  <2>1. ASSUME NEW m \in MatchMarkets, CloseFirst(k, m) PROVE [Next]_vars
    <3>1. CloseMarket(m) \/ UNCHANGED vars
      BY <2>1 DEF CloseFirst
    <3>2. QED
      BY <3>1, <1>m DEF MarketStep, Next
  <2>2. ASSUME NEW m \in MatchMarkets, SettleOne(k, m) PROVE Next
    <3>1. \E out \in Outcomes, tied \in BOOLEAN : SettleMarket(m, out, tied)
      BY <2>2, MatchOutcomeType DEF SettleOne
    <3>2. QED
      BY <3>1, <1>m DEF MarketStep, Next
  <2>3. CASE \/ \E g \in Matches : Deliver(k, g)
             \/ \E m \in MatchMarkets : SkipOne(k, m)
             \/ HandleFailure(k) \/ Return(k) \/ Crash(k)
    BY <2>3 DEF Deliver, SkipOne, HandleFailure, Return, Crash
  <2>4. QED
    BY <1>5, <2>1, <2>2, <2>3 DEF WorkerStep
<1>6. ASSUME NEW g \in Matches, ReleaseStale(g) \/ Overrun(g) PROVE UNCHANGED vars
  BY <1>6 DEF ReleaseStale, Overrun
<1>7. CASE UNCHANGED allVars
  BY <1>7 DEF allVars
<1>8. QED
  BY <1>1, <1>2, <1>3, <1>4, <1>5, <1>6, <1>7 DEF MatchNext

(* Match settlement implements Book: whatever the consumer, the            *)
(* administrators and the members do to match markets, at whatever moment  *)
(* a delivery is cut short or repeated, the tables change only as Book     *)
(* says (SettleMatchMarkets calls the same settleWith as an administrator).*)
THEOREM MatchRefinesBook == MatchSpec => OnlyBookSteps
<1>1. MatchInit => Init
  BY DEF MatchInit
<1>2. QED
  BY <1>1, BookStep, PTL DEF MatchSpec, OnlyBookSteps, Spec

(* What is proved of Book holds of the composition.                        *)
THEOREM BookInvariance == MatchSpec => []IInv
<1>1. MatchInit => IInv
  BY InitIInv DEF MatchInit
<1>2. IInv /\ [MatchNext]_allVars => IInv'
  BY BookStep, NextIInv
<1>3. QED
  BY <1>1, <1>2, PTL DEF MatchSpec

-----------------------------------------------------------------------------
(* Decisions stand *)

(* Grading moves the money of accepted wagers of the market only.          *)
LEMMA GradeMovesAccepted ==
  ASSUME TypeOK, NEW m \in Markets, NEW out, NEW n, Grade(m, out, n),
         NEW w \in Wagers, state[w] # "accepted" \/ Market(w) # m
  PROVE  ledger'[w] = ledger[w] /\ state'[w] = state[w] /\ keys'[w] = keys[w]
BY DEF Grade, GradeSet, Accepted

(* No step of Book touches a decided market or the ledger of a wager on it *)
(* that is not accepted any more, or not yet.                              *)
LEMMA DecidedKept ==
  ASSUME TypeOK, Next, NEW m \in Markets, market[m] \in Decided
  PROVE  /\ market'[m] = market[m] /\ outcome'[m] = outcome[m] /\ divisor'[m] = divisor[m]
         /\ \A w \in Wagers : Market(w) = m /\ state[w] # "accepted" => ledger'[w] = ledger[w]
<1> DEFINE Kept == /\ market'[m] = market[m] /\ outcome'[m] = outcome[m] /\ divisor'[m] = divisor[m]
                   /\ \A w \in Wagers : Market(w) = m /\ state[w] # "accepted" => ledger'[w] = ledger[w]
<1>t. /\ market \in [Markets -> MarketStates] /\ outcome \in [Markets -> Outcomes \cup {Ungraded}]
      /\ divisor \in [Markets -> Nat \ {0}]
      /\ ledger \in [Wagers -> LedgerEntry] /\ state \in [Wagers -> WagerStates]
  BY DEF TypeOK
<1>d. market[m] \notin {"draft", "open", "closed", "settlement_pending"}
  BY DEF Decided
<1>1. ASSUME NEW o \in Markets, MarketStep(o) PROVE Kept
  <2>1. CASE OpenMarket(o) \/ CloseMarket(o) \/ CloseMarketWithoutAction(o)
    BY <2>1, <1>t, <1>d DEF OpenMarket, CloseMarket, CloseMarketWithoutAction, wagerVars
  <2>2. ASSUME NEW out \in Outcomes, NEW tied \in BOOLEAN, SettleMarket(o, out, tied) PROVE Kept
    <3>1. PICK n : Grade(o, out, n) /\ outcome' = [outcome EXCEPT ![o] = out]
                   /\ divisor' = [divisor EXCEPT ![o] = n]
      BY <2>2 DEF SettleMarket
    <3>2. o # m /\ market' = [market EXCEPT ![o] = "settled"]
      BY <2>2, <1>d DEF SettleMarket
    <3>3. \A w \in Wagers : Market(w) = m /\ state[w] # "accepted" => ledger'[w] = ledger[w]
      BY <3>1, GradeMovesAccepted
    <3>4. QED
      BY <3>1, <3>2, <3>3, <1>t
  <2>3. CASE VoidMarket(o)
    <3>1. o # m /\ market' = [market EXCEPT ![o] = "voided"] /\ UNCHANGED <<outcome, divisor>>
          /\ Grade(o, [s \in Sides |-> "void"], 1)
      BY <2>3, <1>d DEF VoidMarket
    <3>2. \A w \in Wagers : Market(w) = m /\ state[w] # "accepted" => ledger'[w] = ledger[w]
      BY <3>1, GradeMovesAccepted
    <3>3. QED
      BY <3>1, <3>2, <1>t
  <2>4. CASE ReadStranded(o)
    BY <2>4 DEF ReadStranded, marketVars, wagerVars
  <2>5. CASE RegradeStranded(o)
    <3>1. UNCHANGED <<market, outcome, divisor>> /\ Grade(o, outcome[o], divisor[o])
      BY <2>5 DEF RegradeStranded
    <3>2. \A w \in Wagers : Market(w) = m /\ state[w] # "accepted" => ledger'[w] = ledger[w]
      BY <3>1, GradeMovesAccepted
    <3>3. QED
      BY <3>1, <3>2
  <2>6. QED
    BY <1>1, <2>1, <2>2, <2>3, <2>4, <2>5 DEF MarketStep
<1>2. ASSUME NEW x \in Wagers, WagerStep(x) PROVE Kept
  <2>1. UNCHANGED marketVars
    BY <1>2 DEF WagerStep, QuoteWager, InsertWager, WriteInsert, DropQuote, AcceptWager,
       WriteAcceptance, RejectWager, WriteRejection, VoidWager, WriteVoid, ReduceWager, WriteReduction
  <2>2. CASE QuoteWager(x) \/ InsertWager(x) \/ DropQuote(x) \/ RejectWager(x)
    BY <2>1, <2>2 DEF QuoteWager, InsertWager, WriteInsert, DropQuote, RejectWager,
       WriteRejection, marketVars
  <2>3. CASE AcceptWager(x)
    BY <2>1, <2>3, <1>t DEF AcceptWager, WriteAcceptance, marketVars
  <2>4. CASE VoidWager(x) \/ \E n \in 0 .. Request[x].stake : ReduceWager(x, n)
    BY <2>1, <2>4, <1>t DEF VoidWager, WriteVoid, ReduceWager, WriteReduction, marketVars
  <2>5. QED
    BY <1>2, <2>2, <2>3, <2>4 DEF WagerStep
<1>3. QED
  BY <1>1, <1>2 DEF Next

-----------------------------------------------------------------------------
(* What the consumer settled *)

Delivery == [match : Matches, attempt : Nat, todo : SUBSET MatchMarkets, open : SUBSET MatchMarkets]
EventStates == {"none", "pending", "processing", "completed", "failed"}

MatchType ==
  /\ exists \subseteq MatchMarkets
  /\ verified \in [Matches -> Verdicts \cup {"none"}]
  /\ event \in [Matches -> EventStates]
  /\ attempts \in [Matches -> Nat]
  /\ work \in [Dispatchers -> {NoDelivery} \cup Delivery]
  /\ source \in [MatchMarkets -> Verdicts \cup {"none"}]

(* There is an event only for a recorded result, and a delivery works      *)
(* through the markets of the match it is about.                           *)
Delivering ==
  /\ \A g \in Matches : event[g] # "none" => verified[g] # "none"
  /\ \A k \in Dispatchers : work[k] # NoDelivery =>
       /\ verified[work[k].match] # "none"
       /\ \A m \in work[k].todo : MatchOf[m] = work[k].match

(* A market the consumer settled is graded by the verified result.         *)
Sourced ==
  \A m \in MatchMarkets : source[m] # "none" =>
    /\ Recognised(m) /\ source[m] = verified[MatchOf[m]]
    /\ market[m] = "settled" /\ m \notin LegacyMarkets
    /\ outcome[m] = MatchOutcome(m, source[m]) /\ divisor[m] = 1

(* What the earlier release settled is not settled again.                  *)
LegacySettled == \A m \in LegacyMarkets : market[m] = "settled"

(* What a wager's stake and state say about its past: only a reduction     *)
(* changes the stake, only grading settles, and only a request that wins   *)
(* something is placed.                                                    *)
WagerHistory(w) ==
  /\ ledger[w].reduced = Request[w].stake - stake[w]
  /\ state[w] = "settled" => \E k \in keys[w] : k.kind = "settlement"
  /\ w \notin LegacyWagers /\ state[w] # "none" => Profit(Request[w].odds, Request[w].stake) >= 1

MatchInv ==
  /\ MatchType
  /\ Delivering
  /\ Sourced
  /\ LegacySettled
  /\ \A w \in Wagers : WagerHistory(w)

(* A settled market stays settled, with its outcome and divisor.           *)
LEMMA SettledKept ==
  ASSUME TypeOK, [Next]_vars, NEW m \in Markets, market[m] = "settled"
  PROVE  market'[m] = "settled" /\ outcome'[m] = outcome[m] /\ divisor'[m] = divisor[m]
<1>1. CASE Next
  BY <1>1, DecidedKept DEF Decided
<1>2. CASE UNCHANGED vars
  BY <1>2 DEF vars, marketVars
<1>3. QED
  BY <1>1, <1>2

(* Grading keeps a wager's history: it settles under a settlement key.     *)
LEMMA GradeHistory ==
  ASSUME TypeOK, NEW m \in Markets, NEW out, NEW n, Grade(m, out, n),
         NEW w \in Wagers, WagerHistory(w)
  PROVE  WagerHistory(w)'
<1>t. ledger \in [Wagers -> LedgerEntry] /\ state \in [Wagers -> WagerStates]
      /\ keys \in [Wagers -> SUBSET Keys] /\ stake' = stake
  BY DEF TypeOK, Grade, GradeSet
<1>1. CASE w \notin Accepted(m)
  BY <1>1, <1>t DEF Grade, GradeSet, WagerHistory
<1>2. CASE w \in Accepted(m)
  <2>1. state[w] = "accepted"
    BY <1>2 DEF Accepted
  <2>2. PICK c, u, h : ledger'[w] = Release(ledger[w], c, u, h)
    BY <1>2 DEF Grade, GradeSet
  <2>3. ledger'[w].reduced = ledger[w].reduced
    BY <2>2 DEF Release
  <2>4. SettlementKey(version[m] + 1) \in keys'[w] /\ SettlementKey(version[m] + 1).kind = "settlement"
    BY <1>2 DEF Grade, GradeSet, SettlementKey
  <2>5. QED
    BY <2>1, <2>3, <2>4, <1>t DEF WagerHistory
<1>3. QED
  BY <1>1, <1>2

(* Every step of Book keeps the history of every wager.                    *)
LEMMA HistoryStep ==
  ASSUME TypeOK, [Next]_vars, NEW w \in Wagers, WagerHistory(w)
  PROVE  WagerHistory(w)'
<1>t. /\ ledger \in [Wagers -> LedgerEntry] /\ state \in [Wagers -> WagerStates]
      /\ keys \in [Wagers -> SUBSET Keys] /\ stake \in [Wagers -> Nat \ {0}]
      /\ Request[w].stake \in Nat
  BY BookAssumption DEF TypeOK, Requests
<1>1. ASSUME NEW m \in Markets, MarketStep(m) PROVE WagerHistory(w)'
  <2>1. CASE OpenMarket(m) \/ CloseMarket(m) \/ CloseMarketWithoutAction(m) \/ ReadStranded(m)
    BY <2>1 DEF OpenMarket, CloseMarket, CloseMarketWithoutAction, ReadStranded, wagerVars, WagerHistory
  <2>2. CASE \/ \E out \in Outcomes, tied \in BOOLEAN : SettleMarket(m, out, tied)
             \/ VoidMarket(m) \/ RegradeStranded(m)
    <3>1. \E out, n : Grade(m, out, n)
      BY <2>2 DEF SettleMarket, VoidMarket, RegradeStranded
    <3>2. QED
      BY <3>1, GradeHistory
  <2>3. QED
    BY <1>1, <2>1, <2>2 DEF MarketStep
<1>2. ASSUME NEW x \in Wagers, WagerStep(x) PROVE WagerHistory(w)'
  <2>0. CASE x # w
    <3>1. UNCHANGED <<state[w], stake[w], ledger[w], keys[w]>>
      BY <1>2, <2>0, <1>t DEF WagerStep, QuoteWager, InsertWager, WriteInsert, DropQuote, AcceptWager,
         WriteAcceptance, RejectWager, WriteRejection, VoidWager, WriteVoid, ReduceWager, WriteReduction
    <3>2. QED
      BY <3>1 DEF WagerHistory
  <2>1. CASE QuoteWager(w)
    BY <2>1, <1>t DEF QuoteWager, WagerHistory
  <2>2. CASE InsertWager(w) \/ DropQuote(w) \/ RejectWager(w)
    BY <2>2, <1>t DEF InsertWager, WriteInsert, DropQuote, RejectWager, WriteRejection, WagerHistory
  <2>3. CASE AcceptWager(w)
    <3>1. ledger'[w] = [ledger[w] EXCEPT !.accepted = ledger[w].accepted + stake[w]]
          /\ state'[w] = "accepted" /\ state[w] = "pending" /\ stake' = stake
      BY <2>3, <1>t DEF AcceptWager, WriteAcceptance
    <3>2. ledger'[w].reduced = ledger[w].reduced
      BY <3>1, <1>t DEF LedgerEntry
    <3>3. QED
      BY <3>1, <3>2 DEF WagerHistory
  <2>4. CASE VoidWager(w)
    <3>1. ledger'[w] = Release(ledger[w], stake[w], stake[w], 0)
          /\ state'[w] = "voided" /\ state[w] = "accepted" /\ stake' = stake
      BY <2>4, <1>t DEF VoidWager, WriteVoid
    <3>2. ledger'[w].reduced = ledger[w].reduced
      BY <3>1 DEF Release
    <3>3. QED
      BY <3>1, <3>2 DEF WagerHistory
  <2>5. ASSUME NEW n \in 0 .. Request[w].stake, ReduceWager(w, n) PROVE WagerHistory(w)'
    <3>1. ledger'[w] = [ledger[w] EXCEPT !.reduced = ledger[w].reduced + (stake[w] - n)]
          /\ state'[w] = "accepted" /\ state[w] = "accepted" /\ stake'[w] = n
      BY <2>5, <1>t DEF ReduceWager, WriteReduction
    <3>2. ledger'[w].reduced = ledger[w].reduced + (stake[w] - n) /\ ledger[w].reduced \in Int
      BY <3>1, <1>t DEF LedgerEntry
    <3>3. ledger[w].reduced = Request[w].stake - stake[w]
      BY DEF WagerHistory
    <3>4. ledger'[w].reduced = Request[w].stake - stake'[w]
      BY <3>1, <3>2, <3>3, <1>t
    <3>5. QED
      BY <3>1, <3>4 DEF WagerHistory
  <2>6. QED
    BY <1>2, <2>0, <2>1, <2>2, <2>3, <2>4, <2>5 DEF WagerStep
<1>3. CASE UNCHANGED vars
  BY <1>3 DEF vars, wagerVars, WagerHistory
<1>4. QED
  BY <1>1, <1>2, <1>3 DEF Next

(* The part of the invariant that concerns Book alone.                     *)
LEMMA BookPart ==
  ASSUME IInv, MatchInv, [Next]_vars
  PROVE  LegacySettled' /\ \A w \in Wagers : WagerHistory(w)'
<1>1. TypeOK /\ LegacyMarkets \subseteq Markets
  BY BookAssumption DEF IInv
<1>2. LegacySettled'
  BY <1>1, SettledKept DEF MatchInv, LegacySettled
<1>3. QED
  BY <1>1, <1>2, HistoryStep DEF MatchInv

(* A market the consumer settled keeps its grading, as long as the verdict *)
(* of its match does not change.                                           *)
LEMMA SourceKept ==
  ASSUME IInv, MatchInv, [Next]_vars, NEW m \in MatchMarkets,
         source'[m] = source[m], verified'[MatchOf[m]] = verified[MatchOf[m]], source'[m] # "none"
  PROVE  /\ Recognised(m) /\ source'[m] = verified'[MatchOf[m]]
         /\ market'[m] = "settled" /\ m \notin LegacyMarkets
         /\ outcome'[m] = MatchOutcome(m, source'[m]) /\ divisor'[m] = 1
<1>1. TypeOK /\ m \in Markets
  BY BookAssumption DEF IInv
<1>2. QED
  BY <1>1, SettledKept DEF MatchInv, Sourced

(* A step in which no result is recorded and nothing is settled by the     *)
(* consumer.                                                               *)
LEMMA QuietStep ==
  ASSUME IInv, MatchInv, [Next]_vars, UNCHANGED <<verified, source>>,
         MatchType', Delivering'
  PROVE  MatchInv'
<1>1. Sourced'
  <2> SUFFICES ASSUME NEW m \in MatchMarkets, source'[m] # "none"
               PROVE  /\ Recognised(m) /\ source'[m] = verified'[MatchOf[m]]
                      /\ market'[m] = "settled" /\ m \notin LegacyMarkets
                      /\ outcome'[m] = MatchOutcome(m, source'[m]) /\ divisor'[m] = 1
    BY DEF Sourced, Recognised, MatchOutcome
  <2>1. QED
    BY SourceKept
<1>2. QED
  BY <1>1, BookPart DEF MatchInv

(* Creating markets, and what administrators and members do by hand.       *)
LEMMA HandStep ==
  ASSUME IInv, MatchInv, [Next]_vars, UNCHANGED <<deliveryVars, verified, source>>,
         exists' \subseteq MatchMarkets
  PROVE  MatchInv'
<1>1. MatchType' /\ Delivering'
  BY DEF MatchInv, MatchType, Delivering, deliveryVars
<1>2. QED
  BY <1>1, QuietStep

(* A lease runs out: the row of a recorded result is pending again.        *)
LEMMA LeaseStep ==
  ASSUME IInv, MatchInv, [Next]_vars, NEW g \in Matches, ReleaseStale(g) \/ Overrun(g)
  PROVE  MatchInv'
<1>1. event[g] = "processing" /\ event' = [event EXCEPT ![g] = "pending"]
      /\ UNCHANGED <<exists, verified, source, attempts, work>>
  BY DEF ReleaseStale, Overrun, matchVars
<1>2. MatchType'
  BY <1>1 DEF MatchInv, MatchType, EventStates
<1>3. Delivering'
  BY <1>1 DEF MatchInv, MatchType, Delivering
<1>4. QED
  BY <1>1, <1>2, <1>3, QuietStep

(* A result is recorded: no market of its match was settled from one.      *)
LEMMA RecordStep ==
  ASSUME IInv, MatchInv, [Next]_vars, NEW g \in Matches, NEW v \in Verdicts, RecordAdminResult(g, v)
  PROVE  MatchInv'
<1>1. MatchType'
  BY DEF MatchInv, MatchType, EventStates, RecordAdminResult
<1>2. /\ verified[g] = "none" /\ v # "none"
      /\ verified' = [verified EXCEPT ![g] = v] /\ event' = [event EXCEPT ![g] = "pending"]
      /\ UNCHANGED <<work, source>>
  BY DEF RecordAdminResult, Verdicts
<1>3. \A h \in Matches : verified[h] # "none" => verified'[h] = verified[h]
  BY <1>2 DEF MatchInv, MatchType
<1>4. Delivering'
  <2>1. \A h \in Matches : event'[h] # "none" => verified'[h] # "none"
    BY <1>2, <1>3 DEF MatchInv, MatchType, Delivering
  <2>2. \A k \in Dispatchers : work[k] # NoDelivery => work[k].match \in Matches
    BY DEF MatchInv, MatchType, Delivery
  <2>3. QED
    BY <2>1, <2>2, <1>2, <1>3 DEF MatchInv, Delivering
<1>5. Sourced'
  <2> SUFFICES ASSUME NEW m \in MatchMarkets, source'[m] # "none"
               PROVE  /\ Recognised(m) /\ source'[m] = verified'[MatchOf[m]]
                      /\ market'[m] = "settled" /\ m \notin LegacyMarkets
                      /\ outcome'[m] = MatchOutcome(m, source'[m]) /\ divisor'[m] = 1
    BY DEF Sourced, Recognised, MatchOutcome
  <2>1. MatchOf[m] \in Matches /\ verified[MatchOf[m]] # "none"
    BY <1>2, MatchAssumption DEF MatchInv, Sourced
  <2>2. QED
    BY <2>1, <1>2, <1>3, SourceKept
<1>6. QED
  BY <1>1, <1>4, <1>5, BookPart DEF MatchInv

(* A delivery keeps to the markets it listed.                              *)
LEMMA WorkStep ==
  ASSUME MatchInv, NEW k \in Dispatchers, NEW now \in {NoDelivery} \cup Delivery,
         work' = [work EXCEPT ![k] = now],
         now # NoDelivery => /\ verified[now.match] # "none"
                       /\ \A m \in now.todo : MatchOf[m] = now.match,
         UNCHANGED <<exists, verified>>, source' \in [MatchMarkets -> Verdicts \cup {"none"}],
         \A g \in Matches : event'[g] # "none" => event[g] # "none",
         event' \in [Matches -> EventStates], attempts' \in [Matches -> Nat]
  PROVE  MatchType' /\ Delivering'
<1>1. MatchType'
  BY DEF MatchInv, MatchType
<1>2. \A j \in Dispatchers : work'[j] = IF j = k THEN now ELSE work[j]
  BY DEF MatchInv, MatchType
<1>3. \A j \in Dispatchers : work'[j] # NoDelivery =>
        verified[work'[j].match] # "none" /\ \A m \in work'[j].todo : MatchOf[m] = work'[j].match
  BY <1>2 DEF MatchInv, Delivering
<1>4. Delivering'
  BY <1>3 DEF MatchInv, Delivering
<1>5. QED
  BY <1>1, <1>4

(* A delivery that goes on stays a delivery of the same match, to no more  *)
(* markets.                                                                *)
LEMMA DeliveryUpdate ==
  ASSUME NEW d \in Delivery, NEW m
  PROVE  /\ [d EXCEPT !.open = d.open \ {m}] \in Delivery
         /\ [d EXCEPT !.open = d.open \ {m}].match = d.match
         /\ [d EXCEPT !.open = d.open \ {m}].todo = d.todo
         /\ [d EXCEPT !.todo = d.todo \ {m}] \in Delivery
         /\ [d EXCEPT !.todo = d.todo \ {m}].match = d.match
         /\ [d EXCEPT !.todo = d.todo \ {m}].todo = d.todo \ {m}
BY DEF Delivery

(* A delivery starts, goes on without settling, or ends.                   *)
LEMMA DeliveryStep ==
  ASSUME IInv, MatchInv, [Next]_vars, NEW k \in Dispatchers,
         \/ \E g \in Matches : Deliver(k, g)
         \/ \E m \in MatchMarkets : CloseFirst(k, m) \/ SkipOne(k, m)
         \/ HandleFailure(k) \/ Return(k) \/ Crash(k)
  PROVE  MatchInv'
<1>t. /\ exists \subseteq MatchMarkets /\ work \in [Dispatchers -> {NoDelivery} \cup Delivery]
      /\ source \in [MatchMarkets -> Verdicts \cup {"none"}]
      /\ event \in [Matches -> EventStates] /\ attempts \in [Matches -> Nat]
      /\ MatchOf \in [MatchMarkets -> Matches]
  BY MatchAssumption DEF MatchInv, MatchType
<1>u. UNCHANGED <<exists, verified, source>>
  BY DEF Deliver, CloseFirst, SkipOne, HandleFailure, Return, Crash, matchVars
<1>e. /\ event' \in [Matches -> EventStates] /\ attempts' \in [Matches -> Nat]
      /\ \A g \in Matches : event'[g] # "none" => event[g] # "none"
  <2>1. ASSUME NEW g, NEW to \in EventStates, Mark(g, to)
        PROVE  event' \in [Matches -> EventStates] /\ \A h \in Matches : event'[h] # "none" => event[h] # "none"
    BY <2>1, <1>t DEF Mark
  <2>2. CASE HandleFailure(k) \/ Return(k)
    <3> DEFINE g == work[k].match
    <3>1. Mark(g, "failed") \/ Mark(g, "pending") \/ Mark(g, "completed")
      BY <2>2 DEF HandleFailure, Return, Mark
    <3>2. UNCHANGED attempts
      BY <2>2 DEF HandleFailure, Return
    <3>3. QED
      BY <2>1, <3>1, <3>2, <1>t DEF EventStates
  <2>3. CASE \E g \in Matches : Deliver(k, g)
    BY <2>3, <1>t DEF Deliver, EventStates
  <2>4. CASE Crash(k) \/ \E m \in MatchMarkets : CloseFirst(k, m) \/ SkipOne(k, m)
    BY <2>4, <1>t DEF CloseFirst, SkipOne, Crash
  <2>5. QED
    BY <2>2, <2>3, <2>4
<1>1. PICK now \in {NoDelivery} \cup Delivery :
        /\ work' = [work EXCEPT ![k] = now]
        /\ now # NoDelivery => /\ verified[now.match] # "none"
                         /\ \A m \in now.todo : MatchOf[m] = now.match
  <2>1. ASSUME NEW g \in Matches, Deliver(k, g)
        PROVE  \E now \in {NoDelivery} \cup Delivery :
                 /\ work' = [work EXCEPT ![k] = now]
                 /\ now # NoDelivery => /\ verified[now.match] # "none"
                                  /\ \A m \in now.todo : MatchOf[m] = now.match
    <3> DEFINE now == [match |-> g, attempt |-> attempts[g] + 1, todo |-> ToSettle(g),
                       open |-> {m \in ToSettle(g) : market[m] = "open"}]
    <3>1. now \in Delivery /\ \A m \in now.todo : MatchOf[m] = now.match
      BY <1>t DEF Delivery, ToSettle, MarketsOf
    <3>2. work' = [work EXCEPT ![k] = now] /\ event[g] = "pending"
      BY <2>1 DEF Deliver
    <3>3. verified[now.match] # "none"
      BY <3>2 DEF MatchInv, Delivering
    <3>4. QED
      BY <3>1, <3>2, <3>3
  <2>2. ASSUME NEW m \in MatchMarkets, CloseFirst(k, m) \/ SkipOne(k, m)
        PROVE  \E now \in {NoDelivery} \cup Delivery :
                 /\ work' = [work EXCEPT ![k] = now]
                 /\ now # NoDelivery => /\ verified[now.match] # "none"
                                  /\ \A o \in now.todo : MatchOf[o] = now.match
    <3>1. work[k] # NoDelivery /\ work[k] \in Delivery
      BY <2>2, <1>t DEF CloseFirst, SkipOne, Turn
    <3>2. PICK now \in {[work[k] EXCEPT !.open = work[k].open \ {m}],
                        [work[k] EXCEPT !.todo = work[k].todo \ {m}]} :
            work' = [work EXCEPT ![k] = now]
      <4>1. \/ work' = [work EXCEPT ![k] = [work[k] EXCEPT !.open = work[k].open \ {m}]]
            \/ work' = [work EXCEPT ![k] = [work[k] EXCEPT !.todo = work[k].todo \ {m}]]
        BY <2>2, <3>1, <1>t DEF CloseFirst, SkipOne
      <4>2. QED
        BY <4>1, Zenon
    <3>3. now \in Delivery /\ now.match = work[k].match /\ now.todo \subseteq work[k].todo
      <4>1. CASE now = [work[k] EXCEPT !.open = work[k].open \ {m}]
        BY <4>1, <3>1, DeliveryUpdate, Zenon
      <4>2. CASE now = [work[k] EXCEPT !.todo = work[k].todo \ {m}]
        BY <4>2, <3>1, DeliveryUpdate, Zenon
      <4>3. QED
        BY <3>2, <4>1, <4>2
    <3>4. verified[now.match] # "none" /\ \A o \in now.todo : MatchOf[o] = now.match
      BY <3>1, <3>3 DEF MatchInv, Delivering
    <3>5. now \in {NoDelivery} \cup Delivery
      BY <3>3
    <3>6. QED
      BY <3>2, <3>4, <3>5
  <2>3. CASE HandleFailure(k) \/ Return(k) \/ Crash(k)
    BY <2>3 DEF HandleFailure, Return, Crash
  <2>4. QED
    BY <2>1, <2>2, <2>3
<1>2. MatchType' /\ Delivering'
  BY <1>1, <1>t, <1>u, <1>e, WorkStep
<1>3. QED
  BY <1>2, <1>u, QuietStep

(* The consumer settles a market that nobody has decided, by the verdict   *)
(* of its match.                                                           *)
LEMMA SettleOneStep ==
  ASSUME IInv, MatchInv, [Next]_vars, NEW k \in Dispatchers, NEW m \in MatchMarkets, SettleOne(k, m)
  PROVE  MatchInv'
<1>t. /\ work \in [Dispatchers -> {NoDelivery} \cup Delivery] /\ verified \in [Matches -> Verdicts \cup {"none"}]
      /\ source \in [MatchMarkets -> Verdicts \cup {"none"}]
      /\ MatchOf \in [MatchMarkets -> Matches]
      /\ event \in [Matches -> EventStates] /\ attempts \in [Matches -> Nat]
  BY MatchAssumption DEF MatchInv, MatchType
<1>b. /\ market \in [Markets -> MarketStates] /\ divisor \in [Markets -> Nat \ {0}]
      /\ outcome \in [Markets -> Outcomes \cup {Ungraded}] /\ m \in Markets
  BY BookAssumption DEF IInv, TypeOK
<1>1. work[k] # NoDelivery /\ work[k] \in Delivery /\ m \in work[k].todo /\ Recognised(m)
  BY <1>t DEF SettleOne, Turn
<1>2. PICK v \in Verdicts : v = verified[work[k].match] /\ work[k].match = MatchOf[m]
  BY <1>1, <1>t DEF MatchInv, Delivering, Delivery
<1>3. /\ source' = [source EXCEPT ![m] = v]
      /\ work' = [work EXCEPT ![k] = [work[k] EXCEPT !.todo = work[k].todo \ {m}]]
      /\ UNCHANGED <<event, attempts, exists, verified>>
  BY <1>2 DEF SettleOne
<1>4. PICK now : now = [work[k] EXCEPT !.todo = work[k].todo \ {m}]
  OBVIOUS
<1>5. now \in Delivery /\ now.match = work[k].match /\ now.todo = work[k].todo \ {m}
  BY <1>1, <1>4, DeliveryUpdate, Zenon
<1>6. MatchType' /\ Delivering'
  <2>1. now \in {NoDelivery} \cup Delivery /\ work' = [work EXCEPT ![k] = now]
    BY <1>3, <1>4, <1>5
  <2>2. verified[now.match] # "none" /\ \A o \in now.todo : MatchOf[o] = now.match
    BY <1>1, <1>5 DEF MatchInv, Delivering
  <2>3. source' \in [MatchMarkets -> Verdicts \cup {"none"}]
    BY <1>3, <1>t
  <2>4. QED
    BY <2>1, <2>2, <2>3, <1>3, <1>t, WorkStep
<1>7. SettleMarket(m, MatchOutcome(m, v), FALSE)
  BY <1>2 DEF SettleOne
<1>8. /\ market[m] \in {"open", "closed", "settlement_pending"} /\ market'[m] = "settled"
      /\ outcome'[m] = MatchOutcome(m, v) /\ divisor'[m] = 1
  BY <1>7, <1>b DEF SettleMarket
<1>9. m \notin LegacyMarkets
  BY <1>8 DEF MatchInv, LegacySettled
<1>10. Sourced'
  <2> SUFFICES ASSUME NEW o \in MatchMarkets, source'[o] # "none"
               PROVE  /\ Recognised(o) /\ source'[o] = verified'[MatchOf[o]]
                      /\ market'[o] = "settled" /\ o \notin LegacyMarkets
                      /\ outcome'[o] = MatchOutcome(o, source'[o]) /\ divisor'[o] = 1
    BY DEF Sourced, Recognised, MatchOutcome
  <2>1. CASE o = m
    BY <2>1, <1>1, <1>2, <1>3, <1>8, <1>9, <1>t
  <2>2. CASE o # m
    <3>1. source'[o] = source[o] /\ verified'[MatchOf[o]] = verified[MatchOf[o]]
      BY <2>2, <1>3, <1>t
    <3>2. QED
      BY <3>1, SourceKept
  <2>3. QED
    BY <2>1, <2>2
<1>11. QED
  BY <1>6, <1>10, BookPart DEF MatchInv

(* The tables as the release finds them.                                   *)
LEMMA MatchInitInv == MatchInit => MatchInv
<1> SUFFICES ASSUME MatchInit PROVE MatchInv
  OBVIOUS
<1> USE BookAssumption, MatchAssumption
<1>1. MatchType
  BY DEF MatchInit, MatchType, EventStates
<1>2. Delivering /\ Sourced
  BY DEF MatchInit, Delivering, Sourced
<1>3. LegacySettled
  BY DEF MatchInit, Init, LegacySettled
<1>4. ASSUME NEW w \in Wagers PROVE WagerHistory(w)
  <2>1. /\ stake[w] = Request[w].stake /\ Request[w].stake \in Nat
        /\ ledger[w] \in {NoEntry, [NoEntry EXCEPT !.accepted = Request[w].stake]}
        /\ state[w] # "settled" /\ (w \notin LegacyWagers => state[w] = "none")
    BY DEF MatchInit, Init, Requests
  <2>2. ledger[w].reduced = 0
    BY <2>1 DEF NoEntry
  <2>3. QED
    BY <2>1, <2>2 DEF WagerHistory
<1>5. QED
  BY <1>1, <1>2, <1>3, <1>4 DEF MatchInv

(* Every step of the composition keeps the invariant.                      *)
LEMMA MatchNextInv == IInv /\ MatchInv /\ [MatchNext]_allVars => MatchInv'
<1> SUFFICES ASSUME IInv, MatchInv, [MatchNext]_allVars PROVE MatchInv'
  OBVIOUS
<1>0. [Next]_vars /\ exists \subseteq MatchMarkets
  BY BookStep DEF MatchInv, MatchType
<1>1. CASE \E m \in MatchMarkets : CreateMarket(m) \/ AdminMarketStep(m)
  BY <1>0, <1>1, HandStep DEF CreateMarket, AdminMarketStep, matchVars
<1>2. CASE \E g \in Matches, v \in Verdicts : RecordAdminResult(g, v)
  BY <1>0, <1>2, RecordStep
<1>3. CASE \E w \in Wagers : MemberStep(w)
  BY <1>0, <1>3, HandStep DEF MemberStep, matchVars
<1>4. CASE \E k \in Dispatchers : WorkerStep(k) \/ Crash(k)
  BY <1>0, <1>4, DeliveryStep, SettleOneStep DEF WorkerStep
<1>5. CASE \E g \in Matches : ReleaseStale(g) \/ Overrun(g)
  BY <1>0, <1>5, LeaseStep
<1>6. CASE UNCHANGED allVars
  BY <1>0, <1>6, HandStep DEF allVars, matchVars
<1>7. QED
  BY <1>1, <1>2, <1>3, <1>4, <1>5, <1>6 DEF MatchNext

(* The two invariants together.                                            *)
THEOREM MatchInvariance == MatchSpec => [](IInv /\ MatchInv)
<1>1. MatchInit => IInv /\ MatchInv
  BY InitIInv, MatchInitInv DEF MatchInit
<1>2. IInv /\ MatchInv /\ [MatchNext]_allVars => (IInv /\ MatchInv)'
  BY BookStep, NextIInv, MatchNextInv
<1>3. QED
  BY <1>1, <1>2, PTL DEF MatchSpec

-----------------------------------------------------------------------------
(* A win at a valid price never loses money, whatever the stake.           *)
LEMMA ProfitNotNegative ==
  ASSUME NEW c \in Nat, NEW o, ValidOdds(o)
  PROVE  Profit(o, c) >= 0
<1>1. o \in Int /\ Numerator(o) \in Nat /\ Denominator(o) \in Int /\ Denominator(o) > 0
  BY DEF ValidOdds, Numerator, Denominator
<1>2. c * Numerator(o) \in Nat
  BY <1>1
<1>3. (c * Numerator(o)) \div Denominator(o) >= 0 /\ (c * Numerator(o)) \div Denominator(o) \in Int
  BY <1>1, <1>2
<1>4. QED
  BY <1>3 DEF Profit

(* MatchSettlementConsumer.Handle: late, repeated and concurrent           *)
(* deliveries leave a market alone that an administrator or another        *)
(* delivery has decided, and the money of its wagers.                      *)
THEOREM DecisionsStand == MatchSpec => DecisionStands
<1>1. ASSUME TypeOK, [MatchNext]_allVars, NEW m \in MatchMarkets, market[m] \in Decided
      PROVE  /\ market'[m] = market[m] /\ outcome'[m] = outcome[m] /\ source'[m] = source[m]
             /\ \A w \in Wagers : Market(w) = m /\ state[w] # "accepted" => ledger'[w] = ledger[w]
  <2>1. [Next]_vars /\ m \in Markets
    BY <1>1, BookStep, BookAssumption
  <2>2. /\ market'[m] = market[m] /\ outcome'[m] = outcome[m]
        /\ \A w \in Wagers : Market(w) = m /\ state[w] # "accepted" => ledger'[w] = ledger[w]
    <3>1. CASE Next
      BY <3>1, <2>1, <1>1, DecidedKept
    <3>2. CASE UNCHANGED vars
      BY <3>2 DEF vars, marketVars, wagerVars
    <3>3. QED
      BY <2>1, <3>1, <3>2
  <2>3. source'[m] = source[m]
    <3>1. ASSUME NEW k \in Dispatchers, NEW o \in MatchMarkets, SettleOne(k, o)
          PROVE  source'[m] = source[m]
      <4>1. o # m
        BY <3>1, <1>1 DEF SettleOne, SettleMarket, Decided
      <4>2. PICK v : source' = [source EXCEPT ![o] = v]
        BY <3>1 DEF SettleOne
      <4>3. QED
        BY <4>1, <4>2
    <3>2. \/ UNCHANGED source
          \/ \E k \in Dispatchers, o \in MatchMarkets : SettleOne(k, o)
      BY <1>1 DEF MatchNext, WorkerStep, allVars, matchVars, CreateMarket, AdminMarketStep,
         RecordAdminResult, MemberStep, Deliver, CloseFirst, SkipOne, HandleFailure, Return, Crash,
         ReleaseStale, Overrun
    <3>3. QED
      BY <3>1, <3>2
  <2>4. QED
    BY <2>2, <2>3
<1>2. TypeOK /\ [MatchNext]_allVars =>
        [\A m \in MatchMarkets : market[m] \in Decided =>
           /\ market'[m] = market[m] /\ outcome'[m] = outcome[m] /\ source'[m] = source[m]
           /\ \A w \in Wagers : Market(w) = m /\ state[w] # "accepted" =>
                ledger'[w] = ledger[w]]_allVars
  BY <1>1
<1>3. IInv => TypeOK
  BY DEF IInv
<1>4. QED
  BY <1>2, <1>3, BookInvariance, PTL DEF MatchSpec, DecisionStands

(* buildMatchOutcome and settleWith together: a wager the consumer graded  *)
(* was paid what the verified result of its match says of the side it      *)
(* backed, for any stake, price, reduction and order of deliveries.        *)
THEOREM ConsumerCorrect == MatchSpec => []ConsumerPaysTheResult
<1>1. ASSUME IInv, MatchInv, NEW w \in Wagers, state[w] = "settled", source[Market(w)] # "none",
             Market(w) \in MatchMarkets
      PROVE  LET key     == KeyOf[Market(w)][Request[w].side]
                 verdict == source[Market(w)]
                 offered == \E s \in Sides : KeyOf[Market(w)][s] = verdict
                 paid    == ledger[w].paid
                 riding  == ledger[w].released
             IN  /\ key = verdict => paid >= riding /\ (ledger[w].reduced = 0 => paid > riding)
                 /\ verdict = "tie" /\ ~ offered => paid = riding
                 /\ key # verdict /\ (offered \/ verdict # "tie") => paid = 0
  <2> DEFINE m == Market(w)
             side == Request[w].side
             odds == Request[w].odds
             lines == Lines(outcome[m][side], stake[w], odds, 1)
  <2>r. /\ side \in Sides /\ Request[w].stake \in Nat /\ ValidOdds(odds)
        /\ stake[w] \in Nat \ {0} /\ ledger[w] \in LedgerEntry
    BY <1>1, BookAssumption DEF Requests, IInv, TypeOK
  <2>1. /\ market[m] = "settled" /\ m \notin LegacyMarkets
        /\ outcome[m] = MatchOutcome(m, source[m]) /\ divisor[m] = 1
    BY <1>1 DEF MatchInv, Sourced
  <2>2. PaidByOutcome(w)
    BY <1>1 DEF MatchInv, WagerHistory, IInv, PaidAsGraded
  <2>3. ledger[w].paid = lines.user /\ ledger[w].house = lines.house
    BY <2>1, <2>2 DEF PaidByOutcome
  <2>4. ledger[w].released = ledger[w].paid + ledger[w].house
    BY <1>1 DEF IInv, WagerInv, Released
  <2>5. ledger[w].paid \in Int /\ ledger[w].house \in Int
    BY <2>r DEF LedgerEntry
  <2>w. WinningStake(stake[w], 1) = stake[w] /\ WinProfit(stake[w], odds, 1) = Profit(odds, stake[w])
    BY <2>r DEF WinningStake, WinProfit
  <2>p. Profit(odds, stake[w]) \in Int /\ Profit(odds, stake[w]) >= 0
    BY <2>r, ProfitType, ProfitNotNegative
  <2>6. w \notin LegacyWagers
    BY <2>1, BookAssumption DEF Market
  <2>7. ledger[w].reduced = 0 => Profit(odds, stake[w]) >= 1
    BY <1>1, <2>6, <2>r DEF MatchInv, WagerHistory
  <2>8. CASE outcome[m][side] = "win"
    <3>1. ledger[w].house = -Profit(odds, stake[w])
      BY <2>8, <2>3, <2>w, <2>r, <2>p DEF Lines
    <3>2. ledger[w].paid >= ledger[w].released
          /\ (ledger[w].reduced = 0 => ledger[w].paid > ledger[w].released)
      BY <3>1, <2>4, <2>5, <2>7, <2>p
    <3>3. KeyOf[m][side] = source[m]
      BY <2>1, <2>8, <2>r DEF MatchOutcome
    <3>4. QED
      BY <3>2, <3>3, <2>r
  <2>9. CASE outcome[m][side] = "push"
    <3>1. ledger[w].house = 0
      BY <2>9, <2>3 DEF Lines
    <3>2. ledger[w].paid = ledger[w].released
      BY <3>1, <2>4, <2>5
    <3>3. source[m] = "tie" /\ \A s \in Sides : KeyOf[m][s] # "tie"
      BY <2>1, <2>9, <2>r DEF MatchOutcome
    <3>4. QED
      BY <3>2, <3>3, <2>r
  <2>10. CASE outcome[m][side] = "loss"
    <3>1. ledger[w].paid = 0
      BY <2>10, <2>3 DEF Lines
    <3>2. KeyOf[m][side] # source[m]
          /\ ~ (source[m] = "tie" /\ \A s \in Sides : KeyOf[m][s] # "tie")
      BY <2>1, <2>10, <2>r DEF MatchOutcome
    <3>3. QED
      BY <3>1, <3>2, <2>r
  <2>11. outcome[m][side] \in {"win", "loss", "push"}
    BY <2>1, <2>r DEF MatchOutcome
  <2>12. QED
    BY <2>8, <2>9, <2>10, <2>11
<1>2. IInv /\ MatchInv => ConsumerPaysTheResult
  BY <1>1 DEF ConsumerPaysTheResult, MatchInv, Sourced
<1>3. QED
  BY <1>2, MatchInvariance, PTL

-----------------------------------------------------------------------------
(* The arithmetic of the price: Grading *)

(* A valid price: its fraction, and what a division by it leaves.          *)
LEMMA PriceFraction ==
  ASSUME NEW o, ValidOdds(o)
  PROVE  /\ Numerator(o) \in Nat /\ Numerator(o) >= 100
         /\ Denominator(o) \in Nat /\ Denominator(o) >= 100
BY DEF ValidOdds, Numerator, Denominator

(* Rounding a division by d to the nearest, halves up: twice the dividend  *)
(* lies within d of twice the rounded quotient times d.                    *)
LEMMA RoundedNearest ==
  ASSUME NEW x \in Nat, NEW d \in Nat, d >= 100, NEW p,
         p = x \div d + (IF x % d >= (d + 1) \div 2 THEN 1 ELSE 0)
  PROVE  /\ p \in Nat
         /\ (2 * p - 1) * d <= 2 * x
         /\ 2 * x < (2 * p + 1) * d
<1>1. PICK q : q = x \div d
  OBVIOUS
<1>2. PICK r : r = x % d
  OBVIOUS
<1>3. q \in Nat /\ r \in 0 .. (d - 1) /\ x = d * q + r
  BY <1>1, <1>2
<1>4. PICK h : h = (d + 1) \div 2
  OBVIOUS
<1>5. h \in Nat /\ 2 * h <= d + 1 /\ d <= 2 * h
  BY <1>4
<1>6. PICK t : t = d * q
  OBVIOUS
<1>7. t \in Nat /\ x = t + r
  BY <1>3, <1>6
<1>8. CASE r >= h
  <2>1. p = q + 1
    BY <1>1, <1>2, <1>4, <1>8
  <2>2. (2 * p - 1) * d = 2 * t + d /\ (2 * p + 1) * d = 2 * t + 3 * d
    BY <1>3, <1>6, <2>1
  <2>3. d <= 2 * r /\ 2 * r < 3 * d
    BY <1>3, <1>5, <1>8
  <2>4. QED
    BY <1>3, <1>7, <2>1, <2>2, <2>3
<1>9. CASE r < h
  <2>0. q \in Int /\ r \in Int /\ h \in Int
    BY <1>3, <1>5
  <2>1. p = q
    <3>1. ~ (r >= h)
      BY <1>9, <2>0
    <3>2. p = q + 0
      BY <1>1, <1>2, <1>4, <3>1
    <3>3. QED
      BY <2>0, <3>2
  <2>2. (2 * q - 1) * d = 2 * t - d /\ (2 * q + 1) * d = 2 * t + d
    <3>1. (2 * q - 1) * d = 2 * (d * q) - d
      BY <1>3
    <3>2. (2 * q + 1) * d = 2 * (d * q) + d
      BY <1>3
    <3>3. QED
      BY <1>6, <3>1, <3>2
  <2>3. 2 * r < d
    BY <1>3, <1>5, <1>9
  <2>4. QED
    BY <1>3, <1>7, <2>1, <2>2, <2>3
<1>10. QED
  BY <1>3, <1>5, <1>8, <1>9

(* AmericanOdds.Profit rounds to the nearest cent, for any stake.          *)
LEMMA ProfitNearest ==
  ASSUME NEW o, ValidOdds(o), NEW c \in Nat
  PROVE  Profit(o, c) \in Nat /\ IsNearestCent(o, c, Profit(o, c))
<1>1. PICK x : x = c * Numerator(o)
  OBVIOUS
<1>2. PICK d : d = Denominator(o)
  OBVIOUS
<1>3. PICK p : p = Profit(o, c)
  OBVIOUS
<1>4. x \in Nat /\ d \in Nat /\ d >= 100 /\ Numerator(o) \in Nat
  BY <1>1, <1>2, PriceFraction
<1>5. p = x \div d + (IF x % d >= (d + 1) \div 2 THEN 1 ELSE 0)
  BY <1>1, <1>2, <1>3 DEF Profit
<1>6. p \in Nat /\ (2 * p - 1) * d <= 2 * x /\ 2 * x < (2 * p + 1) * d
  BY <1>4, <1>5, RoundedNearest
<1>7. 2 * c * Numerator(o) = 2 * x
  BY <1>1, <1>4
<1>8. QED
  BY <1>2, <1>3, <1>6, <1>7 DEF IsNearestCent

(* The guard of Profit: what passes it fits in the integer width.          *)
LEMMA GuardFits ==
  ASSUME NEW o, ValidOdds(o), NEW c \in Nat, ~ ProfitOverflows(o, c)
  PROVE  c * Numerator(o) <= MaxInt /\ c + Profit(o, c) <= MaxInt
<1>1. PICK a : a = Numerator(o)
  OBVIOUS
<1>2. PICK d : d = Denominator(o)
  OBVIOUS
<1>3. PICK p : p = Profit(o, c)
  OBVIOUS
<1>4. a \in Nat /\ a >= 100 /\ d \in Nat /\ d >= 100 /\ p \in Nat
  BY <1>1, <1>2, <1>3, PriceFraction, ProfitNearest
<1>5. PICK k : k = MaxInt \div a
  OBVIOUS
<1>6. k \in Nat /\ a * k <= MaxInt /\ c <= k
  BY <1>1, <1>4, <1>5, MaxIntAssumption DEF ProfitOverflows
<1>7. c * a <= MaxInt
  <2>1. c * a <= k * a
    BY <1>4, <1>6
  <2>2. k * a = a * k
    BY <1>4, <1>6
  <2>3. c * a \in Int /\ k * a \in Int
    BY <1>4, <1>6
  <2>4. QED
    BY <1>6, <2>1, <2>2, <2>3, MaxIntAssumption
<1>8. c * 100 <= MaxInt
  <2>1. c * 100 <= c * a
    BY <1>4
  <2>2. c * a \in Int
    BY <1>4
  <2>3. QED
    BY <1>7, <2>1, <2>2, MaxIntAssumption
<1>9. (2 * p - 1) * d <= 2 * MaxInt
  <2>1. (2 * p - 1) * d <= 2 * c * a
    BY <1>1, <1>2, <1>3, ProfitNearest DEF IsNearestCent
  <2>2. 2 * c * a = 2 * (c * a) /\ c * a \in Int /\ (2 * p - 1) * d \in Int
    BY <1>4
  <2>3. QED
    BY <1>7, <2>1, <2>2, MaxIntAssumption
<1>10. (2 * p - 1) * 100 <= 2 * MaxInt
  <2>1. CASE p = 0
    BY <2>1, MaxIntAssumption
  <2>2. CASE p # 0
    <3>1. 2 * p - 1 \in Nat
      BY <1>4, <2>2
    <3>2. (2 * p - 1) * 100 <= (2 * p - 1) * d
      BY <1>4, <3>1
    <3>3. (2 * p - 1) * d \in Int
      BY <1>4, <3>1
    <3>4. QED
      BY <1>4, <1>9, <3>2, <3>3, MaxIntAssumption
  <2>3. QED
    BY <2>1, <2>2
<1>11. c + p <= MaxInt
  BY <1>4, <1>8, <1>10, MaxIntAssumption
<1>12. QED
  BY <1>1, <1>3, <1>7, <1>11

(* AmericanOdds.Profit and Return, for every valid price, every stake and  *)
(* every integer width of four digits or more: the profit is the nearest   *)
(* cent, and what passed the guard fits.                                   *)
THEOREM ProfitCorrect == ProfitIsNearestCent /\ GuardedProfitFits /\ ProfitExact
<1>1. ProfitIsNearestCent
  BY ProfitNearest, GradingAssumption DEF ProfitIsNearestCent, Stakes
<1>2. GuardedProfitFits
  BY GuardFits, GradingAssumption DEF GuardedProfitFits, Stakes
<1>3. QED
  BY <1>1, <1>2 DEF ProfitExact

(* settleWager: a grading of a wager with a stake makes at least two       *)
(* postings, none of them zero, that sum to zero.                          *)
LEMMA GradingLegal ==
  ASSUME NEW o, ValidOdds(o), NEW c \in Nat \ {0}, NEW n \in Nat \ {0}, NEW result \in Results
  PROVE  LegalPostings(result, c, o, n)
<1>1. PICK w : w = WinningStake(c, n)
  OBVIOUS
<1>2. PICK g : g = WinProfit(c, o, n)
  OBVIOUS
<1>3. w \in Nat /\ g \in Nat
  BY <1>1, <1>2, ProfitNearest DEF WinningStake, WinProfit
<1>4. PICK lines : lines = Lines(result, c, o, n)
  OBVIOUS
<1>5. PICK posted : posted = Posted(result, c, o, n)
  OBVIOUS
<1>6. /\ lines.escrow \in Int /\ lines.house \in Int /\ lines.user \in Int
      /\ lines.escrow = -c /\ lines.escrow + lines.house + lines.user = 0
  <2>1. CASE result = "win"
    BY <1>1, <1>2, <1>3, <1>4, <2>1 DEF Lines
  <2>2. CASE result # "win"
    BY <1>4, <2>2 DEF Lines
  <2>3. QED
    BY <2>1, <2>2
<1>7. /\ posted \subseteq {"escrow", "house", "user"} /\ "escrow" \in posted
      /\ \A x \in {"house", "user"} : x \in posted <=> lines[x] # 0
  <2>1. CASE result = "win"
    BY <1>4, <1>5, <2>1 DEF Posted
  <2>2. CASE result # "win"
    <3>1. CASE result = "loss"
      BY <1>4, <1>5, <2>2, <3>1 DEF Posted, Lines
    <3>2. CASE result # "loss"
      BY <1>4, <1>5, <2>2, <3>2 DEF Posted, Lines
    <3>3. QED
      BY <3>1, <3>2
  <2>3. QED
    BY <2>1, <2>2
<1>8. lines["escrow"] = lines.escrow /\ lines["house"] = lines.house /\ lines["user"] = lines.user
  OBVIOUS
<1>9. PICK y \in {"house", "user"} : y \in posted
  BY <1>6, <1>7, <1>8
<1>10. Cardinality(posted) >= 2
  <2>1. IsFiniteSet({"escrow"}) /\ Cardinality({"escrow"}) = 1
    BY FS_Singleton
  <2>2. IsFiniteSet({"escrow"} \cup {"house"})
    BY <2>1, FS_AddElement
  <2>3. IsFiniteSet(({"escrow"} \cup {"house"}) \cup {"user"})
    BY <2>2, FS_AddElement
  <2>4. IsFiniteSet(posted)
    <3>1. PICK S : S = ({"escrow"} \cup {"house"}) \cup {"user"}
      OBVIOUS
    <3>2. IsFiniteSet(S) /\ posted \in SUBSET S
      BY <1>7, <2>3, <3>1
    <3>3. QED
      BY <3>2, FS_Subset
  <2>5. Cardinality({"escrow"} \cup {y}) = 2
    <3>1. y \notin {"escrow"}
      BY <1>9
    <3>2. QED
      BY <2>1, <3>1, FS_AddElement
  <2>6. Cardinality({"escrow"} \cup {y}) <= Cardinality(posted)
    <3>1. {"escrow"} \cup {y} \in SUBSET posted
      BY <1>7, <1>9
    <3>2. QED
      BY <2>4, <3>1, FS_Subset
  <2>7. Cardinality(posted) \in Nat
    BY <2>4, FS_CardinalityType
  <2>8. QED
    BY <2>5, <2>6, <2>7
<1>11. \A a \in posted : lines[a] # 0
  BY <1>6, <1>7, <1>8
<1> DEFINE amount(a) == IF a \in posted THEN lines[a] ELSE 0
<1>12. amount("user") = lines.user /\ amount("escrow") = lines.escrow /\ amount("house") = lines.house
  BY <1>7, <1>8
<1>13. amount("user") + amount("escrow") + amount("house") = 0
  BY <1>6, <1>12
<1>14. QED
  BY <1>4, <1>5, <1>10, <1>11, <1>13 DEF LegalPostings

(* deadHeatSplit: n parts of a stake, each rounded on its own, win no more *)
(* than the whole, beyond half a cent for each and for the whole.          *)
LEMMA PartsShareProfit ==
  ASSUME NEW o, ValidOdds(o), NEW c \in Nat, NEW n \in Nat \ {0}, NEW w \in Nat, n * w <= c
  PROVE  2 * (n * Profit(o, w)) <= 2 * Profit(o, c) + n + 1
<1>1. PICK a : a = Numerator(o)
  OBVIOUS
<1>2. PICK d : d = Denominator(o)
  OBVIOUS
<1>3. PICK p : p = Profit(o, w)
  OBVIOUS
<1>4. PICK g : g = Profit(o, c)
  OBVIOUS
<1>5. a \in Nat /\ d \in Nat /\ d >= 100 /\ p \in Nat /\ g \in Nat
  BY <1>1, <1>2, <1>3, <1>4, PriceFraction, ProfitNearest
<1>6. (2 * p - 1) * d <= 2 * w * a
  BY <1>1, <1>2, <1>3, ProfitNearest DEF IsNearestCent
<1>7. 2 * c * a < (2 * g + 1) * d
  BY <1>1, <1>2, <1>4, ProfitNearest DEF IsNearestCent
<1>8. n * ((2 * p - 1) * d) <= n * (2 * w * a)
  <2>1. (2 * p - 1) * d \in Int /\ 2 * w * a \in Int
    BY <1>5
  <2>2. PICK x \in Int : x = (2 * p - 1) * d
    BY <2>1
  <2>3. PICK y \in Int : y = 2 * w * a
    BY <2>1
  <2>4. n * x <= n * y
    BY <1>6, <2>2, <2>3
  <2>5. QED
    BY <2>2, <2>3, <2>4
<1>9. n * (2 * w * a) <= 2 * c * a
  <2>1. PICK x \in Nat : x = n * w
    OBVIOUS
  <2>2. x * a <= c * a
    BY <1>5, <2>1
  <2>3. n * (2 * w * a) = 2 * (x * a)
    BY <1>5, <2>1
  <2>4. 2 * c * a = 2 * (c * a) /\ x * a \in Int /\ c * a \in Int
    BY <1>5, <2>1
  <2>5. QED
    BY <2>2, <2>3, <2>4
<1>10. n * ((2 * p - 1) * d) < (2 * g + 1) * d
  <2>1. n * ((2 * p - 1) * d) \in Int /\ n * (2 * w * a) \in Int /\ 2 * c * a \in Int
        /\ (2 * g + 1) * d \in Int
    BY <1>5
  <2>2. QED
    BY <1>7, <1>8, <1>9, <2>1
<1>11. PICK x \in Int : x = n * (2 * p - 1)
  BY <1>5
<1>12. PICK y \in Int : y = 2 * g + 1
  BY <1>5
<1>13. x * d < y * d
  <2>1. n * ((2 * p - 1) * d) = x * d
    BY <1>5, <1>11
  <2>2. QED
    BY <1>10, <1>12, <2>1
<1>14. x < y
  BY <1>5, <1>13
<1>15. x = 2 * (n * p) - n
  BY <1>5, <1>11
<1>16. n * p \in Int
  BY <1>5
<1>17. 2 * (n * p) <= 2 * g + n + 1
  BY <1>5, <1>12, <1>14, <1>15, <1>16
<1>18. QED
  BY <1>3, <1>4, <1>17

(* Tied winners are together paid what one outright winner would be.       *)
LEMMA TiedShare ==
  ASSUME NEW o, ValidOdds(o), NEW c \in Nat \ {0}, NEW n \in Nat \ {0}
  PROVE  2 * n * Lines("win", c, o, n).user <= 2 * Lines("win", c, o, 1).user + n + 1
<1>1. PICK w : w = c \div n
  OBVIOUS
<1>2. w \in Nat /\ n * w <= c
  BY <1>1
<1>3. PICK g : g = Profit(o, c)
  OBVIOUS
<1>4. PICK p : p = WinProfit(c, o, n)
  OBVIOUS
<1>5. g \in Nat /\ p \in Nat /\ 2 * (n * p) <= 2 * g + n + 1
  <2>1. g \in Nat /\ Profit(o, w) \in Nat
    BY <1>2, <1>3, ProfitNearest
  <2>2. CASE w = 0
    <3>1. p = 0
      BY <1>1, <1>4, <2>2 DEF WinProfit, WinningStake
    <3>2. QED
      BY <2>1, <3>1
  <2>3. CASE w # 0
    <3>1. p = Profit(o, w)
      BY <1>1, <1>4, <2>3 DEF WinProfit, WinningStake
    <3>2. QED
      BY <1>2, <1>3, <2>1, <3>1, PartsShareProfit
  <2>4. QED
    BY <2>2, <2>3
<1>6. Lines("win", c, o, n).user = w + p
  BY <1>1, <1>4 DEF Lines, WinningStake
<1>7. Lines("win", c, o, 1).user = c + g
  BY <1>3 DEF Lines, WinningStake, WinProfit
<1>8. 2 * n * (w + p) = 2 * (n * w) + 2 * (n * p)
  BY <1>2, <1>5
<1>9. n * w \in Int /\ n * p \in Int
  BY <1>2, <1>5
<1>10. 2 * n * (w + p) <= 2 * (c + g) + n + 1
  BY <1>2, <1>5, <1>8, <1>9
<1>11. QED
  BY <1>6, <1>7, <1>10

(* settleWager and deadHeatSplit, for every valid price, stake and number  *)
(* of tied winners: every grading can be posted, and ties cost the house   *)
(* no more than one winner, beyond the cents rounded up.                   *)
THEOREM GradingCorrect == EveryGradingPosts /\ TiedWinnersShareOnePayout /\ GradingPays
<1>1. EveryGradingPosts
  BY GradingLegal, GradingAssumption DEF EveryGradingPosts, Stakes, Divisors
<1>2. TiedWinnersShareOnePayout
  BY TiedShare, GradingAssumption DEF TiedWinnersShareOnePayout, Stakes, Divisors
<1>3. QED
  BY <1>1, <1>2 DEF GradingPays
=============================================================================
