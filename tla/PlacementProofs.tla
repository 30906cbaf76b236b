--------------------------- MODULE PlacementProofs ---------------------------
(***************************************************************************)
(* Proofs about what a member places beyond a plain wager on a market      *)
(* without limits.  Parlay: what its transactions keep true for any        *)
(* markets, parlays, legs, stakes and prices, and however settlements and  *)
(* acceptances interleave.  StakeLimits: that the limits of a market hold  *)
(* for any members, sides, limits and requests, whoever else places, is    *)
(* voided or changes a limit between two statements of a placement.        *)
(***************************************************************************)
EXTENDS Parlay, StakeLimits, SumProofs

(* A settlement transaction's own data.                                    *)
SettlementType ==
  [active : BOOLEAN, final : {"open", "settled", "voided"}, out : [Parlays -> LegResults],
   todo : SUBSET Parlays, held : SUBSET Parlays, graded : SUBSET Parlays]

Typed == ParlayTypeOK /\ settling \in [Markets -> SettlementType]

(* Row locks: an acceptance holds a pending parlay that no settlement      *)
(* holds, and no two settlements hold the same parlay.                     *)
RowLocks ==
  /\ \A p \in accepting : state[p] = "pending" /\ \A m \in Markets : p \notin settling[m].held
  /\ \A m, n \in Markets : \A p \in Parlays :
       p \in settling[m].held /\ p \in settling[n].held => m = n

(* A market without a transaction has marked and locked nothing.           *)
Idle ==
  \A m \in Markets : ~ settling[m].active =>
    /\ settling[m].todo = {} /\ settling[m].held = {} /\ settling[m].graded = {}
    /\ \A p \in Parlays : settling[m].out[p] = "none"

(* The parlays a settlement has a result for are those it still has to     *)
(* look at and those it has locked; it pays only some of the latter.       *)
Marked ==
  \A m \in Markets : \A p \in Parlays :
    /\ settling[m].out[p] # "none" <=> p \in settling[m].todo \cup settling[m].held
    /\ ~ (p \in settling[m].todo /\ p \in settling[m].held)
    /\ p \in settling[m].graded => p \in settling[m].held

(* Nobody else writes the leg a settlement has marked.                     *)
OwnLeg ==
  \A m \in Markets : \A p \in Parlays : settling[m].out[p] # "none" =>
    /\ m \in DOMAIN Legs[p]
    /\ result[p][m] = "none"
    /\ state[p] \in {"accepted", "settled"}

(* What a settlement read of a parlay it holds is still true: it pays the  *)
(* parlay exactly if the parlay is complete, and then it can.              *)
Looked ==
  \A m \in Markets : \A p \in settling[m].held :
    /\ p \in settling[m].graded <=> Complete(Seen(m, p))
    /\ p \in settling[m].graded => CanGrade(p, Seen(m, p)) /\ ledger[p].releases = 0

(* Until a parlay is accepted its legs are open; it has legs as soon as it *)
(* is quoted; until it is settled nothing is paid.                         *)
Fresh ==
  \A p \in Parlays :
    /\ state[p] \notin {"accepted", "settled"} => \A m \in DOMAIN Legs[p] : result[p][m] = "none"
    /\ state[p] # "none" => DOMAIN Legs[p] # {}
    /\ state[p] # "settled" => ledger[p].user = 0 /\ ledger[p].house = 0

(* The inductive invariant.                                                *)
PInv ==
  /\ Typed /\ RowLocks /\ Idle /\ Marked /\ OwnLeg /\ Looked /\ Fresh
  /\ StakeMovesOnce /\ LastLegSettles /\ PaidAsResolved

-----------------------------------------------------------------------------
(* Operators *)

(* Whatever a grading that can be posted pays the member and the house     *)
(* adds up to the stake.                                                   *)
LEMMA GradePaysStake ==
  ASSUME NEW p \in Parlays, NEW r, CanGrade(p, r)
  PROVE  /\ GradeParlay(p, r).user \in Int
         /\ GradeParlay(p, r).house \in Int
         /\ GradeParlay(p, r).user + GradeParlay(p, r).house = Stake[p]
<1> DEFINE profit == Profit(SurvivingPrice(p, r), Stake[p])
<1>1. Stake[p] \in Nat
  BY ParlayAssumption
<1>2. CASE Lost(r)
  <2>1. GradeParlay(p, r) = [user |-> 0, house |-> Stake[p]]
    BY <1>2 DEF GradeParlay
  <2>2. QED
    BY <1>1, <2>1
<1>3. CASE ~ Lost(r) /\ Surviving(r) = {}
  <2>1. GradeParlay(p, r) = [user |-> Stake[p], house |-> 0]
    BY <1>3 DEF GradeParlay
  <2>2. QED
    BY <1>1, <2>1
<1>4. CASE ~ Lost(r) /\ Surviving(r) # {}
  <2>1. profit \in 1 .. MaxInt
    BY <1>4 DEF CanGrade
  <2>2. GradeParlay(p, r) = [user |-> Stake[p] + profit, house |-> -profit]
    BY <1>4 DEF GradeParlay
  <2> HIDE DEF profit
  <2>3. profit \in Int
    BY <2>1, MaxIntAssumption
  <2>4. QED
    BY <1>1, <2>2, <2>3
<1>5. QED
  BY <1>2, <1>3, <1>4

(* Legs without a result leave a parlay that has legs undecided.           *)
LEMMA OpenLegs ==
  ASSUME NEW p \in Parlays, result[p] \in [DOMAIN Legs[p] -> LegResults],
         DOMAIN Legs[p] # {}, \A m \in DOMAIN Legs[p] : result[p][m] = "none"
  PROVE  ~ Complete(result[p])
BY DEF Complete, Open, Lost

(* A decided parlay stays decided, and one with a leg still open was lost  *)
(* and stays lost, when a settlement adds its result.                      *)
LEMMA SeenDecided ==
  ASSUME NEW m \in Markets, NEW p \in Parlays, Typed, m \in DOMAIN Legs[p],
         result[p][m] = "none", Complete(result[p])
  PROVE  Complete(Seen(m, p))
<1>1. result[p] \in [DOMAIN Legs[p] -> LegResults]
  BY DEF Typed, ParlayTypeOK
<1>2. Lost(result[p])
  BY <1>1 DEF Complete, Open
<1>3. PICK n \in DOMAIN result[p] : result[p][n] = "loss"
  BY <1>2 DEF Lost
<1>4. n # m
  BY <1>3
<1>5. n \in DOMAIN Seen(m, p) /\ Seen(m, p)[n] = "loss"
  BY <1>1, <1>3, <1>4 DEF Seen
<1>6. QED
  BY <1>5 DEF Complete, Lost

(* The results a settlement sees are results of the parlay's legs.         *)
LEMMA SeenType ==
  ASSUME NEW m \in Markets, NEW p \in Parlays, Typed
  PROVE  Seen(m, p) \in [DOMAIN Legs[p] -> LegResults]
BY DEF Typed, ParlayTypeOK, SettlementType, Seen

-----------------------------------------------------------------------------
(* Steps that touch neither the legs' results nor a settlement *)

(* Such a step leaves what settlements have marked and read alone, as long *)
(* as it does not take back an acceptance or touch what was paid.          *)
LEMMA ReviewKeeps ==
  ASSUME PInv, UNCHANGED <<result, settling>>,
         \A p \in Parlays : state[p] \in {"accepted", "settled"} => state'[p] = state[p],
         \A p \in Parlays : ledger'[p].releases = ledger[p].releases
  PROVE  Idle' /\ Marked' /\ OwnLeg' /\ Looked'
<1>1. Idle' /\ Marked'
  BY DEF PInv, Idle, Marked
<1>2. OwnLeg'
  BY DEF PInv, OwnLeg
<1>3. ASSUME NEW m \in Markets, NEW p \in settling[m].held
      PROVE  p \in Parlays /\ Seen(m, p)' = Seen(m, p)
  <2>1. p \in Parlays
    BY <1>3 DEF PInv, Typed, ParlayTypeOK, SettlementType
  <2>2. QED
    BY <2>1 DEF Seen
<1>4. Looked'
  BY <1>3 DEF PInv, Looked
<1>5. QED
  BY <1>1, <1>2, <1>4

(* Initially nothing has happened.                                         *)
LEMMA InitPInv == ParlayInit => PInv
<1> SUFFICES ASSUME ParlayInit PROVE PInv
  OBVIOUS
<1>1. \A m \in Markets : settling[m] = NoSettlement
  BY DEF ParlayInit
<1>2. NoSettlement \in SettlementType
  BY DEF NoSettlement, SettlementType, LegResults
<1>3. Typed
  BY <1>1, <1>2 DEF ParlayInit, Typed, ParlayTypeOK, LegResults, SettlementType
<1>4. RowLocks /\ Idle /\ Marked /\ OwnLeg /\ Looked
  BY <1>1 DEF ParlayInit, NoSettlement, RowLocks, Idle, Marked, OwnLeg, Looked
<1>5. Fresh
  BY DEF ParlayInit, Fresh
<1>6. StakeMovesOnce
  BY DEF ParlayInit, StakeMovesOnce
<1>7. LastLegSettles /\ PaidAsResolved
  BY DEF ParlayInit, LastLegSettles, PaidAsResolved
<1>8. QED
  BY <1>3, <1>4, <1>5, <1>6, <1>7 DEF PInv

(* Quoting and inserting a parlay.                                         *)
LEMMA PlacePInv ==
  ASSUME PInv, NEW p \in Parlays, QuoteParlay(p) \/ InsertParlay(p)
  PROVE  PInv'
<1> USE DEF PInv
<1>1. /\ UNCHANGED <<market, result, ledger, accepting, settling>>
      /\ state[p] \in {"none", "quoted"}
      /\ \E s \in {"quoted", "pending"} : state' = [state EXCEPT ![p] = s]
  BY DEF QuoteParlay, InsertParlay
<1>2. DOMAIN Legs[p] # {}
  <2>1. CASE QuoteParlay(p)
    BY <2>1, FS_EmptySet DEF QuoteParlay, CanPrice, MinParlayLegs, MaxParlayLegs
  <2>2. CASE InsertParlay(p)
    BY <2>2 DEF InsertParlay, Fresh
  <2>3. QED
    BY <2>1, <2>2
<1>3. Typed'
  BY <1>1 DEF Typed, ParlayTypeOK
<1>4. RowLocks'
  BY <1>1 DEF RowLocks, Typed, ParlayTypeOK
<1>5. Idle' /\ Marked' /\ OwnLeg' /\ Looked'
  <2>1. \A q \in Parlays : state[q] \in {"accepted", "settled"} => state'[q] = state[q]
    BY <1>1 DEF Typed, ParlayTypeOK
  <2>2. QED
    BY <1>1, <2>1, ReviewKeeps
<1>6. Fresh'
  BY <1>1, <1>2 DEF Fresh, Typed, ParlayTypeOK
<1>7. StakeMovesOnce'
  BY <1>1 DEF StakeMovesOnce, Typed, ParlayTypeOK
<1>8. LastLegSettles'
  BY <1>1 DEF LastLegSettles, Typed, ParlayTypeOK
<1>9. PaidAsResolved'
  BY <1>1 DEF PaidAsResolved, Typed, ParlayTypeOK
<1>10. QED
  BY <1>3, <1>4, <1>5, <1>6, <1>7, <1>8, <1>9

(* A review that locks the row, gives it up, or rejects the parlay.        *)
LEMMA ReviewPInv ==
  ASSUME PInv, NEW p \in Parlays, AcceptCheck(p) \/ AcceptFails(p) \/ RejectParlay(p)
  PROVE  PInv'
<1> USE DEF PInv
<1>1. /\ UNCHANGED <<market, result, ledger, settling>>
      /\ state[p] = "pending"
      /\ state' = state \/ state' = [state EXCEPT ![p] = "rejected"]
  BY DEF AcceptCheck, AcceptFails, RejectParlay, RowLocks
<1>2. Typed'
  BY <1>1 DEF Typed, ParlayTypeOK, AcceptCheck, AcceptFails, RejectParlay
<1>3. RowLocks'
  BY DEF RowLocks, Typed, ParlayTypeOK, AcceptCheck, AcceptFails, RejectParlay, Locked
<1>4. Idle' /\ Marked' /\ OwnLeg' /\ Looked'
  <2>1. \A q \in Parlays : state[q] \in {"accepted", "settled"} => state'[q] = state[q]
    BY <1>1 DEF Typed, ParlayTypeOK
  <2>2. QED
    BY <1>1, <2>1, ReviewKeeps
<1>5. Fresh'
  BY <1>1 DEF Fresh, Typed, ParlayTypeOK
<1>6. StakeMovesOnce'
  BY <1>1 DEF StakeMovesOnce, Typed, ParlayTypeOK
<1>7. LastLegSettles'
  BY <1>1 DEF LastLegSettles, Typed, ParlayTypeOK
<1>8. PaidAsResolved'
  BY <1>1 DEF PaidAsResolved, Typed, ParlayTypeOK
<1>9. QED
  BY <1>2, <1>3, <1>4, <1>5, <1>6, <1>7, <1>8

(* The stake of a parlay goes to escrow.                                   *)
LEMMA AcceptPInv ==
  ASSUME PInv, NEW p \in Parlays, AcceptParlay(p)
  PROVE  PInv'
<1> USE DEF PInv
<1>1. /\ UNCHANGED <<market, result, settling>>
      /\ state[p] = "pending"
      /\ state' = [state EXCEPT ![p] = "accepted"]
      /\ accepting' = accepting \ {p}
  BY DEF AcceptParlay, RowLocks
<1>2. Stake[p] \in Nat
  BY ParlayAssumption
<1>3. /\ ledger' \in [Parlays -> [accepted : Nat, releases : Nat, user : Int, house : Int]]
      /\ ledger'[p].accepted = ledger[p].accepted + Stake[p]
      /\ \A q \in Parlays : /\ q # p => ledger'[q] = ledger[q]
                            /\ ledger'[q].releases = ledger[q].releases
                            /\ ledger'[q].user = ledger[q].user
                            /\ ledger'[q].house = ledger[q].house
  BY <1>2 DEF AcceptParlay, Typed, ParlayTypeOK
<1>4. Typed'
  BY <1>1, <1>3 DEF Typed, ParlayTypeOK
<1>5. RowLocks'
  BY <1>1 DEF RowLocks, Typed, ParlayTypeOK
<1>6. Idle' /\ Marked' /\ OwnLeg' /\ Looked'
  <2>1. \A q \in Parlays : state[q] \in {"accepted", "settled"} => state'[q] = state[q]
    BY <1>1 DEF Typed, ParlayTypeOK
  <2>2. QED
    BY <1>1, <1>3, <2>1, ReviewKeeps
<1>7. Fresh'
  BY <1>1, <1>3 DEF Fresh, Typed, ParlayTypeOK
<1>8. StakeMovesOnce'
  BY <1>1, <1>2, <1>3 DEF StakeMovesOnce, Typed, ParlayTypeOK
<1>9. LastLegSettles'
  <2>1. ~ Complete(result[p])
    BY <1>1, OpenLegs DEF Fresh, Typed, ParlayTypeOK
  <2>2. QED
    BY <1>1, <2>1 DEF LastLegSettles, Typed, ParlayTypeOK
<1>10. PaidAsResolved'
  BY <1>1, <1>3 DEF PaidAsResolved, Typed, ParlayTypeOK
<1>11. QED
  BY <1>4, <1>5, <1>6, <1>7, <1>8, <1>9, <1>10

-----------------------------------------------------------------------------
(* Settlements *)

(* A settlement that has not committed changes nothing but its own data.   *)
LEMMA UncommittedKeeps ==
  ASSUME PInv, UNCHANGED <<market, state, result, ledger, accepting>>
  PROVE  Fresh' /\ StakeMovesOnce' /\ LastLegSettles' /\ PaidAsResolved'
<1>1. Fresh' /\ StakeMovesOnce'
  BY DEF PInv, Fresh, StakeMovesOnce
<1>2. LastLegSettles'
  BY DEF PInv, LastLegSettles
<1>3. PaidAsResolved'
  BY DEF PInv, PaidAsResolved
<1>4. QED
  BY <1>1, <1>2, <1>3

(* What another settlement sees of a parlay depends on its own data and on *)
(* the committed results only.                                             *)
LEMMA OthersSee ==
  ASSUME NEW n \in Markets, NEW p \in Parlays, settling'[n] = settling[n], UNCHANGED result
  PROVE  Seen(n, p)' = Seen(n, p)
BY DEF Seen

(* A settlement starts and marks its legs.                                 *)
LEMMA ResolvePInv ==
  ASSUME PInv, NEW m \in Markets, ResolveLegs(m)
  PROVE  PInv'
<1> USE DEF PInv
<1>1. PICK final \in {"settled", "voided"}, out \in [Affected(m) -> Results] :
        settling' = [settling EXCEPT ![m] =
            [NoSettlement EXCEPT !.active = TRUE, !.final = final, !.todo = Affected(m),
               !.out = [p \in Parlays |-> IF p \in Affected(m) THEN out[p] ELSE "none"]]]
  BY DEF ResolveLegs
<1>2. UNCHANGED <<market, state, result, ledger, accepting>>
  BY DEF ResolveLegs
<1>3. /\ settling'[m].active = TRUE /\ settling'[m].final = final
      /\ settling'[m].todo = Affected(m)
      /\ settling'[m].held = {} /\ settling'[m].graded = {}
      /\ settling'[m].out = [p \in Parlays |-> IF p \in Affected(m) THEN out[p] ELSE "none"]
      /\ settling'[m] \in SettlementType
  <2> DEFINE o == [p \in Parlays |-> IF p \in Affected(m) THEN out[p] ELSE "none"]
             s == [active |-> TRUE, final |-> final, out |-> o, todo |-> Affected(m),
                   held |-> {}, graded |-> {}]
  <2>1. settling'[m] = s
    BY <1>1 DEF NoSettlement, Typed
  <2>2. o \in [Parlays -> LegResults]
    BY DEF LegResults
  <2>3. Affected(m) \in SUBSET Parlays
    BY DEF Affected
  <2> HIDE DEF o
  <2>4. s \in SettlementType
    BY <2>2, <2>3 DEF SettlementType
  <2>5. QED
    BY <2>1, <2>4 DEF o
<1>4. settling' \in [Markets -> SettlementType] /\ \A n \in Markets : n # m => settling'[n] = settling[n]
  BY <1>1, <1>3 DEF Typed
<1>5. Typed'
  BY <1>2, <1>4 DEF Typed, ParlayTypeOK, SettlementType
<1>6. RowLocks'
  BY <1>2, <1>3, <1>4 DEF RowLocks, Typed, ParlayTypeOK
<1>7. Idle'
  BY <1>3, <1>4 DEF Idle
<1>8. ASSUME NEW p \in Parlays
      PROVE  settling'[m].out[p] # "none" <=> p \in Affected(m)
  <2>1. CASE p \in Affected(m)
    <3>1. settling'[m].out[p] \in Results
      BY <1>3, <2>1
    <3>2. QED
      BY <2>1, <3>1 DEF Results
  <2>2. CASE p \notin Affected(m)
    BY <1>3, <2>2
  <2>3. QED
    BY <2>1, <2>2
<1>9. Marked'
  BY <1>3, <1>4, <1>8 DEF Marked
<1>10. OwnLeg'
  BY <1>2, <1>4, <1>8 DEF OwnLeg, Affected
<1>11. Looked'
  <2> SUFFICES ASSUME NEW n \in Markets, NEW p \in settling'[n].held
               PROVE  /\ p \in settling'[n].graded <=> Complete(Seen(n, p)')
                      /\ p \in settling'[n].graded => CanGrade(p, Seen(n, p)') /\ ledger'[p].releases = 0
    BY DEF Looked
  <2>1. n # m /\ settling'[n] = settling[n] /\ p \in settling[n].held /\ p \in Parlays
    BY <1>3, <1>4 DEF Typed, SettlementType
  <2>2. Seen(n, p)' = Seen(n, p)
    BY <1>2, <2>1, OthersSee
  <2>3. QED
    BY <1>2, <2>1, <2>2 DEF Looked
<1>12. QED
  BY <1>2, <1>5, <1>6, <1>7, <1>9, <1>10, <1>11, UncommittedKeeps

(* A settlement is rolled back.                                            *)
LEMMA AbortPInv ==
  ASSUME PInv, NEW m \in Markets, AbortSettlement(m)
  PROVE  PInv'
<1> USE DEF PInv
<1>1. UNCHANGED <<market, state, result, ledger, accepting>>
  BY DEF AbortSettlement
<1>2. settling'[m] = NoSettlement /\ \A n \in Markets : n # m => settling'[n] = settling[n]
  BY DEF AbortSettlement, Typed
<1>3. settling' \in [Markets -> SettlementType]
  <2>1. NoSettlement \in SettlementType
    BY DEF NoSettlement, SettlementType, LegResults
  <2>2. QED
    BY <2>1 DEF AbortSettlement, Typed
<1>4. Typed'
  BY <1>1, <1>3 DEF Typed, ParlayTypeOK, SettlementType
<1>5. /\ settling'[m].todo = {} /\ settling'[m].held = {} /\ settling'[m].graded = {}
      /\ \A p \in Parlays : settling'[m].out[p] = "none"
  BY <1>2 DEF NoSettlement
<1>6. RowLocks'
  BY <1>1, <1>2, <1>5 DEF RowLocks, Typed, ParlayTypeOK
<1>7. Idle'
  BY <1>2, <1>5 DEF Idle
<1>8. Marked'
  BY <1>2, <1>5 DEF Marked
<1>9. OwnLeg'
  BY <1>1, <1>2, <1>5 DEF OwnLeg
<1>10. Looked'
  <2> SUFFICES ASSUME NEW n \in Markets, NEW p \in settling'[n].held
               PROVE  /\ p \in settling'[n].graded <=> Complete(Seen(n, p)')
                      /\ p \in settling'[n].graded => CanGrade(p, Seen(n, p)') /\ ledger'[p].releases = 0
    BY DEF Looked
  <2>1. n # m /\ settling'[n] = settling[n] /\ p \in settling[n].held /\ p \in Parlays
    BY <1>2, <1>5 DEF Typed, SettlementType
  <2>2. Seen(n, p)' = Seen(n, p)
    BY <1>1, <2>1, OthersSee
  <2>3. QED
    BY <1>1, <2>1, <2>2 DEF Looked
<1>11. QED
  BY <1>1, <1>4, <1>6, <1>7, <1>8, <1>9, <1>10, UncommittedKeeps

(* A settlement locks a parlay and decides whether to pay it.              *)
LEMMA LookPInv ==
  ASSUME PInv, NEW m \in Markets, NEW p \in Parlays, SettleParlayIfComplete(m, p)
  PROVE  PInv'
<1> USE DEF PInv
<1>1. UNCHANGED <<market, state, result, ledger, accepting>>
  BY DEF SettleParlayIfComplete
<1>2. p \in settling[m].todo /\ ~ Locked(p)
  BY DEF SettleParlayIfComplete
<1>3. /\ settling'[m].active = settling[m].active /\ settling'[m].final = settling[m].final
      /\ settling'[m].out = settling[m].out
      /\ settling'[m].todo = settling[m].todo \ {p}
      /\ settling'[m].held = settling[m].held \cup {p}
      /\ settling'[m].graded = IF Complete(Seen(m, p)) THEN settling[m].graded \cup {p}
                                                       ELSE settling[m].graded
      /\ settling'[m] \in SettlementType
  <2> DEFINE t == settling[m]
             g == IF Complete(Seen(m, p)) THEN t.graded \cup {p} ELSE t.graded
             u == [t EXCEPT !.todo = t.todo \ {p}, !.held = t.held \cup {p}, !.graded = g]
  <2>1. t \in SettlementType
    BY DEF Typed
  <2>2. settling'[m] = u
    BY DEF SettleParlayIfComplete, Typed
  <2>3. g \in SUBSET Parlays
    BY <2>1 DEF SettlementType
  <2> HIDE DEF t, g
  <2>4. /\ u.active = t.active /\ u.final = t.final /\ u.out = t.out
        /\ u.todo = t.todo \ {p} /\ u.held = t.held \cup {p} /\ u.graded = g
        /\ u \in SettlementType
    BY <2>1, <2>3 DEF SettlementType
  <2>5. QED
    BY <2>2, <2>4 DEF t, g
<1>4. settling' \in [Markets -> SettlementType] /\ \A n \in Markets : n # m => settling'[n] = settling[n]
  BY <1>3 DEF SettleParlayIfComplete, Typed
<1>5. Typed'
  BY <1>1, <1>4 DEF Typed, ParlayTypeOK, SettlementType
<1>6. settling[m].active
  BY <1>2 DEF Idle
<1>7. RowLocks'
  <2>1. \A n \in Markets : settling'[n].held \subseteq settling[n].held \cup (IF n = m THEN {p} ELSE {})
    BY <1>3, <1>4
  <2>2. p \notin accepting /\ \A n \in Markets : p \notin settling[n].held
    BY <1>2 DEF Locked
  <2>3. \A q \in accepting' : state'[q] = "pending" /\ \A n \in Markets : q \notin settling'[n].held
    BY <1>1, <2>1, <2>2 DEF RowLocks
  <2>4. ASSUME NEW k \in Markets, NEW n \in Markets, NEW q \in Parlays,
               q \in settling'[k].held, q \in settling'[n].held
        PROVE  k = n
    BY <2>1, <2>2, <2>4 DEF RowLocks
  <2>5. QED
    BY <2>3, <2>4 DEF RowLocks
<1>8. Idle'
  <2>1. \A n \in Markets : settling'[n].active = settling[n].active
    BY <1>3, <1>4, Zenon
  <2>2. \A n \in Markets : ~ settling[n].active => n # m
    BY <1>6
  <2>3. QED
    <3> SUFFICES ASSUME NEW n \in Markets, ~ settling'[n].active
                 PROVE  /\ settling'[n].todo = {} /\ settling'[n].held = {} /\ settling'[n].graded = {}
                        /\ \A q \in Parlays : settling'[n].out[q] = "none"
      BY DEF Idle
    <3>1. ~ settling[n].active
      BY <2>1, Zenon
    <3>2. settling'[n] = settling[n]
      BY <1>4, <2>2, <3>1
    <3>3. QED
      BY <3>1, <3>2 DEF Idle
<1>9. p \notin settling[m].held /\ p \notin settling[m].graded
  BY <1>2 DEF Marked
<1>10. Marked'
  BY <1>2, <1>3, <1>4, <1>9 DEF Marked
<1>11. OwnLeg'
  BY <1>1, <1>3, <1>4 DEF OwnLeg
<1>12. Looked'
  <2> SUFFICES ASSUME NEW n \in Markets, NEW q \in settling'[n].held
               PROVE  /\ q \in settling'[n].graded <=> Complete(Seen(n, q)')
                      /\ q \in settling'[n].graded => CanGrade(q, Seen(n, q)') /\ ledger'[q].releases = 0
    BY DEF Looked
  <2>1. q \in Parlays
    BY <1>4 DEF SettlementType
  <2>2. Seen(n, q)' = Seen(n, q)
    BY <1>1, <1>3, <1>4, <2>1 DEF Seen
  <2>3. CASE n = m /\ q = p
    <3>1. q \in settling'[n].graded <=> Complete(Seen(n, q))
      BY <1>3, <1>9, <2>3
    <3>2. Complete(Seen(n, q)) => CanGrade(q, Seen(n, q)) /\ ledger[q].releases = 0
      BY <2>3 DEF SettleParlayIfComplete
    <3>3. QED
      BY <1>1, <2>2, <3>1, <3>2
  <2>4. CASE ~ (n = m /\ q = p)
    <3>1. q \in settling[n].held /\ (q \in settling'[n].graded <=> q \in settling[n].graded)
      BY <1>3, <1>4, <2>4
    <3>2. QED
      BY <1>1, <2>2, <3>1 DEF Looked
  <2>5. QED
    BY <2>3, <2>4
<1>13. QED
  BY <1>1, <1>5, <1>7, <1>8, <1>10, <1>11, <1>12, UncommittedKeeps

(* The settlement of a market commits: its results become visible, and the *)
(* parlays it found complete are settled and paid.                         *)
LEMMA CommitPInv ==
  ASSUME PInv, NEW m \in Markets, CommitSettlement(m)
  PROVE  PInv'
<1> USE DEF PInv
<1> DEFINE s == settling[m]
<1>1. s \in SettlementType /\ s.active /\ s.todo = {}
  BY DEF CommitSettlement, Typed
<1>2. /\ market' = [market EXCEPT ![m] = s.final]
      /\ result' = [p \in Parlays |-> IF s.out[p] = "none" THEN result[p] ELSE Seen(m, p)]
      /\ state' = [p \in Parlays |-> IF p \in s.graded THEN "settled" ELSE state[p]]
      /\ ledger' = [p \in Parlays |->
           IF p \in s.graded THEN Pay(ledger[p], GradeParlay(p, Seen(m, p))) ELSE ledger[p]]
      /\ settling' = [settling EXCEPT ![m] = NoSettlement]
      /\ accepting' = accepting
  BY DEF CommitSettlement
<1> HIDE DEF s
<1>3. settling'[m] = NoSettlement /\ \A n \in Markets : n # m => settling'[n] = settling[n]
  BY <1>2 DEF Typed
<1>4. settling' \in [Markets -> SettlementType]
  <2>1. NoSettlement \in SettlementType
    BY DEF NoSettlement, SettlementType, LegResults
  <2>2. QED
    BY <1>2, <2>1 DEF Typed
<1>5. /\ settling'[m].todo = {} /\ settling'[m].held = {} /\ settling'[m].graded = {}
      /\ \A p \in Parlays : settling'[m].out[p] = "none"
  BY <1>3 DEF NoSettlement
<1>6. ASSUME NEW p \in Parlays
      PROVE  /\ s.out[p] # "none" <=> p \in s.held
             /\ p \in s.graded => p \in s.held
  BY <1>1 DEF Marked, s
<1>7. ASSUME NEW p \in Parlays, p \in s.graded
      PROVE  /\ state[p] = "accepted" /\ state'[p] = "settled"
             /\ result'[p] = Seen(m, p) /\ Complete(Seen(m, p))
             /\ ledger'[p] \in [accepted : Nat, releases : Nat, user : Int, house : Int]
             /\ ledger'[p].accepted = Stake[p] /\ ledger'[p].releases = 1
             /\ ledger'[p].user = GradeParlay(p, Seen(m, p)).user
             /\ ledger'[p].user + ledger'[p].house = Stake[p]
  <2>1. p \in s.held /\ s.out[p] # "none"
    BY <1>6, <1>7
  <2>2. Complete(Seen(m, p)) /\ CanGrade(p, Seen(m, p)) /\ ledger[p].releases = 0
    BY <1>7, <2>1 DEF Looked, s
  <2>3. state[p] = "accepted"
    BY <2>1, <2>2 DEF OwnLeg, s, StakeMovesOnce
  <2>4. /\ ledger[p].accepted = Stake[p] /\ ledger[p].user = 0 /\ ledger[p].house = 0
    BY <2>3 DEF StakeMovesOnce, Fresh
  <2> DEFINE g == GradeParlay(p, Seen(m, p))
  <2>5. g.user \in Int /\ g.house \in Int /\ g.user + g.house = Stake[p]
    BY <2>2, GradePaysStake
  <2>6. ledger'[p] = Pay(ledger[p], g)
    BY <1>2, <1>7
  <2>7. state'[p] = "settled" /\ result'[p] = Seen(m, p)
    BY <1>2, <1>7, <2>1
  <2>8. Stake[p] \in Nat
    BY ParlayAssumption
  <2> HIDE DEF g
  <2>9. /\ ledger'[p].accepted = Stake[p] /\ ledger'[p].releases = 1
        /\ ledger'[p].user = g.user /\ ledger'[p].house = g.house
        /\ ledger'[p] \in [accepted : Nat, releases : Nat, user : Int, house : Int]
    BY <2>2, <2>4, <2>5, <2>6, <2>8 DEF Pay
  <2>10. QED
    BY <2>2, <2>3, <2>5, <2>7, <2>9 DEF g
<1>8. ASSUME NEW p \in Parlays, p \notin s.graded
      PROVE  /\ state'[p] = state[p] /\ ledger'[p] = ledger[p]
             /\ s.out[p] = "none" => result'[p] = result[p]
             /\ s.out[p] # "none" => result'[p] = Seen(m, p) /\ ~ Complete(Seen(m, p))
             /\ s.out[p] # "none" => state[p] = "accepted"
  <2>1. state'[p] = state[p] /\ ledger'[p] = ledger[p]
    BY <1>2, <1>8
  <2>2. s.out[p] = "none" => result'[p] = result[p]
    BY <1>2
  <2>3. ASSUME s.out[p] # "none"
        PROVE  /\ result'[p] = Seen(m, p) /\ ~ Complete(Seen(m, p))
               /\ state[p] = "accepted"
    <3>1. result'[p] = Seen(m, p)
      BY <1>2, <2>3
    <3>2. ~ Complete(Seen(m, p))
      BY <1>6, <1>8, <2>3 DEF Looked, s
    <3>3. m \in DOMAIN Legs[p] /\ result[p][m] = "none" /\ state[p] \in {"accepted", "settled"}
      BY <2>3 DEF OwnLeg, s
    <3>4. state[p] # "settled"
      BY <3>2, <3>3, SeenDecided DEF PaidAsResolved
    <3>5. QED
      BY <3>1, <3>2, <3>3, <3>4
  <2>4. QED
    BY <2>1, <2>2, <2>3
<1>9. Typed'
  <2>1. \A p \in Parlays : result'[p] \in [DOMAIN Legs[p] -> LegResults]
    <3>1. \A p \in Parlays : result[p] \in [DOMAIN Legs[p] -> LegResults]
      BY DEF Typed, ParlayTypeOK
    <3>2. \A p \in Parlays : Seen(m, p) \in [DOMAIN Legs[p] -> LegResults]
      BY SeenType
    <3>3. QED
      BY <1>2, <3>1, <3>2
  <2>2. ledger' \in [Parlays -> [accepted : Nat, releases : Nat, user : Int, house : Int]]
    <3>1. \A p \in Parlays : ledger'[p] \in [accepted : Nat, releases : Nat, user : Int, house : Int]
      BY <1>7, <1>8 DEF Typed, ParlayTypeOK
    <3>2. ledger' = [p \in Parlays |-> ledger'[p]]
      BY <1>2
    <3>3. QED
      BY <3>1, <3>2
  <2>3. s.final \in {"settled", "voided", "open"}
    BY <1>1 DEF SettlementType
  <2>4. market' \in [Markets -> {"open", "settled", "voided"}]
    BY <1>2, <2>3 DEF Typed, ParlayTypeOK
  <2>5. state' \in [Parlays -> {"none", "quoted", "pending", "accepted", "rejected", "settled"}]
    BY <1>2 DEF Typed, ParlayTypeOK
  <2>6. QED
    BY <1>2, <1>4, <2>1, <2>2, <2>4, <2>5 DEF Typed, ParlayTypeOK, SettlementType
<1>10. RowLocks'
  <2>1. \A p \in accepting : p \in Parlays /\ p \notin s.graded
    BY <1>6 DEF RowLocks, s, Typed, ParlayTypeOK
  <2>2. QED
    BY <1>2, <1>3, <1>5, <1>8, <2>1 DEF RowLocks
<1>11. Idle'
  BY <1>3, <1>5 DEF Idle
<1>12. Marked'
  BY <1>3, <1>5 DEF Marked
<1>13. ASSUME NEW n \in Markets, n # m, NEW p \in settling[n].held
       PROVE  /\ p \in Parlays /\ p \notin s.graded /\ s.out[p] = "none"
              /\ result'[p] = result[p] /\ ledger'[p] = ledger[p]
  <2>1. p \in Parlays
    BY <1>13 DEF Typed, SettlementType
  <2>2. p \notin s.held
    BY <1>13, <2>1 DEF RowLocks, s
  <2>3. QED
    BY <1>6, <1>8, <2>1, <2>2
<1>14. OwnLeg'
  <2> SUFFICES ASSUME NEW n \in Markets, NEW p \in Parlays, settling'[n].out[p] # "none"
               PROVE  /\ n \in DOMAIN Legs[p]
                      /\ result'[p][n] = "none"
                      /\ state'[p] \in {"accepted", "settled"}
    BY DEF OwnLeg
  <2>1. n # m /\ settling[n].out[p] # "none"
    BY <1>3, <1>5
  <2>2. n \in DOMAIN Legs[p] /\ result[p][n] = "none" /\ state[p] \in {"accepted", "settled"}
    BY <2>1 DEF OwnLeg
  <2>3. Seen(m, p)[n] = result[p][n]
    BY <2>1, <2>2 DEF Seen, Typed, ParlayTypeOK
  <2>4. QED
    BY <1>2, <2>2, <2>3
<1>15. Looked'
  <2> SUFFICES ASSUME NEW n \in Markets, NEW p \in settling'[n].held
               PROVE  /\ p \in settling'[n].graded <=> Complete(Seen(n, p)')
                      /\ p \in settling'[n].graded => CanGrade(p, Seen(n, p)') /\ ledger'[p].releases = 0
    BY DEF Looked
  <2>1. n # m /\ settling'[n] = settling[n] /\ p \in settling[n].held
    BY <1>3, <1>5
  <2>2. result'[p] = result[p] /\ ledger'[p] = ledger[p]
    BY <1>13, <2>1
  <2>3. Seen(n, p)' = Seen(n, p)
    BY <2>1, <2>2 DEF Seen
  <2>4. QED
    BY <2>1, <2>2, <2>3 DEF Looked
<1>16. Fresh'
  <2> SUFFICES ASSUME NEW p \in Parlays
               PROVE  /\ state'[p] \notin {"accepted", "settled"} =>
                           \A n \in DOMAIN Legs[p] : result'[p][n] = "none"
                      /\ state'[p] # "none" => DOMAIN Legs[p] # {}
                      /\ state'[p] # "settled" => ledger'[p].user = 0 /\ ledger'[p].house = 0
    BY DEF Fresh
  <2>1. CASE p \in s.graded
    BY <1>7, <2>1 DEF Fresh
  <2>2. CASE p \notin s.graded
    BY <1>8, <2>2 DEF Fresh
  <2>3. QED
    BY <2>1, <2>2
<1>17. StakeMovesOnce'
  <2>1. \A p \in Parlays : p \in s.graded \/ p \notin s.graded
    OBVIOUS
  <2>2. QED
    BY <1>7, <1>8, <2>1 DEF StakeMovesOnce
<1>18. LastLegSettles'
  <2> SUFFICES ASSUME NEW p \in Parlays, state'[p] = "accepted" PROVE ~ Complete(result'[p])
    BY DEF LastLegSettles
  <2>1. p \notin s.graded
    BY <1>7
  <2>2. QED
    BY <1>8, <2>1 DEF LastLegSettles
<1>19. PaidAsResolved'
  <2> SUFFICES ASSUME NEW p \in Parlays, state'[p] = "settled"
               PROVE  Complete(result'[p]) /\ ledger'[p].user = GradeParlay(p, result'[p]).user
    BY DEF PaidAsResolved
  <2>1. CASE p \in s.graded
    BY <1>7, <2>1
  <2>2. CASE p \notin s.graded
    BY <1>8, <2>2 DEF PaidAsResolved
  <2>3. QED
    BY <2>1, <2>2
<1>20. QED
  BY <1>9, <1>10, <1>11, <1>12, <1>14, <1>15, <1>16, <1>17, <1>18, <1>19

-----------------------------------------------------------------------------
(* Every step keeps the invariant.                                         *)
LEMMA NextPInv == PInv /\ [ParlayNext]_parlayVars => PInv'
<1> SUFFICES ASSUME PInv, [ParlayNext]_parlayVars PROVE PInv'
  OBVIOUS
<1>1. ASSUME NEW p \in Parlays, ParlayStep(p) PROVE PInv'
  BY <1>1, PlacePInv, ReviewPInv, AcceptPInv DEF ParlayStep
<1>2. ASSUME NEW m \in Markets, MarketStep(m) PROVE PInv'
  BY <1>2, ResolvePInv, LookPInv, CommitPInv, AbortPInv DEF MarketStep
<1>3. CASE UNCHANGED parlayVars
  <2>1. UNCHANGED <<market, state, result, ledger, accepting, settling>>
    BY <1>3 DEF parlayVars
  <2>2. Typed' /\ RowLocks'
    BY <2>1 DEF PInv, Typed, ParlayTypeOK, RowLocks
  <2>3. Idle' /\ Marked' /\ OwnLeg' /\ Looked'
    BY <2>1, ReviewKeeps
  <2>4. QED
    BY <2>1, <2>2, <2>3, UncommittedKeeps DEF PInv
<1>4. QED
  BY <1>1, <1>2, <1>3 DEF ParlayNext

(* The locks, marks and readings above hold in every reachable state.      *)
THEOREM Invariance == ParlaySpec => []PInv
BY InitPInv, NextPInv, PTL DEF ParlaySpec

(* AcceptParlay and settleParlayIfCompleteTx move the stake of a parlay in *)
(* once and out once, whatever its legs and prices are.                    *)
THEOREM MoneyCorrect == ParlaySpec => []ParlayMoneySound
<1>1. PInv => ParlayMoneySound
  BY DEF PInv, Typed, ParlayMoneySound
<1>2. QED
  BY <1>1, Invariance, PTL

(* Concurrent settlements of a parlay's markets never each leave it to the *)
(* other: the row lock of settleParlayIfCompleteTx is enough.              *)
THEOREM LastLegCorrect == ParlaySpec => []LastLegSettles
<1>1. PInv => LastLegSettles
  BY DEF PInv
<1>2. QED
  BY <1>1, Invariance, PTL

(* A parlay is paid what GradeParlay makes of the results its legs have.   *)
THEOREM PaidCorrect == ParlaySpec => []PaidAsResolved
<1>1. PInv => PaidAsResolved
  BY DEF PInv
<1>2. QED
  BY <1>1, Invariance, PTL

-----------------------------------------------------------------------------
(* Stake limits: the inductive invariant *)

(* Every limit a member had is remembered.                                 *)
LimitsGranted ==
  /\ granted \in [Users -> Nat]
  /\ \A u \in Users : autoMax[u] <= granted[u] /\ plan.auto <= granted[u]

(* A request whose member was barred from the start, and still is, has not *)
(* got past loadRestrictions.                                              *)
StoppedAtRestrictions ==
  /\ kept \subseteq Requests
  /\ \A r \in kept : step[r] = "opened" /\ Restricted(asks[r].user, asks[r].side)

(* SELECT ... FOR UPDATE OF s: one placement at a time on a side ...       *)
OneOnSide ==
  \A q, r \in Requests :
    step[q] \in Holding /\ step[r] \in Holding /\ asks[q].side = asks[r].side => q = r

(* ... so what a placement read of its side under the lock still bounds    *)
(* what is there: the limits are the same, the sums no larger.             *)
ReadUnderLock(r) ==
  LET u == asks[r].user
      s == asks[r].side
  IN  /\ step[r] \in Holding =>
           read[r].sideMax = sideMax[s] /\ read[r].totalCap = totalCap[s]
      /\ step[r] \in {"total", "insert", "commit"} => OnSide(u, s) <= read[r].side
      /\ step[r] \in {"insert", "commit"} => Total(s) <= read[r].total

(* betting.PlaceWager let the request through.                             *)
Checked(r) ==
  step[r] = "commit" =>
    /\ Within(read[r].sideMax, read[r].side, asks[r].stake)
    /\ Within(read[r].totalCap, read[r].total, asks[r].stake)

(* The unique key: one insert of a wager at a time.                        *)
OneInsert ==
  \A q, r \in Requests :
    step[q] = "commit" /\ step[r] = "commit" /\ asks[q].wager = asks[r].wager => q = r

(* What is stored under a request's key is no larger than it asked for,    *)
(* and what the handler goes on to approve is within a limit.              *)
StoredFits(r) ==
  LET row == wager[asks[r].wager]
  IN  /\ step[r] = "commit" /\ row # NoRow => row.stake <= asks[r].stake
      /\ step[r] \in {"placed", "accept"} => row # NoRow /\ row.stake <= asks[r].stake
      /\ step[r] = "accept" => asks[r].byAdmin \/ asks[r].stake <= granted[asks[r].user]

LimitsInv ==
  /\ plan \in Scenarios
  /\ TypeOK
  /\ LimitsGranted
  /\ StoppedAtRestrictions
  /\ OneOnSide
  /\ OneInsert
  /\ \A r \in Requests : ReadUnderLock(r) /\ Checked(r) /\ StoredFits(r)

-----------------------------------------------------------------------------
(* Stake limits: sums of what rides *)

(* The sums are amounts.                                                   *)
LEMMA StakesNatural ==
  ASSUME NEW W \in SUBSET Wagers, wager \in [Wagers -> Row \cup {NoRow}]
  PROVE  Stakes(W) \in Nat
<1>1. IsFiniteSet(W)
  BY StakeLimitsAssumption, FS_Subset
<1>2. [w \in W |-> wager[w].stake] \in [W -> Nat]
  BY DEF Row, NoRow
<1>3. QED
  BY <1>1, <1>2, SumNatural DEF Stakes

(* What loadStakeLimits adds up for a member and for a side.               *)
LEMMA SumsNatural ==
  ASSUME wager \in [Wagers -> Row \cup {NoRow}], NEW u, NEW s
  PROVE  OnMarket(u) \in Nat /\ OnSide(u, s) \in Nat /\ Total(s) \in Nat
BY StakesNatural DEF OnMarket, OnSide, Total, Riding

(* A step in which no stored wager grows, starts to ride, or changes hands.*)
RowShrinks(w) ==
  \/ wager'[w] = wager[w]
  \/ /\ wager[w] # NoRow /\ wager'[w] # NoRow
     /\ wager'[w].user = wager[w].user /\ wager'[w].side = wager[w].side
     /\ wager'[w].stake <= wager[w].stake
     /\ wager'[w].state \in {"pending", "accepted"} => wager[w].state \in {"pending", "accepted"}

(* Less rides after such a step: for one set of wagers ...                 *)
LEMMA StakesShrink ==
  ASSUME wager \in [Wagers -> Row \cup {NoRow}], wager' \in [Wagers -> Row \cup {NoRow}],
         NEW W \in SUBSET Wagers, NEW V \in SUBSET W,
         \A w \in V : wager'[w].stake <= wager[w].stake
  PROVE  SumFunction([w \in V |-> wager'[w].stake]) <= SumFunction([w \in W |-> wager[w].stake])
<1> DEFINE f == [w \in W |-> wager[w].stake]
           h == [w \in V |-> wager'[w].stake]
<1>1. IsFiniteSet(W)
  BY StakeLimitsAssumption, FS_Subset
<1>2. f \in [W -> Nat] /\ h \in [V -> Nat] /\ \A w \in V : h[w] <= f[w]
  BY DEF Row, NoRow
<1> HIDE DEF f, h
<1>3. SumFunction(h) <= SumFunction(f)
  BY <1>1, <1>2, SumShrinks
<1>4. QED
  BY <1>3 DEF f, h

(* ... and so on a side, for one member or for all.                        *)
LEMMA SumsShrink ==
  ASSUME wager \in [Wagers -> Row \cup {NoRow}], wager' \in [Wagers -> Row \cup {NoRow}],
         \A w \in Wagers : RowShrinks(w), NEW u, NEW s
  PROVE  OnSide(u, s)' <= OnSide(u, s) /\ Total(s)' <= Total(s)
<1>s. \A w \in Wagers : wager'[w].stake <= wager[w].stake
  BY DEF RowShrinks, Row, NoRow
<1>1. OnSide(u, s)' <= OnSide(u, s)
  <2> DEFINE W == {w \in Riding : wager[w].user = u /\ wager[w].side = s}
             V == {w \in Riding' : wager'[w].user = u /\ wager'[w].side = s}
  <2>1. W \in SUBSET Wagers /\ V \in SUBSET W
    BY DEF Riding, RowShrinks
  <2>2. /\ OnSide(u, s) = SumFunction([w \in W |-> wager[w].stake])
        /\ OnSide(u, s)' = SumFunction([w \in V |-> wager'[w].stake])
    BY DEF OnSide, Stakes
  <2>3. \A w \in V : wager'[w].stake <= wager[w].stake
    BY <1>s, <2>1
  <2> HIDE DEF W, V
  <2>4. QED
    BY <2>1, <2>2, <2>3, StakesShrink
<1>2. Total(s)' <= Total(s)
  <2> DEFINE W == {w \in Riding : wager[w].side = s}
             V == {w \in Riding' : wager'[w].side = s}
  <2>1. W \in SUBSET Wagers /\ V \in SUBSET W
    BY DEF Riding, RowShrinks
  <2>2. /\ Total(s) = SumFunction([w \in W |-> wager[w].stake])
        /\ Total(s)' = SumFunction([w \in V |-> wager'[w].stake])
    BY DEF Total, Stakes
  <2>3. \A w \in V : wager'[w].stake <= wager[w].stake
    BY <1>s, <2>1
  <2> HIDE DEF W, V
  <2>4. QED
    BY <2>1, <2>2, <2>3, StakesShrink
<1>3. QED
  BY <1>1, <1>2

(* The INSERT of a wager.                                                  *)
Inserted(x, row) ==
  /\ x \in Wagers /\ row \in Row /\ row.state = "pending"
  /\ wager[x] = NoRow
  /\ wager' = [wager EXCEPT ![x] = row]

(* An insert adds its stake to a sum that counts it, and to no other: for  *)
(* one set of wagers ...                                                   *)
LEMMA StakesGrow ==
  ASSUME wager \in [Wagers -> Row \cup {NoRow}], NEW x, NEW row, Inserted(x, row),
         NEW W \in SUBSET Wagers, x \notin W
  PROVE  /\ SumFunction([w \in W |-> wager'[w].stake]) = SumFunction([w \in W |-> wager[w].stake])
         /\ SumFunction([w \in W \cup {x} |-> wager'[w].stake])
              = SumFunction([w \in W |-> wager[w].stake]) + row.stake
<1> DEFINE f == [w \in W \cup {x} |-> wager'[w].stake]
           h == [w \in W |-> wager[w].stake]
<1>1. IsFiniteSet(W)
  BY StakeLimitsAssumption, FS_Subset
<1>2. \A w \in W : wager'[w] = wager[w]
  BY DEF Inserted
<1>3. f \in [W \cup {x} -> Int] /\ h \in [W -> Int] /\ \A y \in W : h[y] = f[y]
  BY <1>2 DEF Row, NoRow, Inserted
<1>4. f[x] = row.stake
  BY DEF Inserted
<1>5. [w \in W |-> wager'[w].stake] = h
  BY <1>2
<1> HIDE DEF f, h
<1>6. SumFunction(f) = SumFunction(h) + f[x]
  BY <1>1, <1>3, SumAdd
<1>7. SumFunction(f) = SumFunction(h) + row.stake
  BY <1>4, <1>6
<1>8. QED
  BY <1>5, <1>7 DEF f, h

(* ... and so for a member and for a side.                                 *)
LEMMA SumsGrow ==
  ASSUME wager \in [Wagers -> Row \cup {NoRow}], NEW x, NEW row, Inserted(x, row), NEW u, NEW s
  PROVE  /\ Total(s)' = IF row.side = s THEN Total(s) + row.stake ELSE Total(s)
         /\ OnSide(u, s)' = IF row.side = s /\ row.user = u
                            THEN OnSide(u, s) + row.stake ELSE OnSide(u, s)
<1>0. /\ \A w \in Wagers : wager'[w] = IF w = x THEN row ELSE wager[w]
      /\ x \in Wagers /\ wager[x].state = "none" /\ row.state = "pending"
  BY DEF Inserted, NoRow
<1>1. x \notin Riding /\ Riding' = Riding \cup {x}
  BY <1>0 DEF Riding
<1>2. Total(s)' = IF row.side = s THEN Total(s) + row.stake ELSE Total(s)
  <2> DEFINE W == {w \in Riding : wager[w].side = s}
             V == {w \in Riding' : wager'[w].side = s}
  <2>1. W \in SUBSET Wagers /\ x \notin W
    BY <1>1 DEF Riding
  <2>2. V = IF row.side = s THEN W \cup {x} ELSE W
    BY <1>0, <1>1 DEF Riding
  <2>3. /\ Total(s) = SumFunction([w \in W |-> wager[w].stake])
        /\ Total(s)' = SumFunction([w \in V |-> wager'[w].stake])
    BY DEF Total, Stakes
  <2> HIDE DEF W, V
  <2>4. /\ SumFunction([w \in W |-> wager'[w].stake]) = SumFunction([w \in W |-> wager[w].stake])
        /\ SumFunction([w \in W \cup {x} |-> wager'[w].stake])
             = SumFunction([w \in W |-> wager[w].stake]) + row.stake
    BY <2>1, StakesGrow
  <2>5. CASE row.side = s
    <3>1. V = W \cup {x}
      BY <2>2, <2>5
    <3>2. QED
      BY <2>3, <2>4, <2>5, <3>1
  <2>6. CASE ~ (row.side = s)
    <3>1. V = W
      BY <2>2, <2>6
    <3>2. QED
      BY <2>3, <2>4, <2>6, <3>1
  <2>7. QED
    BY <2>5, <2>6
<1>3. OnSide(u, s)' = IF row.side = s /\ row.user = u
                      THEN OnSide(u, s) + row.stake ELSE OnSide(u, s)
  <2> DEFINE W == {w \in Riding : wager[w].user = u /\ wager[w].side = s}
             V == {w \in Riding' : wager'[w].user = u /\ wager'[w].side = s}
  <2>1. W \in SUBSET Wagers /\ x \notin W
    BY <1>1 DEF Riding
  <2>2. V = IF row.side = s /\ row.user = u THEN W \cup {x} ELSE W
    BY <1>0, <1>1 DEF Riding
  <2>3. /\ OnSide(u, s) = SumFunction([w \in W |-> wager[w].stake])
        /\ OnSide(u, s)' = SumFunction([w \in V |-> wager'[w].stake])
    BY DEF OnSide, Stakes
  <2> HIDE DEF W, V
  <2>4. /\ SumFunction([w \in W |-> wager'[w].stake]) = SumFunction([w \in W |-> wager[w].stake])
        /\ SumFunction([w \in W \cup {x} |-> wager'[w].stake])
             = SumFunction([w \in W |-> wager[w].stake]) + row.stake
    BY <2>1, StakesGrow
  <2>5. CASE row.side = s /\ row.user = u
    <3>1. V = W \cup {x}
      BY <2>2, <2>5
    <3>2. QED
      BY <2>3, <2>4, <2>5, <3>1
  <2>6. CASE ~ (row.side = s /\ row.user = u)
    <3>1. V = W
      BY <2>2, <2>6
    <3>2. QED
      BY <2>3, <2>4, <2>6, <3>1
  <2>7. QED
    BY <2>5, <2>6
<1>4. QED
  BY <1>2, <1>3

-----------------------------------------------------------------------------
(* Stake limits: every step keeps the invariant *)

(* The requests of a scenario are well formed.                             *)
LEMMA AsksTyped ==
  ASSUME plan \in Scenarios
  PROVE  /\ \A r \in Requests : asks[r] \in Ask
         /\ \A r \in Requests : /\ asks[r].wager \in Wagers /\ asks[r].user \in Users
                                /\ asks[r].side \in Sides /\ asks[r].stake \in Nat \ {0}
         /\ plan.auto \in AutoLimits /\ plan.auto \in Nat /\ plan.limit \in Nat
<1>1. \A r \in Requests : asks[r] \in Ask
  BY StakeLimitsAssumption DEF asks, Requests
<1>2. plan.auto \in AutoLimits /\ plan.auto \in Nat /\ plan.limit \in Nat
  BY StakeLimitsAssumption
<1>3. QED
  BY <1>1, <1>2 DEF Ask

(* No request has been made, nothing rides.                                *)
LEMMA LimitsInitInv == Init => LimitsInv
<1> SUFFICES ASSUME Init PROVE LimitsInv
  OBVIOUS
<1>1. plan \in Scenarios
  BY DEF Init
<1>2. /\ \A r \in Requests : asks[r] \in Ask
      /\ plan.auto \in AutoLimits /\ plan.auto \in Nat /\ plan.limit \in Nat
  BY <1>1, AsksTyped
<1>3. TypeOK
  <2>1. marketMax \in Nat /\ sideMax \in [Sides -> Nat] /\ totalCap \in [Sides -> Nat]
    BY <1>2 DEF Init
  <2>2. autoMax \in [Users -> AutoLimits] /\ barred \subseteq Users \X (Sides \cup {Whole})
    BY <1>2 DEF Init
  <2>3. wager \in [Wagers -> Row \cup {NoRow}]
    BY DEF Init
  <2>4. step \in [Requests -> Steps] /\ read \in [Requests -> Reading]
    BY DEF Init, Steps, Reading, NothingRead
  <2>5. changes \in 0 .. MaxChanges
    BY StakeLimitsAssumption DEF Init
  <2>6. QED
    BY <2>1, <2>2, <2>3, <2>4, <2>5 DEF TypeOK, Init
<1>4. LimitsGranted
  BY <1>2 DEF LimitsGranted, Init
<1>5. \A r \in Requests : step[r] = "idle"
  BY DEF Init
<1>6. StoppedAtRestrictions /\ OneOnSide /\ OneInsert
  BY <1>5 DEF StoppedAtRestrictions, OneOnSide, OneInsert, Holding, Init
<1>7. \A r \in Requests : ReadUnderLock(r) /\ Checked(r) /\ StoredFits(r)
  BY <1>5 DEF ReadUnderLock, Checked, StoredFits, Holding
<1>8. QED
  BY <1>1, <1>3, <1>4, <1>6, <1>7 DEF LimitsInv

(* What a request knows stays true in a step that is not its own, if the   *)
(* step changes no limit of a side it holds, adds nothing to that side,    *)
(* and leaves the row under its key or makes it smaller.                   *)
LEMMA RequestKept ==
  ASSUME NEW r \in Requests, ReadUnderLock(r), Checked(r), StoredFits(r),
         NEW u, u = asks[r].user, NEW s, s = asks[r].side,
         wager \in [Wagers -> Row \cup {NoRow}], wager' \in [Wagers -> Row \cup {NoRow}],
         plan \in Scenarios, plan' = plan, step'[r] = step[r],
         read'[r] = read[r], read \in [Requests -> Reading],
         LimitsGranted, LimitsGranted', \A v \in Users : granted[v] <= granted'[v],
         step[r] \in Holding =>
           /\ sideMax'[s] = sideMax[s] /\ totalCap'[s] = totalCap[s]
           /\ OnSide(u, s)' <= OnSide(u, s) /\ Total(s)' <= Total(s),
         NEW w, w = asks[r].wager,
         step[r] \in {"commit", "placed", "accept"} => RowShrinks(w)
  PROVE  ReadUnderLock(r)' /\ Checked(r)' /\ StoredFits(r)'
<1>1. asks' = asks
  BY DEF asks
<1>2. w \in Wagers /\ u \in Users /\ s \in Sides /\ asks[r].stake \in Nat
  BY AsksTyped
<1>3. OnSide(u, s) \in Nat /\ Total(s) \in Nat
  BY SumsNatural
<1>4. OnSide(u, s)' \in Nat /\ Total(s)' \in Nat
  <2>1. /\ [x \in {y \in Riding' : wager'[y].user = u /\ wager'[y].side = s} |-> wager'[x].stake]
               \in [{y \in Riding' : wager'[y].user = u /\ wager'[y].side = s} -> Nat]
        /\ [x \in {y \in Riding' : wager'[y].side = s} |-> wager'[x].stake]
               \in [{y \in Riding' : wager'[y].side = s} -> Nat]
    BY DEF Riding, Row, NoRow
  <2>2. /\ IsFiniteSet({y \in Riding' : wager'[y].user = u /\ wager'[y].side = s})
        /\ IsFiniteSet({y \in Riding' : wager'[y].side = s})
    <3>1. /\ {y \in Riding' : wager'[y].user = u /\ wager'[y].side = s} \subseteq Wagers
          /\ {y \in Riding' : wager'[y].side = s} \subseteq Wagers
      BY DEF Riding
    <3>2. QED
      BY <3>1, StakeLimitsAssumption, FS_Subset
  <2>3. QED
    BY <2>1, <2>2, SumNatural DEF OnSide, Total, Stakes
<1>5. read[r].side \in Nat /\ read[r].total \in Nat
  BY DEF Reading
<1>6. ReadUnderLock(r)'
  <2>1. step'[r] \in Holding => read'[r].sideMax = sideMax'[s] /\ read'[r].totalCap = totalCap'[s]
    BY DEF ReadUnderLock
  <2>2. step'[r] \in {"total", "insert", "commit"} => OnSide(u, s)' <= read'[r].side
    BY <1>3, <1>4, <1>5 DEF ReadUnderLock, Holding
  <2>3. step'[r] \in {"insert", "commit"} => Total(s)' <= read'[r].total
    BY <1>3, <1>4, <1>5 DEF ReadUnderLock, Holding
  <2>4. asks'[r].user = u /\ asks'[r].side = s
    BY <1>1
  <2>5. QED
    BY <2>1, <2>2, <2>3, <2>4 DEF ReadUnderLock
<1>7. Checked(r)'
  BY <1>1 DEF Checked, Within
<1>8. StoredFits(r)'
  BY <1>1, <1>2 DEF StoredFits, RowShrinks, LimitsGranted, Row, NoRow
<1>9. QED
  BY <1>6, <1>7, <1>8

(* The same when nobody's wager changes.                                   *)
LEMMA SumsSame ==
  ASSUME wager' = wager, NEW u, NEW s
  PROVE  OnMarket(u)' = OnMarket(u) /\ OnSide(u, s)' = OnSide(u, s) /\ Total(s)' = Total(s)
BY DEF OnMarket, OnSide, Total, Stakes, Riding

(* A statement of a placement, or of the approval after it, that writes    *)
(* nothing to the tables.                                                  *)
QuietStep(r) ==
  \/ PlaceStart(r) \/ PlaceRestrictions(r) \/ PlaceLock(r)
  \/ PlaceSumMarket(r) \/ PlaceSumSide(r) \/ PlaceSumTotal(r)
  \/ PlaceInsert(r) \/ PlaceRollback(r) \/ ReadApproval(r) \/ NotApproved(r)

(* Such a statement changes the request it belongs to and no other.        *)
LEMMA QuietFrame ==
  ASSUME TypeOK, NEW r \in Requests, QuietStep(r)
  PROVE  /\ plan' = plan /\ wager' = wager /\ UNCHANGED <<board, limitVars, memberVars, changes>>
         /\ step' = [step EXCEPT ![r] = step'[r]]
         /\ read' = [read EXCEPT ![r] = read'[r]]
         /\ \A q \in Requests \ {r} : step'[q] = step[q] /\ read'[q] = read[q]
         /\ step' \in [Requests -> Steps]
<1>0. step \in [Requests -> Steps] /\ read \in [Requests -> Reading]
  BY DEF TypeOK
<1>1. plan' = plan /\ wager' = wager /\ UNCHANGED <<board, limitVars, memberVars, changes>>
  BY DEF QuietStep, PlaceStart, PlaceRestrictions, PlaceLock, PlaceSumMarket, PlaceSumSide,
         PlaceSumTotal, PlaceInsert, PlaceRollback, ReadApproval, NotApproved
<1>2. \E x \in Steps : step' = [step EXCEPT ![r] = x]
  <2>1. CASE ReadApproval(r)
    <3>1. PICK limit : Goto(r, IF asks[r].byAdmin \/ asks[r].stake <= limit THEN "accept" ELSE "done")
      BY <2>1 DEF ReadApproval
    <3>2. Goto(r, "accept") \/ Goto(r, "done")
      BY <3>1
    <3>3. QED
      BY <3>2 DEF Goto, Steps
  <2>2. CASE ~ ReadApproval(r)
    BY <2>2 DEF QuietStep, PlaceStart, PlaceRestrictions, PlaceLock, PlaceSumMarket, PlaceSumSide,
         PlaceSumTotal, PlaceInsert, PlaceRollback, NotApproved, Goto, Steps
  <2>3. QED
    BY <2>1, <2>2
<1>3. \E x : read' = [read EXCEPT ![r] = x]
  <2>1. CASE UNCHANGED read
    <3>1. read' = [read EXCEPT ![r] = read[r]]
      BY <1>0, <2>1
    <3>2. QED
      BY <3>1
  <2>2. CASE PlaceRestrictions(r)
    <3> DEFINE x == [read[r] EXCEPT !.marketMax = marketMax]
    <3>1. read' = [read EXCEPT ![r] = x]
      BY <2>2 DEF PlaceRestrictions
    <3>2. QED
      BY <3>1
  <2>3. CASE PlaceLock(r)
    <3> DEFINE x == [read[r] EXCEPT !.sideMax = sideMax[asks[r].side],
                                    !.totalCap = totalCap[asks[r].side]]
    <3>1. read' = [read EXCEPT ![r] = x]
      BY <2>3, <1>0 DEF PlaceLock, Reading
    <3>2. QED
      BY <3>1
  <2>4. CASE PlaceSumMarket(r)
    <3> DEFINE x == [read[r] EXCEPT !.market = OnMarket(asks[r].user)]
    <3>1. read' = [read EXCEPT ![r] = x]
      BY <2>4 DEF PlaceSumMarket
    <3>2. QED
      BY <3>1
  <2>5. CASE PlaceSumSide(r)
    <3> DEFINE x == [read[r] EXCEPT !.side = OnSide(asks[r].user, asks[r].side)]
    <3>1. read' = [read EXCEPT ![r] = x]
      BY <2>5 DEF PlaceSumSide
    <3>2. QED
      BY <3>1
  <2>6. CASE PlaceSumTotal(r)
    <3> DEFINE x == [read[r] EXCEPT !.total = Total(asks[r].side)]
    <3>1. read' = [read EXCEPT ![r] = x]
      BY <2>6 DEF PlaceSumTotal
    <3>2. QED
      BY <3>1
  <2>7. CASE PlaceRollback(r)
    BY <2>7 DEF PlaceRollback
  <2>8. CASE PlaceStart(r) \/ PlaceInsert(r) \/ ReadApproval(r) \/ NotApproved(r)
    <3>1. UNCHANGED read
      BY <2>8 DEF PlaceStart, PlaceInsert, ReadApproval, NotApproved
    <3>2. QED
      BY <3>1, <2>1
  <2>9. QED
    BY <2>2, <2>3, <2>4, <2>5, <2>6, <2>7, <2>8 DEF QuietStep
<1>4. QED
  BY <1>0, <1>1, <1>2, <1>3

(* What a placement has read after each of its statements.                 *)
LEMMA OwnReading ==
  ASSUME LimitsInv, NEW r \in Requests, QuietStep(r),
         NEW u, u = asks[r].user, NEW s, s = asks[r].side
  PROVE  /\ read'[r] \in Reading
         /\ step'[r] \in Holding =>
              /\ step[r] \in Holding \/ PlaceLock(r)
              /\ read'[r].sideMax = sideMax[s] /\ read'[r].totalCap = totalCap[s]
         /\ step'[r] \in {"total", "insert", "commit"} => OnSide(u, s) <= read'[r].side
         /\ step'[r] \in {"insert", "commit"} => Total(s) <= read'[r].total
         /\ step'[r] = "commit" => PlaceInsert(r) /\ read'[r] = read[r]
<1>t. /\ step \in [Requests -> Steps] /\ read \in [Requests -> Reading]
      /\ marketMax \in Nat /\ sideMax \in [Sides -> Nat] /\ totalCap \in [Sides -> Nat]
      /\ wager \in [Wagers -> Row \cup {NoRow}]
  BY DEF LimitsInv, TypeOK
<1>a. u \in Users /\ s \in Sides
  BY AsksTyped DEF LimitsInv
<1>r. ReadUnderLock(r) /\ read[r] \in Reading
  BY <1>t DEF LimitsInv
<1>n. OnMarket(u) \in Nat /\ OnSide(u, s) \in Nat /\ Total(s) \in Nat
  BY <1>t, SumsNatural
<1>1. CASE PlaceStart(r)
  <2>1. step'[r] = "opened" /\ read'[r] = read[r]
    BY <1>1, <1>t DEF PlaceStart, Goto
  <2>2. QED
    BY <2>1, <1>r DEF Holding
<1>2. CASE PlaceRestrictions(r)
  <2>1. step'[r] = "locking" /\ read'[r] = [read[r] EXCEPT !.marketMax = marketMax]
    BY <1>2, <1>t DEF PlaceRestrictions, Goto
  <2>2. QED
    BY <2>1, <1>r, <1>t DEF Holding, Reading
<1>3. CASE PlaceLock(r)
  <2>1. /\ step'[r] = "market"
        /\ read'[r] = [read[r] EXCEPT !.sideMax = sideMax[s], !.totalCap = totalCap[s]]
    BY <1>3, <1>t DEF PlaceLock, Goto, Reading
  <2>2. sideMax[s] \in Nat /\ totalCap[s] \in Nat
    BY <1>t, <1>a
  <2>3. QED
    BY <2>1, <2>2, <1>3, <1>r DEF Holding, Reading
<1>4. CASE PlaceSumMarket(r)
  <2>1. /\ step[r] = "market" /\ step'[r] = "side"
        /\ read'[r] = [read[r] EXCEPT !.market = OnMarket(u)]
    BY <1>4, <1>t DEF PlaceSumMarket, Goto
  <2>2. QED
    BY <2>1, <1>r, <1>n DEF Holding, Reading, ReadUnderLock
<1>5. CASE PlaceSumSide(r)
  <2>1. /\ step[r] = "side" /\ step'[r] = "total"
        /\ read'[r] = [read[r] EXCEPT !.side = OnSide(u, s)]
    BY <1>5, <1>t DEF PlaceSumSide, Goto
  <2>2. QED
    BY <2>1, <1>r, <1>n DEF Holding, Reading, ReadUnderLock
<1>6. CASE PlaceSumTotal(r)
  <2>1. /\ step[r] = "total" /\ step'[r] = "insert"
        /\ read'[r] = [read[r] EXCEPT !.total = Total(s)]
    BY <1>6, <1>t DEF PlaceSumTotal, Goto
  <2>2. QED
    BY <2>1, <1>r, <1>n DEF Holding, Reading, ReadUnderLock
<1>7. CASE PlaceInsert(r)
  <2>1. step[r] = "insert" /\ step'[r] = "commit" /\ read'[r] = read[r]
    BY <1>7, <1>t DEF PlaceInsert, Goto
  <2>2. QED
    BY <2>1, <1>7, <1>r DEF Holding, ReadUnderLock
<1>8. CASE PlaceRollback(r)
  <2>1. step'[r] = "idle" /\ read'[r] = NothingRead
    BY <1>8, <1>t DEF PlaceRollback, Goto
  <2>2. QED
    BY <2>1 DEF Holding, Reading, NothingRead
<1>9. CASE ReadApproval(r) \/ NotApproved(r)
  <2>1. step'[r] \in {"accept", "done"} /\ read'[r] = read[r]
    <3>1. CASE NotApproved(r)
      BY <3>1, <1>t DEF NotApproved, Goto
    <3>2. CASE ReadApproval(r)
      <4>1. PICK limit : Goto(r, IF asks[r].byAdmin \/ asks[r].stake <= limit THEN "accept" ELSE "done")
        BY <3>2 DEF ReadApproval
      <4>2. Goto(r, "accept") \/ Goto(r, "done")
        BY <4>1
      <4>3. QED
        BY <3>2, <4>2, <1>t DEF ReadApproval, Goto
    <3>3. QED
      BY <1>9, <3>1, <3>2
  <2>2. QED
    BY <2>1, <1>r DEF Holding
<1>10. QED
  BY <1>1, <1>2, <1>3, <1>4, <1>5, <1>6, <1>7, <1>8, <1>9 DEF QuietStep

(* loadRestrictions stops a request that was barred all along.             *)
LEMMA QuietRestrictions ==
  ASSUME LimitsInv, NEW r \in Requests, QuietStep(r)
  PROVE  StoppedAtRestrictions'
<1>t. step \in [Requests -> Steps]
  BY DEF LimitsInv, TypeOK
<1>f. /\ plan' = plan /\ barred' = barred
      /\ \A q \in Requests \ {r} : step'[q] = step[q]
  BY QuietFrame DEF LimitsInv, memberVars
<1>a. asks' = asks /\ Requests' = Requests
  BY <1>f DEF asks, Requests
<1>k. /\ kept \subseteq Requests
      /\ \A q \in kept : step[q] = "opened" /\ Restricted(asks[q].user, asks[q].side)
  BY DEF LimitsInv, StoppedAtRestrictions
<1>1. CASE PlaceStart(r)
  <2>1. step'[r] = "opened" /\ kept' \in {kept, kept \cup {r}}
    BY <1>1, <1>t DEF PlaceStart, Goto
  <2>2. r \in kept' /\ r \notin kept => Restricted(asks[r].user, asks[r].side)
    BY <1>1 DEF PlaceStart, Restricted
  <2>3. r \notin kept
    BY <1>1, <1>k DEF PlaceStart
  <2>4. QED
    BY <2>1, <2>2, <2>3, <1>f, <1>a, <1>k DEF StoppedAtRestrictions, Restricted
<1>2. CASE PlaceRollback(r)
  BY <1>2, <1>f, <1>a, <1>k DEF PlaceRollback, StoppedAtRestrictions, Restricted
<1>3. CASE ~ PlaceStart(r) /\ ~ PlaceRollback(r)
  <2>1. kept' = kept
    BY <1>3 DEF QuietStep, PlaceRestrictions, PlaceLock, PlaceSumMarket, PlaceSumSide,
         PlaceSumTotal, PlaceInsert, ReadApproval, NotApproved
  <2>2. r \notin kept
    BY <1>3, <1>k DEF QuietStep, PlaceRestrictions, PlaceLock, PlaceSumMarket, PlaceSumSide,
         PlaceSumTotal, PlaceInsert, ReadApproval, NotApproved
  <2>3. QED
    BY <2>1, <2>2, <1>f, <1>a, <1>k DEF StoppedAtRestrictions, Restricted
<1>4. QED
  BY <1>1, <1>2, <1>3

(* What the handler may go on to approve.                                  *)
LEMMA OwnRow ==
  ASSUME LimitsInv, NEW r \in Requests, QuietStep(r), NEW w, w = asks[r].wager
  PROVE  /\ step'[r] = "commit" /\ wager[w] # NoRow => wager[w].stake <= asks[r].stake
         /\ step'[r] \in {"placed", "accept"} => wager[w] # NoRow /\ wager[w].stake <= asks[r].stake
         /\ step'[r] = "accept" => asks[r].byAdmin \/ asks[r].stake <= granted[asks[r].user]
<1>t. step \in [Requests -> Steps] /\ wager \in [Wagers -> Row \cup {NoRow}]
  BY DEF LimitsInv, TypeOK
<1>a. w \in Wagers /\ asks[r].user \in Users /\ asks[r].stake \in Nat /\ plan.auto \in Nat
  BY AsksTyped DEF LimitsInv
<1>s. StoredFits(r)
  BY DEF LimitsInv
<1>1. CASE PlaceInsert(r)
  <2>1. step'[r] = "commit" /\ (wager[w] # NoRow => wager[w].stake = asks[r].stake)
    BY <1>1, <1>t DEF PlaceInsert, Goto, StoredMatches
  <2>2. QED
    BY <2>1, <1>a
<1>2. CASE ReadApproval(r)
  <2>1. PICK limit \in {autoMax[asks[r].user], plan.auto} :
          Goto(r, IF asks[r].byAdmin \/ asks[r].stake <= limit THEN "accept" ELSE "done")
    BY <1>2 DEF ReadApproval
  <2>2. step[r] = "placed" /\ step'[r] = IF asks[r].byAdmin \/ asks[r].stake <= limit
                                         THEN "accept" ELSE "done"
    BY <1>2, <2>1, <1>t DEF ReadApproval, Goto
  <2>3. /\ limit \in Nat /\ granted[asks[r].user] \in Nat /\ limit <= granted[asks[r].user]
    <3>1. AutoLimits \subseteq Nat /\ autoMax \in [Users -> AutoLimits] /\ LimitsGranted
      BY StakeLimitsAssumption DEF LimitsInv, TypeOK
    <3>2. QED
      BY <1>a, <3>1 DEF LimitsGranted
  <2>4. QED
    BY <2>2, <2>3, <1>a, <1>s DEF StoredFits
<1>3. CASE ~ PlaceInsert(r) /\ ~ ReadApproval(r)
  <2>1. step'[r] \in {"idle", "opened", "locking", "market", "side", "total", "insert", "done"}
    BY <1>3, <1>t DEF QuietStep, PlaceStart, PlaceRestrictions, PlaceLock, PlaceSumMarket,
         PlaceSumSide, PlaceSumTotal, PlaceRollback, NotApproved, Goto
  <2>2. QED
    BY <2>1
<1>4. QED
  BY <1>1, <1>2, <1>3

(* A quiet statement keeps the invariant.                                  *)
LEMMA QuietInv ==
  ASSUME LimitsInv, NEW r \in Requests, QuietStep(r)
  PROVE  LimitsInv'
<1>t. /\ TypeOK /\ plan \in Scenarios
      /\ step \in [Requests -> Steps] /\ read \in [Requests -> Reading]
      /\ wager \in [Wagers -> Row \cup {NoRow}]
  BY DEF LimitsInv, TypeOK
<1>f. /\ plan' = plan /\ wager' = wager /\ UNCHANGED <<board, limitVars, memberVars, changes>>
      /\ step' = [step EXCEPT ![r] = step'[r]]
      /\ read' = [read EXCEPT ![r] = read'[r]]
      /\ \A q \in Requests \ {r} : step'[q] = step[q] /\ read'[q] = read[q]
      /\ step' \in [Requests -> Steps]
  BY <1>t, QuietFrame
<1>a. asks' = asks /\ Requests' = Requests
  BY <1>f DEF asks, Requests
<1>u. /\ sideMax' = sideMax /\ totalCap' = totalCap /\ granted' = granted /\ autoMax' = autoMax
  BY <1>f DEF limitVars, memberVars
<1> DEFINE u == asks[r].user
           s == asks[r].side
<1>o. /\ read'[r] \in Reading
      /\ step'[r] \in Holding =>
           /\ step[r] \in Holding \/ PlaceLock(r)
           /\ read'[r].sideMax = sideMax[s] /\ read'[r].totalCap = totalCap[s]
      /\ step'[r] \in {"total", "insert", "commit"} => OnSide(u, s) <= read'[r].side
      /\ step'[r] \in {"insert", "commit"} => Total(s) <= read'[r].total
      /\ step'[r] = "commit" => PlaceInsert(r) /\ read'[r] = read[r]
  BY OwnReading
<1>1. TypeOK'
  <2>1. read' \in [Requests -> Reading]
    BY <1>f, <1>o, <1>t
  <2>2. QED
    BY <1>f, <1>a, <1>t, <2>1 DEF TypeOK, limitVars, memberVars
<1>2. LimitsGranted /\ LimitsGranted'
  BY <1>f, <1>u DEF LimitsInv, LimitsGranted
<1>3. StoppedAtRestrictions'
  BY QuietRestrictions
<1>4. OneOnSide'
  <2>1. ASSUME NEW q \in Requests \ {r}, step[q] \in Holding, step'[r] \in Holding,
               asks[q].side = asks[r].side
        PROVE  FALSE
    <3>1. CASE step[r] \in Holding
      BY <2>1, <3>1 DEF LimitsInv, OneOnSide
    <3>2. CASE PlaceLock(r)
      BY <2>1, <3>2 DEF PlaceLock, SideLocked
    <3>3. QED
      BY <2>1, <3>1, <3>2, <1>o
  <2>2. QED
    BY <2>1, <1>f, <1>a DEF LimitsInv, OneOnSide
<1>5. OneInsert'
  <2>1. ASSUME NEW q \in Requests \ {r}, step[q] = "commit", step'[r] = "commit",
               asks[q].wager = asks[r].wager
        PROVE  FALSE
    BY <2>1, <1>o DEF PlaceInsert
  <2>2. QED
    BY <2>1, <1>f, <1>a DEF LimitsInv, OneInsert
<1>6. ASSUME NEW q \in Requests PROVE ReadUnderLock(q)' /\ Checked(q)' /\ StoredFits(q)'
  <2>1. CASE q = r
    <3>1. PICK c, d, w : c = asks[r].user /\ d = asks[r].side /\ w = asks[r].wager
      OBVIOUS
    <3>2. OnSide(c, d)' = OnSide(c, d) /\ Total(d)' = Total(d)
      BY <1>f, SumsSame
    <3>3. ReadUnderLock(r)'
      <4>1. /\ step'[r] \in Holding => read'[r].sideMax = sideMax'[d] /\ read'[r].totalCap = totalCap'[d]
            /\ step'[r] \in {"total", "insert", "commit"} => OnSide(c, d)' <= read'[r].side
            /\ step'[r] \in {"insert", "commit"} => Total(d)' <= read'[r].total
        BY <1>o, <1>u, <3>1, <3>2
      <4>2. asks'[r].user = c /\ asks'[r].side = d
        BY <1>a, <3>1
      <4>3. QED
        BY <4>1, <4>2 DEF ReadUnderLock
    <3>4. Checked(r)'
      BY <1>o, <1>a DEF Checked, PlaceInsert, Within
    <3>5. StoredFits(r)'
      <4>1. /\ step'[r] = "commit" /\ wager[w] # NoRow => wager[w].stake <= asks[r].stake
            /\ step'[r] \in {"placed", "accept"} => wager[w] # NoRow /\ wager[w].stake <= asks[r].stake
            /\ step'[r] = "accept" => asks[r].byAdmin \/ asks[r].stake <= granted[asks[r].user]
        BY <3>1, OwnRow
      <4>2. asks'[r].wager = w
        BY <1>a, <3>1
      <4>3. QED
        BY <4>1, <4>2, <1>a, <1>u, <1>f DEF StoredFits
    <3>6. QED
      BY <2>1, <3>3, <3>4, <3>5
  <2>2. CASE q # r
    <3>1. PICK c, d, w : c = asks[q].user /\ d = asks[q].side /\ w = asks[q].wager
      OBVIOUS
    <3>2. OnSide(c, d)' = OnSide(c, d) /\ Total(d)' = Total(d)
      BY <1>f, SumsSame
    <3>3. OnSide(c, d) \in Nat /\ Total(d) \in Nat
      BY <1>t, SumsNatural
    <3>4. OnSide(c, d)' <= OnSide(c, d) /\ Total(d)' <= Total(d)
      BY <3>2, <3>3
    <3>5. ReadUnderLock(q) /\ Checked(q) /\ StoredFits(q)
      BY DEF LimitsInv
    <3>6. RowShrinks(w)
      BY <1>f DEF RowShrinks
    <3>7. \A v \in Users : granted[v] <= granted'[v]
      BY <1>u, <1>2 DEF LimitsGranted
    <3>8. step'[q] = step[q] /\ read'[q] = read[q] /\ wager' \in [Wagers -> Row \cup {NoRow}]
      BY <2>2, <1>f, <1>t
    <3>9. QED
      BY <1>2, <1>f, <1>t, <1>u, <3>1, <3>4, <3>5, <3>6, <3>7, <3>8, RequestKept
  <2>3. QED
    BY <2>1, <2>2
<1>7. QED
  BY <1>1, <1>2, <1>3, <1>4, <1>5, <1>6, <1>f, <1>t, <1>a DEF LimitsInv

(* The transaction of a placement commits.                                 *)
LEMMA CommitFrame ==
  ASSUME LimitsInv, NEW r \in Requests, PlaceCommit(r), NEW x, x = asks[r].wager
  PROVE  /\ plan' = plan /\ UNCHANGED <<board, limitVars, memberVars, kept, changes>>
         /\ step[r] = "commit" /\ step' = [step EXCEPT ![r] = "placed"]
         /\ read' = [read EXCEPT ![r] = NothingRead]
         /\ wager' \in [Wagers -> Row \cup {NoRow}]
         /\ \/ wager' = wager /\ wager[x] # NoRow
            \/ \E row : Inserted(x, row) /\ row.user = asks[r].user /\ row.side = asks[r].side
                                         /\ row.stake = asks[r].stake
<1>t. wager \in [Wagers -> Row \cup {NoRow}]
  BY DEF LimitsInv, TypeOK
<1>a. /\ asks[r].wager \in Wagers /\ asks[r].user \in Users /\ asks[r].side \in Sides
      /\ asks[r].stake \in Nat \ {0}
  BY AsksTyped DEF LimitsInv
<1>1. /\ plan' = plan /\ UNCHANGED <<board, limitVars, memberVars, kept, changes>>
      /\ step[r] = "commit" /\ step' = [step EXCEPT ![r] = "placed"]
      /\ read' = [read EXCEPT ![r] = NothingRead]
  BY DEF PlaceCommit, Goto
<1>2. CASE wager[x] # NoRow
  <2>1. wager' = wager
    BY <1>2 DEF PlaceCommit
  <2>2. QED
    BY <1>1, <1>2, <1>t, <2>1
<1>3. CASE wager[x] = NoRow
  <2> DEFINE row == [state |-> "pending", stake |-> asks[r].stake, user |-> asks[r].user,
                     side |-> asks[r].side]
  <2>1. wager' = [wager EXCEPT ![x] = row]
    BY <1>3 DEF PlaceCommit
  <2>2. /\ row \in Row /\ row.state = "pending" /\ row.user = asks[r].user
        /\ row.side = asks[r].side /\ row.stake = asks[r].stake
    BY <1>a DEF Row
  <2> HIDE DEF row
  <2>3. Inserted(x, row)
    BY <1>3, <1>a, <2>1, <2>2 DEF Inserted
  <2>4. wager' \in [Wagers -> Row \cup {NoRow}]
    BY <1>t, <1>a, <2>1, <2>2
  <2>5. QED
    BY <1>1, <2>2, <2>3, <2>4
<1>4. QED
  BY <1>2, <1>3

(* A commit adds to the side it holds, and to nobody else's.               *)
LEMMA CommitInv ==
  ASSUME LimitsInv, NEW r \in Requests, PlaceCommit(r)
  PROVE  LimitsInv'
<1>t. /\ TypeOK /\ plan \in Scenarios
      /\ step \in [Requests -> Steps] /\ read \in [Requests -> Reading]
      /\ wager \in [Wagers -> Row \cup {NoRow}]
  BY DEF LimitsInv, TypeOK
<1>x. PICK x : x = asks[r].wager
  OBVIOUS
<1>f. /\ plan' = plan /\ UNCHANGED <<board, limitVars, memberVars, kept, changes>>
      /\ step[r] = "commit" /\ step' = [step EXCEPT ![r] = "placed"]
      /\ read' = [read EXCEPT ![r] = NothingRead]
      /\ wager' \in [Wagers -> Row \cup {NoRow}]
      /\ \/ wager' = wager /\ wager[x] # NoRow
         \/ \E row : Inserted(x, row) /\ row.user = asks[r].user /\ row.side = asks[r].side
                                      /\ row.stake = asks[r].stake
  BY <1>x, CommitFrame
<1>a. asks' = asks /\ Requests' = Requests
  BY <1>f DEF asks, Requests
<1>u. sideMax' = sideMax /\ totalCap' = totalCap /\ granted' = granted /\ autoMax' = autoMax
  BY <1>f DEF limitVars, memberVars
<1>s. step'[r] = "placed" /\ \A q \in Requests \ {r} : step'[q] = step[q] /\ read'[q] = read[q]
  BY <1>f, <1>t
<1>1. TypeOK'
  <2>1. read' \in [Requests -> Reading] /\ step' \in [Requests -> Steps]
    BY <1>f, <1>t DEF Reading, NothingRead, Steps
  <2>2. QED
    BY <1>f, <1>a, <1>t, <2>1 DEF TypeOK, limitVars, memberVars
<1>2. LimitsGranted /\ LimitsGranted'
  BY <1>f, <1>u DEF LimitsInv, LimitsGranted
<1>3. StoppedAtRestrictions'
  <2>1. r \notin kept
    BY <1>f DEF LimitsInv, StoppedAtRestrictions
  <2>2. QED
    BY <2>1, <1>f, <1>a, <1>s DEF LimitsInv, StoppedAtRestrictions, Restricted, memberVars
<1>4. OneOnSide' /\ OneInsert'
  BY <1>s, <1>a DEF LimitsInv, OneOnSide, OneInsert, Holding
<1>5. ASSUME NEW q \in Requests PROVE ReadUnderLock(q)' /\ Checked(q)' /\ StoredFits(q)'
  <2>1. CASE q = r
    <3>1. wager'[x] # NoRow /\ wager'[x].stake <= asks[r].stake
      <4>1. CASE wager' = wager /\ wager[x] # NoRow
        BY <4>1, <1>f, <1>x DEF LimitsInv, StoredFits
      <4>2. CASE \E row : Inserted(x, row) /\ row.stake = asks[r].stake
        <5>1. PICK row : Inserted(x, row) /\ row.stake = asks[r].stake
          BY <4>2
        <5>2. x \in Wagers /\ wager'[x] = row /\ row \in Row /\ row.stake \in Nat /\ row # NoRow
          BY <5>1, <1>t DEF Inserted, Row, NoRow
        <5>3. QED
          BY <5>1, <5>2
      <4>3. QED
        BY <1>f, <4>1, <4>2
    <3>2. ReadUnderLock(r)' /\ Checked(r)'
      BY <1>s DEF ReadUnderLock, Checked, Holding
    <3>3. StoredFits(r)'
      BY <1>s, <1>a, <1>x, <3>1 DEF StoredFits
    <3>4. QED
      BY <2>1, <3>2, <3>3
  <2>2. CASE q # r
    <3>1. PICK c, d, w : c = asks[q].user /\ d = asks[q].side /\ w = asks[q].wager
      OBVIOUS
    <3>2. ReadUnderLock(q) /\ Checked(q) /\ StoredFits(q)
      BY DEF LimitsInv
    <3>3. OnSide(c, d) \in Nat /\ Total(d) \in Nat
      BY <1>t, SumsNatural
    <3>4. step[q] \in Holding => OnSide(c, d)' <= OnSide(c, d) /\ Total(d)' <= Total(d)
      <4>1. CASE wager' = wager
        <5>1. OnSide(c, d)' = OnSide(c, d) /\ Total(d)' = Total(d)
          BY <4>1, SumsSame
        <5>2. QED
          BY <5>1, <3>3
      <4>2. CASE \E row : Inserted(x, row) /\ row.side = asks[r].side
        <5>1. PICK row : Inserted(x, row) /\ row.side = asks[r].side
          BY <4>2
        <5>2. step[q] \in Holding => row.side # d
          BY <5>1, <3>1, <2>2, <1>f DEF LimitsInv, OneOnSide, Holding
        <5>3. /\ Total(d)' = IF row.side = d THEN Total(d) + row.stake ELSE Total(d)
              /\ OnSide(c, d)' = IF row.side = d /\ row.user = c
                                 THEN OnSide(c, d) + row.stake ELSE OnSide(c, d)
          BY <5>1, <1>t, SumsGrow
        <5>4. QED
          BY <5>2, <5>3, <3>3
      <4>3. QED
        BY <1>f, <4>1, <4>2
    <3>5. step[q] \in {"commit", "placed", "accept"} => RowShrinks(w)
      <4>1. CASE wager' = wager
        BY <4>1 DEF RowShrinks
      <4>2. CASE \E row : Inserted(x, row)
        <5>1. wager[x] = NoRow /\ \A y \in Wagers \ {x} : wager'[y] = wager[y]
          BY <4>2, <1>t DEF Inserted
        <5>2. step[q] \in {"commit", "placed", "accept"} => w # x
          BY <5>1, <1>x, <3>1, <3>2, <2>2, <1>f DEF LimitsInv, OneInsert, StoredFits
        <5>3. w \in Wagers
          BY <3>1, <1>t, AsksTyped
        <5>4. QED
          BY <5>1, <5>2, <5>3 DEF RowShrinks
      <4>3. QED
        BY <1>f, <4>1, <4>2
    <3>6. \A v \in Users : granted[v] <= granted'[v]
      BY <1>u, <1>2 DEF LimitsGranted
    <3>7. step'[q] = step[q] /\ read'[q] = read[q]
      BY <2>2, <1>s
    <3>8. QED
      BY <1>2, <1>f, <1>t, <1>u, <3>1, <3>2, <3>4, <3>5, <3>6, <3>7, RequestKept
  <2>3. QED
    BY <2>1, <2>2
<1>6. QED
  BY <1>1, <1>2, <1>3, <1>4, <1>5, <1>f, <1>t, <1>a DEF LimitsInv

(* Steps in which stored wagers only get smaller, and maybe an approval    *)
(* ends.                                                                   *)
LEMMA ShrinkInv ==
  ASSUME LimitsInv, wager' \in [Wagers -> Row \cup {NoRow}], \A w \in Wagers : RowShrinks(w),
         plan' = plan, UNCHANGED <<board, limitVars, memberVars, read, kept, changes>>,
         step' \in [Requests -> Steps],
         \A q \in Requests : step'[q] = step[q] \/ (step[q] = "accept" /\ step'[q] = "done")
  PROVE  LimitsInv'
<1>t. /\ TypeOK /\ plan \in Scenarios
      /\ step \in [Requests -> Steps] /\ read \in [Requests -> Reading]
      /\ wager \in [Wagers -> Row \cup {NoRow}]
  BY DEF LimitsInv, TypeOK
<1>a. asks' = asks /\ Requests' = Requests
  BY DEF asks, Requests
<1>u. sideMax' = sideMax /\ totalCap' = totalCap /\ granted' = granted /\ autoMax' = autoMax
  BY DEF limitVars, memberVars
<1>1. TypeOK'
  BY <1>a, <1>t DEF TypeOK, limitVars, memberVars
<1>2. LimitsGranted /\ LimitsGranted'
  BY <1>u DEF LimitsInv, LimitsGranted
<1>3. StoppedAtRestrictions'
  BY <1>a DEF LimitsInv, StoppedAtRestrictions, Restricted, memberVars
<1>4. OneOnSide' /\ OneInsert'
  BY <1>a DEF LimitsInv, OneOnSide, OneInsert, Holding
<1>5. ASSUME NEW q \in Requests PROVE ReadUnderLock(q)' /\ Checked(q)' /\ StoredFits(q)'
  <2>1. CASE step'[q] = "done"
    BY <2>1 DEF ReadUnderLock, Checked, StoredFits, Holding
  <2>2. CASE step'[q] = step[q]
    <3>1. PICK c, d, w : c = asks[q].user /\ d = asks[q].side /\ w = asks[q].wager
      OBVIOUS
    <3>2. ReadUnderLock(q) /\ Checked(q) /\ StoredFits(q)
      BY DEF LimitsInv
    <3>3. OnSide(c, d)' <= OnSide(c, d) /\ Total(d)' <= Total(d)
      BY <1>t, SumsShrink
    <3>4. w \in Wagers
      BY <3>1, <1>t, AsksTyped
    <3>5. RowShrinks(w)
      BY <3>4
    <3>6. \A v \in Users : granted[v] <= granted'[v]
      BY <1>u, <1>2 DEF LimitsGranted
    <3>7. read'[q] = read[q]
      OBVIOUS
    <3>8. QED
      BY <1>2, <1>t, <1>u, <2>2, <3>1, <3>2, <3>3, <3>5, <3>6, <3>7, RequestKept
  <2>3. QED
    BY <2>1, <2>2
<1>6. QED
  BY <1>1, <1>2, <1>3, <1>4, <1>5, <1>t, <1>a DEF LimitsInv

(* AcceptWager, RejectWager, VoidWager, ReduceWager and the approval after *)
(* a placement never make a wager larger or bring one back.                *)
LEMMA ManageShrinks ==
  ASSUME LimitsInv, NEW x \in Wagers,
         \/ Manage(x)
         \/ \E r \in Requests : Approve(r) /\ asks[r].wager = x
  PROVE  wager' \in [Wagers -> Row \cup {NoRow}] /\ \A w \in Wagers : RowShrinks(w)
<1>t. wager \in [Wagers -> Row \cup {NoRow}]
  BY DEF LimitsInv, TypeOK
<1>1. \/ wager' = wager
      \/ \E to \in {"accepted", "rejected", "voided"} :
           /\ wager[x].state \in {"pending", "accepted"}
           /\ wager' = [wager EXCEPT ![x].state = to]
      \/ \E n \in Nat \ {0} : /\ wager[x].state = "accepted" /\ n < wager[x].stake
                              /\ wager' = [wager EXCEPT ![x].stake = n]
  <2>1. CASE Manage(x)
    <3>1. CASE AcceptWager(x) \/ RejectWager(x) \/ VoidWager(x)
      BY <3>1 DEF AcceptWager, RejectWager, VoidWager, Review
    <3>2. CASE \E n \in 0 .. wager[x].stake : ReduceWager(x, n)
      <4>1. PICK n \in 0 .. wager[x].stake : ReduceWager(x, n)
        BY <3>2
      <4>2. wager[x].stake \in Nat
        BY <1>t DEF Row, NoRow
      <4>3. n \in Nat \ {0}
        BY <4>1, <4>2 DEF ReduceWager
      <4>4. QED
        BY <4>1, <4>3 DEF ReduceWager
    <3>3. QED
      BY <2>1, <3>1, <3>2 DEF Manage
  <2>2. CASE \E r \in Requests : Approve(r) /\ asks[r].wager = x
    BY <2>2 DEF Approve
  <2>3. QED
    BY <2>1, <2>2
<1>2. CASE wager' = wager
  BY <1>2, <1>t DEF RowShrinks
<1>3. ASSUME NEW to \in {"accepted", "rejected", "voided"}, wager[x].state \in {"pending", "accepted"},
             wager' = [wager EXCEPT ![x].state = to]
      PROVE  wager' \in [Wagers -> Row \cup {NoRow}] /\ \A w \in Wagers : RowShrinks(w)
  <2> DEFINE row == [wager[x] EXCEPT !.state = to]
  <2>1. wager[x] \in Row /\ wager[x] # NoRow
    BY <1>t, <1>3 DEF NoRow
  <2>2. /\ row \in Row /\ row # NoRow /\ row.user = wager[x].user /\ row.side = wager[x].side
        /\ row.stake = wager[x].stake /\ wager[x].stake \in Nat
    BY <2>1 DEF Row, NoRow
  <2>3. wager' = [wager EXCEPT ![x] = row]
    BY <1>3
  <2> HIDE DEF row
  <2>4. \A w \in Wagers : wager'[w] = IF w = x THEN row ELSE wager[w]
    BY <1>t, <2>3
  <2>5. QED
    BY <1>3, <1>t, <2>1, <2>2, <2>3, <2>4 DEF RowShrinks
<1>4. ASSUME NEW n \in Nat \ {0}, wager[x].state = "accepted", n < wager[x].stake,
             wager' = [wager EXCEPT ![x].stake = n]
      PROVE  wager' \in [Wagers -> Row \cup {NoRow}] /\ \A w \in Wagers : RowShrinks(w)
  <2> DEFINE row == [wager[x] EXCEPT !.stake = n]
  <2>1. wager[x] \in Row /\ wager[x] # NoRow
    BY <1>t, <1>4 DEF NoRow
  <2>2. /\ row \in Row /\ row # NoRow /\ row.user = wager[x].user /\ row.side = wager[x].side
        /\ row.stake <= wager[x].stake /\ row.state = wager[x].state
    BY <2>1, <1>4 DEF Row, NoRow
  <2>3. wager' = [wager EXCEPT ![x] = row]
    BY <1>4
  <2> HIDE DEF row
  <2>4. \A w \in Wagers : wager'[w] = IF w = x THEN row ELSE wager[w]
    BY <1>t, <2>3
  <2>5. QED
    BY <1>4, <1>t, <2>1, <2>2, <2>3, <2>4 DEF RowShrinks
<1>5. QED
  BY <1>1, <1>2, <1>3, <1>4

(* Steps of administrators leave wagers and requests alone, and the limits *)
(* of a side that a placement holds.                                       *)
LEMMA AdminInv ==
  ASSUME LimitsInv, plan' = plan, wager' = wager, step' = step, read' = read,
         TypeOK', LimitsGranted', StoppedAtRestrictions',
         \A v \in Users : granted[v] <= granted'[v],
         \A s \in Sides : SideLocked(s) => sideMax'[s] = sideMax[s] /\ totalCap'[s] = totalCap[s]
  PROVE  LimitsInv'
<1>t. /\ plan \in Scenarios /\ read \in [Requests -> Reading]
      /\ wager \in [Wagers -> Row \cup {NoRow}]
  BY DEF LimitsInv, TypeOK
<1>a. asks' = asks /\ Requests' = Requests
  BY DEF asks, Requests
<1>1. OneOnSide' /\ OneInsert'
  BY <1>a DEF LimitsInv, OneOnSide, OneInsert
<1>2. ASSUME NEW q \in Requests PROVE ReadUnderLock(q)' /\ Checked(q)' /\ StoredFits(q)'
  <2>1. PICK c, d, w : c = asks[q].user /\ d = asks[q].side /\ w = asks[q].wager
    OBVIOUS
  <2>2. ReadUnderLock(q) /\ Checked(q) /\ StoredFits(q) /\ LimitsGranted
    BY DEF LimitsInv
  <2>3. OnSide(c, d)' = OnSide(c, d) /\ Total(d)' = Total(d)
    BY SumsSame
  <2>4. OnSide(c, d) \in Nat /\ Total(d) \in Nat
    BY <1>t, SumsNatural
  <2>5. OnSide(c, d)' <= OnSide(c, d) /\ Total(d)' <= Total(d)
    BY <2>3, <2>4
  <2>6. d \in Sides
    BY <2>1, <1>t, AsksTyped
  <2>7. step[q] \in Holding => sideMax'[d] = sideMax[d] /\ totalCap'[d] = totalCap[d]
    BY <2>1, <2>6 DEF SideLocked
  <2>8. RowShrinks(w)
    BY DEF RowShrinks
  <2>9. step'[q] = step[q] /\ read'[q] = read[q] /\ wager' \in [Wagers -> Row \cup {NoRow}]
    BY <1>t
  <2>10. QED
    BY <1>t, <2>1, <2>2, <2>5, <2>7, <2>8, <2>9, RequestKept
<1>3. QED
  BY <1>1, <1>2, <1>t, <1>a DEF LimitsInv

(* A bounded change is counted.                                            *)
LEMMA ChangeCounted ==
  ASSUME NEW kind, Change(kind), changes \in 0 .. MaxChanges
  PROVE  changes' \in 0 .. MaxChanges
BY StakeLimitsAssumption DEF Change

(* Every action of Administer is such a step.                              *)
LEMMA AdministerInv ==
  ASSUME LimitsInv, Administer
  PROVE  LimitsInv'
<1>t. TypeOK /\ LimitsGranted /\ StoppedAtRestrictions /\ changes \in 0 .. MaxChanges
  BY DEF LimitsInv, TypeOK
<1>g. \A v \in Users : granted[v] <= granted[v]
  BY <1>t DEF LimitsGranted
<1>n. NewLimits \subseteq Nat /\ AutoLimits \subseteq Nat
  BY StakeLimitsAssumption
<1> DEFINE Rest == plan' = plan /\ wager' = wager /\ step' = step /\ read' = read
<1>q. ASSUME Rest, UNCHANGED <<granted, autoMax, barred, kept>>
      PROVE  /\ LimitsGranted' /\ StoppedAtRestrictions'
             /\ \A v \in Users : granted[v] <= granted'[v]
             /\ asks' = asks /\ Requests' = Requests
  <2>1. asks' = asks /\ Requests' = Requests
    BY <1>q DEF asks, Requests
  <2>2. QED
    BY <1>q, <1>t, <1>g, <2>1 DEF LimitsGranted, StoppedAtRestrictions, Restricted
<1>1. ASSUME CloseMarket \/ CloseTimePasses \/ SetMarketCloseTime PROVE LimitsInv'
  <2>1. /\ Rest /\ UNCHANGED <<limitVars, memberVars, kept>>
        /\ board' \in {"open", "late", "closed"} /\ changes' \in 0 .. MaxChanges
    BY <1>1, <1>t, ChangeCounted DEF CloseMarket, CloseTimePasses, SetMarketCloseTime, requestVars
  <2>2. UNCHANGED <<marketMax, sideMax, totalCap, capping, granted, autoMax, barred, kept>>
    BY <2>1 DEF limitVars, memberVars
  <2>3. TypeOK'
    BY <1>t, <1>q, <2>1, <2>2 DEF TypeOK
  <2>4. QED
    BY <1>q, <2>1, <2>2, <2>3, AdminInv
<1>2. ASSUME NEW n \in NewLimits, SetMarketLimit(n) PROVE LimitsInv'
  <2>1. /\ Rest /\ UNCHANGED <<board, sideMax, totalCap, capping, granted, autoMax, barred, kept>>
        /\ marketMax' = n /\ changes' \in 0 .. MaxChanges
    BY <1>2, <1>t, ChangeCounted DEF SetMarketLimit, requestVars, memberVars
  <2>2. TypeOK'
    BY <1>t, <1>q, <1>n, <2>1 DEF TypeOK
  <2>3. QED
    BY <1>q, <2>1, <2>2, AdminInv
<1>3. ASSUME NEW s \in Sides, LimitStart(s) \/ LimitRollback(s) PROVE LimitsInv'
  <2>1. /\ Rest /\ UNCHANGED <<board, marketMax, sideMax, totalCap, granted, autoMax, barred, kept>>
        /\ capping' \in {{}, {s}} /\ changes' \in 0 .. MaxChanges
    BY <1>3, <1>t, ChangeCounted DEF LimitStart, LimitRollback, requestVars, memberVars
  <2>2. TypeOK'
    BY <1>t, <1>q, <2>1 DEF TypeOK
  <2>3. QED
    BY <1>q, <2>1, <2>2, AdminInv
<1>4. ASSUME NEW s \in Sides, NEW n \in NewLimits, SetSideLimit(s, n) \/ SetTotalSideCap(s, n)
      PROVE  LimitsInv'
  <2>1. /\ Rest /\ UNCHANGED <<board, marketMax, granted, autoMax, barred, kept, changes>>
        /\ capping' = {} /\ ~ SideLocked(s)
        /\ \/ sideMax' = [sideMax EXCEPT ![s] = n] /\ totalCap' = totalCap
           \/ totalCap' = [totalCap EXCEPT ![s] = n] /\ sideMax' = sideMax
    BY <1>4 DEF SetSideLimit, SetTotalSideCap, requestVars, memberVars
  <2>2. sideMax' \in [Sides -> Nat] /\ totalCap' \in [Sides -> Nat]
    BY <1>t, <1>n, <2>1 DEF TypeOK
  <2>3. TypeOK'
    BY <1>t, <1>q, <2>1, <2>2 DEF TypeOK
  <2>4. \A d \in Sides : SideLocked(d) => sideMax'[d] = sideMax[d] /\ totalCap'[d] = totalCap[d]
    BY <1>t, <2>1 DEF TypeOK
  <2>5. QED
    BY <1>q, <2>1, <2>3, <2>4, AdminInv
<1>5. ASSUME NEW u \in Users, NEW s \in Sides \cup {Whole}, RestrictMember(u, s) \/ LiftRestriction(u, s)
      PROVE  LimitsInv'
  <2>1. /\ Rest /\ UNCHANGED <<board, limitVars, granted, autoMax>>
        /\ changes' \in 0 .. MaxChanges
    BY <1>5, <1>t, ChangeCounted DEF RestrictMember, LiftRestriction, requestVars
  <2>2. asks' = asks /\ Requests' = Requests
    BY <2>1 DEF asks, Requests
  <2>3. barred' \subseteq Users \X (Sides \cup {Whole})
    BY <1>5, <1>t DEF RestrictMember, LiftRestriction, TypeOK
  <2>4. TypeOK'
    BY <1>t, <2>1, <2>2, <2>3 DEF TypeOK, limitVars
  <2>5. LimitsGranted' /\ \A v \in Users : granted[v] <= granted'[v]
    BY <1>t, <1>g, <2>1 DEF LimitsGranted
  <2>6. StoppedAtRestrictions'
    <3>1. CASE RestrictMember(u, s)
      BY <1>t, <2>1, <2>2, <3>1 DEF RestrictMember, requestVars, StoppedAtRestrictions, Restricted
    <3>2. CASE LiftRestriction(u, s)
      <4>1. kept' \subseteq kept
        BY <3>2 DEF LiftRestriction
      <4>2. ASSUME NEW r \in kept' PROVE Restricted(asks[r].user, asks[r].side)'
        <5>1. PICK p \in barred' : p \in {<<asks[r].user, Whole>>, <<asks[r].user, asks[r].side>>}
          BY <3>2, <4>2 DEF LiftRestriction
        <5>2. p[1] = asks[r].user /\ p[2] \in {asks[r].side, Whole}
          BY <5>1
        <5>3. QED
          BY <5>1, <5>2, <2>2 DEF Restricted
      <4>3. QED
        BY <1>t, <2>1, <2>2, <4>1, <4>2 DEF StoppedAtRestrictions
    <3>3. QED
      BY <1>5, <3>1, <3>2
  <2>7. sideMax' = sideMax /\ totalCap' = totalCap
    BY <2>1 DEF limitVars
  <2>8. QED
    BY <2>1, <2>4, <2>5, <2>6, <2>7, AdminInv
<1>6. ASSUME NEW u \in Users, NEW n \in AutoLimits, SetAutoApproveLimit(u, n) PROVE LimitsInv'
  <2>1. /\ Rest /\ UNCHANGED <<board, limitVars, barred, kept>>
        /\ autoMax' = [autoMax EXCEPT ![u] = n]
        /\ granted' = [granted EXCEPT ![u] = IF n > granted[u] THEN n ELSE granted[u]]
        /\ changes' \in 0 .. MaxChanges
    BY <1>6, <1>t, ChangeCounted DEF SetAutoApproveLimit, requestVars
  <2>2. asks' = asks /\ Requests' = Requests
    BY <2>1 DEF asks, Requests
  <2>3. autoMax' \in [Users -> AutoLimits] /\ autoMax \in [Users -> AutoLimits]
    BY <1>t, <2>1 DEF TypeOK
  <2>4. TypeOK'
    BY <1>t, <2>1, <2>2, <2>3 DEF TypeOK, limitVars
  <2>5. LimitsGranted' /\ \A v \in Users : granted[v] <= granted'[v]
    <3>1. n \in Nat /\ granted \in [Users -> Nat]
          /\ \A v \in Users : /\ autoMax[v] \in Nat /\ autoMax[v] <= granted[v]
                              /\ plan.auto <= granted[v]
      BY <1>t, <1>n, <2>3 DEF LimitsGranted
    <3>2. \A v \in Users : /\ granted'[v] = IF v = u /\ n > granted[v] THEN n ELSE granted[v]
                           /\ autoMax'[v] = IF v = u THEN n ELSE autoMax[v]
      BY <2>1, <2>3, <3>1
    <3>3. plan.auto \in Nat
      BY AsksTyped DEF LimitsInv
    <3>4. granted' \in [Users -> Nat]
      BY <2>1, <3>1
    <3>5. \A v \in Users : /\ granted[v] <= granted'[v] /\ autoMax'[v] <= granted'[v]
                           /\ plan.auto <= granted'[v]
      BY <3>1, <3>2, <3>3
    <3>6. QED
      BY <2>1, <3>4, <3>5 DEF LimitsGranted
  <2>6. StoppedAtRestrictions'
    BY <1>t, <2>1, <2>2 DEF StoppedAtRestrictions, Restricted
  <2>7. sideMax' = sideMax /\ totalCap' = totalCap
    BY <2>1 DEF limitVars
  <2>8. QED
    BY <2>1, <2>4, <2>5, <2>6, <2>7, AdminInv
<1>7. QED
  BY <1>1, <1>2, <1>3, <1>4, <1>5, <1>6 DEF Administer

(* The steps of Next, as the proofs above divide them.                     *)
LEMMA LimitsSteps ==
  ASSUME Next
  PROVE  \/ Administer
         \/ \E r \in Requests : QuietStep(r) \/ PlaceCommit(r) \/ Approve(r)
         \/ \E w \in Wagers : Manage(w)
BY DEF Next, Place, QuietStep

(* Every step keeps the invariant.                                         *)
LEMMA LimitsNextInv == LimitsInv /\ [Next]_vars => LimitsInv'
<1> SUFFICES ASSUME LimitsInv, [Next]_vars PROVE LimitsInv'
  OBVIOUS
<1>t. step \in [Requests -> Steps]
  BY DEF LimitsInv, TypeOK
<1>1. CASE Administer
  BY <1>1, AdministerInv
<1>2. ASSUME NEW r \in Requests, QuietStep(r) PROVE LimitsInv'
  BY <1>2, QuietInv
<1>3. ASSUME NEW r \in Requests, PlaceCommit(r) PROVE LimitsInv'
  BY <1>3, CommitInv
<1>4. ASSUME NEW r \in Requests, Approve(r) PROVE LimitsInv'
  <2>1. PICK x : x = asks[r].wager
    OBVIOUS
  <2>2. x \in Wagers
    BY <2>1, AsksTyped DEF LimitsInv
  <2>3. wager' \in [Wagers -> Row \cup {NoRow}] /\ \A w \in Wagers : RowShrinks(w)
    BY <1>4, <2>1, <2>2, ManageShrinks
  <2>4. /\ plan' = plan /\ UNCHANGED <<board, limitVars, memberVars, read, kept, changes>>
        /\ step[r] = "accept" /\ step' = [step EXCEPT ![r] = "done"]
    BY <1>4 DEF Approve, Goto
  <2>5. /\ step' \in [Requests -> Steps]
        /\ \A q \in Requests : step'[q] = step[q] \/ (step[q] = "accept" /\ step'[q] = "done")
    BY <1>t, <2>4 DEF Steps
  <2>6. QED
    BY <2>3, <2>4, <2>5, ShrinkInv
<1>5. ASSUME NEW x \in Wagers, Manage(x) PROVE LimitsInv'
  <2>1. wager' \in [Wagers -> Row \cup {NoRow}] /\ \A w \in Wagers : RowShrinks(w)
    BY <1>5, ManageShrinks
  <2>2. plan' = plan /\ UNCHANGED <<board, limitVars, memberVars, step, read, kept, changes>>
    BY <1>5 DEF Manage, AcceptWager, RejectWager, VoidWager, Review, ReduceWager, requestVars
  <2>3. QED
    BY <1>t, <2>1, <2>2, ShrinkInv
<1>6. CASE UNCHANGED vars
  <2>1. /\ plan' = plan /\ wager' = wager
        /\ UNCHANGED <<board, limitVars, memberVars, step, read, kept, changes>>
    BY <1>6 DEF vars, requestVars
  <2>2. wager' \in [Wagers -> Row \cup {NoRow}] /\ \A w \in Wagers : RowShrinks(w)
    BY <2>1 DEF LimitsInv, TypeOK, RowShrinks
  <2>3. QED
    BY <1>t, <2>1, <2>2, ShrinkInv
<1>7. QED
  BY <1>1, <1>2, <1>3, <1>4, <1>5, <1>6, LimitsSteps

(* What a placement has read and locked stays good until it commits, for   *)
(* any members, sides, limits and requests.                                *)
THEOREM LimitsInvariance == Spec => []LimitsInv
<1>1. QED
  BY LimitsInitInv, LimitsNextInv, PTL DEF Spec

-----------------------------------------------------------------------------
(* Stake limits: what they promise *)

(* PlaceWager: only wagers with a stake are stored, none for a member who  *)
(* was barred before the placement looked and is still barred.             *)
THEOREM AdmissionCorrect == Spec => []AdmissionSound
<1>1. LimitsInv => AdmissionSound
  BY DEF LimitsInv, AdmissionSound, BarredPlaceNothing, StoppedAtRestrictions
<1>2. QED
  BY <1>1, LimitsInvariance, PTL

(* A side grows in one kind of step only, and then within its caps.        *)
LEMMA GrowthChecked ==
  ASSUME LimitsInv, [Next]_vars, NEW u, NEW s \in Sides
  PROVE  /\ GrowsWithin(Total(s), Total(s)', totalCap'[s])
         /\ GrowsWithin(OnSide(u, s), OnSide(u, s)', sideMax'[s])
<1>t. wager \in [Wagers -> Row \cup {NoRow}] /\ step \in [Requests -> Steps]
      /\ read \in [Requests -> Reading] /\ totalCap \in [Sides -> Nat] /\ sideMax \in [Sides -> Nat]
  BY DEF LimitsInv, TypeOK
<1>n. OnSide(u, s) \in Nat /\ Total(s) \in Nat
  BY <1>t, SumsNatural
<1>1. ASSUME wager' \in [Wagers -> Row \cup {NoRow}], \A w \in Wagers : RowShrinks(w)
      PROVE  /\ GrowsWithin(Total(s), Total(s)', totalCap'[s])
             /\ GrowsWithin(OnSide(u, s), OnSide(u, s)', sideMax'[s])
  <2>1. OnSide(u, s)' <= OnSide(u, s) /\ Total(s)' <= Total(s)
    BY <1>1, <1>t, SumsShrink
  <2>2. /\ [x \in {y \in Riding' : wager'[y].user = u /\ wager'[y].side = s} |-> wager'[x].stake]
               \in [{y \in Riding' : wager'[y].user = u /\ wager'[y].side = s} -> Nat]
        /\ [x \in {y \in Riding' : wager'[y].side = s} |-> wager'[x].stake]
               \in [{y \in Riding' : wager'[y].side = s} -> Nat]
    BY <1>1 DEF Riding, Row, NoRow
  <2>3. /\ IsFiniteSet({y \in Riding' : wager'[y].user = u /\ wager'[y].side = s})
        /\ IsFiniteSet({y \in Riding' : wager'[y].side = s})
    <3>1. /\ {y \in Riding' : wager'[y].user = u /\ wager'[y].side = s} \subseteq Wagers
          /\ {y \in Riding' : wager'[y].side = s} \subseteq Wagers
      BY DEF Riding
    <3>2. QED
      BY <3>1, StakeLimitsAssumption, FS_Subset
  <2>4. OnSide(u, s)' \in Nat /\ Total(s)' \in Nat
    BY <2>2, <2>3, SumNatural DEF OnSide, Total, Stakes
  <2>5. QED
    BY <1>n, <2>1, <2>4 DEF GrowsWithin
<1>2. ASSUME wager' = wager
      PROVE  /\ GrowsWithin(Total(s), Total(s)', totalCap'[s])
             /\ GrowsWithin(OnSide(u, s), OnSide(u, s)', sideMax'[s])
  BY <1>1, <1>2, <1>t DEF RowShrinks
<1>3. ASSUME NEW r \in Requests, PlaceCommit(r)
      PROVE  /\ GrowsWithin(Total(s), Total(s)', totalCap'[s])
             /\ GrowsWithin(OnSide(u, s), OnSide(u, s)', sideMax'[s])
  <2>1. PICK x : x = asks[r].wager
    OBVIOUS
  <2>2. /\ UNCHANGED <<board, limitVars, memberVars, kept, changes>> /\ step[r] = "commit"
        /\ \/ wager' = wager
           \/ \E row : Inserted(x, row) /\ row.user = asks[r].user /\ row.side = asks[r].side
                                        /\ row.stake = asks[r].stake
    BY <1>3, <2>1, CommitFrame
  <2>3. ASSUME NEW row, Inserted(x, row), row.user = asks[r].user, row.side = asks[r].side,
               row.stake = asks[r].stake
        PROVE  /\ GrowsWithin(Total(s), Total(s)', totalCap'[s])
               /\ GrowsWithin(OnSide(u, s), OnSide(u, s)', sideMax'[s])
    <3>1. /\ Total(s)' = IF row.side = s THEN Total(s) + row.stake ELSE Total(s)
          /\ OnSide(u, s)' = IF row.side = s /\ row.user = u
                             THEN OnSide(u, s) + row.stake ELSE OnSide(u, s)
      BY <1>t, <2>3, SumsGrow
    <3>2. ReadUnderLock(r) /\ Checked(r)
      BY DEF LimitsInv
    <3>3. /\ read[r].sideMax = sideMax[row.side] /\ read[r].totalCap = totalCap[row.side]
          /\ OnSide(row.user, row.side) <= read[r].side /\ Total(row.side) <= read[r].total
          /\ Within(read[r].sideMax, read[r].side, row.stake)
          /\ Within(read[r].totalCap, read[r].total, row.stake)
      BY <2>2, <2>3, <3>2 DEF ReadUnderLock, Checked, Holding
    <3>4. read[r].side \in Nat /\ read[r].total \in Nat /\ row.stake \in Nat
          /\ sideMax[s] \in Nat /\ totalCap[s] \in Nat
      BY <1>t, <2>3 DEF Reading, Inserted, Row
    <3>5. totalCap' = totalCap /\ sideMax' = sideMax
      BY <2>2 DEF limitVars
    <3>6. GrowsWithin(Total(s), Total(s)', totalCap'[s])
      <4>1. CASE row.side = s
        BY <4>1, <1>n, <3>1, <3>3, <3>4, <3>5 DEF GrowsWithin, Within
      <4>2. CASE row.side # s
        BY <4>2, <1>n, <3>1 DEF GrowsWithin
      <4>3. QED
        BY <4>1, <4>2
    <3>7. GrowsWithin(OnSide(u, s), OnSide(u, s)', sideMax'[s])
      <4>1. CASE row.side = s /\ row.user = u
        BY <4>1, <1>n, <3>1, <3>3, <3>4, <3>5 DEF GrowsWithin, Within
      <4>2. CASE ~ (row.side = s /\ row.user = u)
        <5>1. OnSide(u, s)' = OnSide(u, s)
          BY <4>2, <3>1
        <5>2. QED
          BY <5>1, <1>n DEF GrowsWithin
      <4>3. QED
        BY <4>1, <4>2
    <3>8. QED
      BY <3>6, <3>7
  <2>4. QED
    BY <1>2, <2>2, <2>3
<1>4. ASSUME NEW r \in Requests, Approve(r)
      PROVE  /\ GrowsWithin(Total(s), Total(s)', totalCap'[s])
             /\ GrowsWithin(OnSide(u, s), OnSide(u, s)', sideMax'[s])
  <2>1. PICK x : x = asks[r].wager
    OBVIOUS
  <2>2. x \in Wagers
    BY <2>1, AsksTyped DEF LimitsInv
  <2>3. QED
    BY <1>1, <1>4, <2>1, <2>2, ManageShrinks
<1>5. ASSUME NEW x \in Wagers, Manage(x)
      PROVE  /\ GrowsWithin(Total(s), Total(s)', totalCap'[s])
             /\ GrowsWithin(OnSide(u, s), OnSide(u, s)', sideMax'[s])
  BY <1>1, <1>5, ManageShrinks
<1>6. Administer \/ UNCHANGED vars => wager' = wager
  BY DEF Administer, CloseMarket, CloseTimePasses, SetMarketCloseTime, SetMarketLimit, LimitStart,
         LimitRollback, SetSideLimit, SetTotalSideCap, RestrictMember, LiftRestriction,
         SetAutoApproveLimit, vars
<1>7. \A r \in Requests : QuietStep(r) => wager' = wager
  BY QuietFrame DEF LimitsInv
<1>8. CASE UNCHANGED vars
  BY <1>2, <1>6, <1>8
<1>9. CASE Next
  BY <1>2, <1>3, <1>4, <1>5, <1>6, <1>7, <1>9, LimitsSteps
<1>10. QED
  BY <1>8, <1>9

(* loadStakeLimits: "taking the lock before the sum is what makes the cap  *)
(* real".  For any members, sides, limits, requests and changes, neither   *)
(* the book's total on a side nor a member's stakes on it grow past the    *)
(* limit in force.                                                         *)
THEOREM LimitsCorrect == Spec => LimitsHold
<1>1. LimitsInv /\ [Next]_vars =>
        [\A s \in Sides : GrowsWithin(Total(s), Total(s)', totalCap'[s])]_vars
  BY GrowthChecked
<1>2. LimitsInv /\ [Next]_vars =>
        [\A u \in Users, s \in Sides :
           GrowsWithin(OnSide(u, s), OnSide(u, s)', sideMax'[s])]_vars
  BY GrowthChecked
<1>3. QED
  BY <1>1, <1>2, LimitsInvariance, PTL DEF Spec, LimitsHold, SideStopsAtCap, MemberStopsAtSideLimit

(* A request on its way to approval without an administrator: what is      *)
(* stored under its key is within a limit its member had.                  *)
LEMMA ApprovalChecked ==
  ASSUME LimitsInv, NEW r \in Requests,
         step[r] = "accept", ~ asks[r].byAdmin
  PROVE  wager[asks[r].wager].stake <= granted[asks[r].user]
<1>1. PICK ask : ask = asks[r]
  OBVIOUS
<1>2. ask \in Ask
  BY <1>1, AsksTyped DEF LimitsInv
<1>3. PICK row : row = wager[ask.wager]
  OBVIOUS
<1>4. row # NoRow /\ row.stake <= ask.stake /\ ask.stake <= granted[ask.user]
  BY <1>1, <1>3 DEF LimitsInv, StoredFits
<1>5. row \in Row /\ granted[ask.user] \in Nat /\ ask.stake \in Nat
  BY <1>2, <1>3, <1>4 DEF LimitsInv, TypeOK, LimitsGranted, Ask
<1>6. row.stake \in Nat
  BY <1>5 DEF Row
<1>7. row.stake <= granted[ask.user]
  BY <1>4, <1>5, <1>6
<1>8. QED
  BY <1>1, <1>3, <1>7

(* placeWager decides by the form's stake and AcceptWager accepts the      *)
(* stored one: whatever forms are sent, edited and sent again, a wager     *)
(* approved without an administrator is within a limit its member had.     *)
THEOREM ApprovalCorrect == Spec => ApprovedWithinLimit
<1>1. LimitsInv /\ [Next]_vars =>
        [\A r \in Requests :
           LET w == asks[r].wager
           IN  /\ step[r] = "accept" /\ step'[r] = "done" /\ ~ asks[r].byAdmin
               /\ wager[w].state = "pending" /\ wager'[w].state = "accepted"
               => wager[w].stake <= granted[asks[r].user]]_vars
  BY ApprovalChecked
<1>2. QED
  BY <1>1, LimitsInvariance, PTL DEF Spec, ApprovedWithinLimit
=============================================================================
