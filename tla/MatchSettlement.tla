--------------------------- MODULE MatchSettlement ---------------------------
(***************************************************************************)
(* How a verified match result reaches the book: the match markets and     *)
(* their mapping onto the sides of a match (CreateMarket), the result      *)
(* recorded with its MatchResultVerified event, and the settlement         *)
(* consumer that delivers it (MatchSettlementConsumer, SettleMatchMarkets) *)
(* while administrators go on opening, closing, settling and voiding the   *)
(* same markets by hand.  Composes Book with the competition's result; the *)
(* composition is shown to make only steps of Book.                        *)
(*                                                                         *)
(* Delivery is what Outbox promises and no more: an event is delivered     *)
(* again and again until a delivery succeeds or the last attempt fails, by *)
(* several workers at once when a lease runs out under one, and a delivery *)
(* ends anywhere when its process dies.                                    *)
(***************************************************************************)
EXTENDS Book

CONSTANTS
  Matches,
  MatchOf,         \* MatchOf[m]: the match of a match market
  KeyOf,           \* KeyOf[m][s]: semantic_result_key of a selection
  EarlierMarkets,  \* drafts made before CreateMarket checked the mapping
  Dispatchers,     \* one per running release; releases overlap
  NoDelivery,      \* the work of a dispatcher that delivers nothing
  MaxAttempts,     \* max_attempts of an outbox row
  HandOutcomes,    \* bound: outcomes administrators declare by hand
  MaxFaults        \* bound: crashes, lost updates and leases that run out early

Verdicts == {"side_1", "side_2", "tie"}
SemanticKeys == Verdicts \cup {"other"}

ASSUME MatchAssumption ==
  /\ MatchOf \in [MatchMarkets -> Matches]
  /\ KeyOf \in [MatchMarkets -> [Sides -> SemanticKeys]]
  /\ EarlierMarkets \subseteq MatchMarkets
  /\ HandOutcomes \subseteq [Sides -> {"win", "loss", "push"}]
  /\ MaxAttempts \in Nat \ {0}
  /\ MaxFaults \in Nat

VARIABLES
  exists,     \* markets inserted
  verified,   \* verdict of each match, "none" before it is recorded
  event,      \* the result's outbox row: "none", "pending", "processing",
              \* "completed" or "failed"
  attempts,   \* attempt_count of the row
  work,       \* what each worker is delivering
  source,     \* the verdict a settlement refers to (verified_result_id)
  onBoard,    \* markets past draft when their match was verified
  faults

deliveryVars == <<event, attempts, work, faults>>
matchVars == <<exists, verified, source, onBoard>>
allVars == <<vars, deliveryVars, matchVars>>

MarketsOf(g) == {m \in exists : MatchOf[m] = g}
Gradeable == {"open", "closed", "settlement_pending"}

MatchInit ==
  /\ Init
  /\ exists = EarlierMarkets
  /\ verified = [g \in Matches |-> "none"]
  /\ event = [g \in Matches |-> "none"]
  /\ attempts = [g \in Matches |-> 0]
  /\ work = [k \in Dispatchers |-> NoDelivery]
  /\ source = [m \in MatchMarkets |-> "none"]
  /\ onBoard = {}
  /\ faults = 0

-----------------------------------------------------------------------------
(* buildMatchOutcome *)

Recognised(m) == \A s \in Sides : KeyOf[m][s] # "other"

TieLoses(m, v) ==
  [s \in Sides |-> IF KeyOf[m][s] = v THEN "win" ELSE "loss"]

(* A tie that nobody could back gives every stake back.                    *)
MatchOutcome(m, v) ==
  IF v = "tie" /\ \A s \in Sides : KeyOf[m][s] # "tie"
  THEN [s \in Sides |-> "push"]
  ELSE [s \in Sides |-> IF KeyOf[m][s] = v THEN "win" ELSE "loss"]

-----------------------------------------------------------------------------
(* Administrators *)

(* validateMatchMarketMapping: one selection for each side.                *)
Mapped(m) ==
  /\ Cardinality(Sides) = 2
  /\ {KeyOf[m][s] : s \in Sides} = {"side_1", "side_2"}

(* Under a share lock on the match, which must have no result yet and no   *)
(* other market that still counts.                                         *)
CreateMarket(m) ==
  /\ m \notin exists
  /\ verified[MatchOf[m]] = "none"
  /\ \A o \in MarketsOf(MatchOf[m]) : market[o] \in {"voided", "cancelled"}
  /\ Mapped(m)
  /\ exists' = exists \cup {m}
  /\ UNCHANGED <<vars, deliveryVars, verified, source, onBoard>>

(* RecordAdminResult: the result and its event commit together; a match    *)
(* that has a result keeps it.                                             *)
RecordAdminResult(g, v) ==
  /\ verified[g] = "none"
  /\ verified' = [verified EXCEPT ![g] = v]
  /\ event' = [event EXCEPT ![g] = "pending"]
  /\ onBoard' = onBoard \cup {m \in MarketsOf(g) : market[m] \in Gradeable}
  /\ UNCHANGED <<vars, attempts, work, faults, exists, source>>

(* By hand (adminMarketAction, adminSettleMarket), a win, loss or push for *)
(* every selection.                                                        *)
AdminMarketStep(m) ==
  /\ m \in exists
  /\ \/ OpenMarket(m)
     \/ CloseMarket(m)
     \/ \E out \in HandOutcomes, tied \in BOOLEAN : SettleMarket(m, out, tied)
     \/ VoidMarket(m)
  /\ UNCHANGED <<deliveryVars, matchVars>>

MemberStep(w) ==
  /\ Market(w) \in exists
  /\ \/ QuoteWager(w) \/ InsertWager(w) \/ DropQuote(w)
     \/ AcceptWager(w) \/ RejectWager(w) \/ VoidWager(w)
     \/ \E n \in 1 .. Request[w].stake : ReduceWager(w, n)
  /\ UNCHANGED <<deliveryVars, matchVars>>

-----------------------------------------------------------------------------
(* MatchSettlementConsumer.Handle *)

SettleableIfOpen(g) == {m \in MarketsOf(g) : market[m] = "open"}

(* matchMarketsToSettle, read without a lock.                              *)
ToSettle(g) == {m \in MarketsOf(g) : market[m] \in Gradeable}

(* ClaimBatch counts the attempt; the handler reads the markets.           *)
Deliver(k, g) ==
  /\ work[k] = NoDelivery
  /\ event[g] = "pending"
  /\ event' = [event EXCEPT ![g] = "processing"]
  /\ attempts' = [attempts EXCEPT ![g] = @ + 1]
  /\ work' = [work EXCEPT ![k] =
       [match |-> g, attempt |-> attempts[g] + 1, todo |-> ToSettle(g),
        open |-> {m \in ToSettle(g) : market[m] = "open"}]]
  /\ UNCHANGED <<vars, faults, matchVars>>

(* MarkCompleted, MarkRetry and MarkFailed: only a row in processing.      *)
Mark(g, to) == event' = IF event[g] = "processing" THEN [event EXCEPT ![g] = to] ELSE event

(* A market read as open is closed first; one closed meanwhile is fine.    *)
CloseFirst(k, m) ==
  /\ work[k] # NoDelivery /\ m \in work[k].open
  /\ \/ CloseMarket(m)
     \/ market[m] = "closed" /\ UNCHANGED vars
  /\ work' = [work EXCEPT ![k].open = @ \ {m}]
  /\ UNCHANGED <<event, attempts, faults, matchVars>>

Turn(k, m) == work[k] # NoDelivery /\ m \in work[k].todo \ work[k].open

SettleMarksOnly(k, m) ==
  /\ Turn(k, m) /\ Recognised(m)
  /\ market[m] \in Gradeable
  /\ market' = [market EXCEPT ![m] = "settled"]
  /\ source' = [source EXCEPT ![m] = verified[work[k].match]]
  /\ work' = [work EXCEPT ![k].todo = @ \ {m}]
  /\ UNCHANGED <<version, outcome, divisor, wagerVars, regrades>>
  /\ UNCHANGED <<event, attempts, faults, exists, verified, onBoard>>

SettleAgain(k, m) ==
  /\ Turn(k, m) /\ Recognised(m)
  /\ Grade(m, MatchOutcome(m, verified[work[k].match]), 1)
  /\ outcome' = [outcome EXCEPT ![m] = MatchOutcome(m, verified[work[k].match])]
  /\ market' = [market EXCEPT ![m] = "settled"]
  /\ source' = [source EXCEPT ![m] = verified[work[k].match]]
  /\ work' = [work EXCEPT ![k].todo = @ \ {m}]
  /\ UNCHANGED <<divisor, regrades, event, attempts, faults, exists, verified, onBoard>>

SettleOne(k, m) ==
  /\ Turn(k, m) /\ Recognised(m)
  /\ SettleMarket(m, MatchOutcome(m, verified[work[k].match]), FALSE)
  /\ source' = [source EXCEPT ![m] = verified[work[k].match]]
  /\ work' = [work EXCEPT ![k].todo = @ \ {m}]
  /\ UNCHANGED <<event, attempts, faults, exists, verified, onBoard>>

(* A selection without a key: left to the administrators.                  *)
SkipOne(k, m) ==
  /\ Turn(k, m) /\ ~ Recognised(m)
  /\ work' = [work EXCEPT ![k].todo = @ \ {m}]
  /\ UNCHANGED <<vars, event, attempts, faults, matchVars>>

(* The handler returns an error with part of its work done, at any market: *)
(* it can no longer be closed or settled, a parlay on it cannot be graded, *)
(* a transaction or the receipt fails, or so does another consumer of the  *)
(* event.  The attempt this worker claimed decides between another         *)
(* delivery and giving up for good (handleFailure).                        *)
HandleFailure(k) ==
  /\ work[k] # NoDelivery
  /\ Mark(work[k].match, IF work[k].attempt >= MaxAttempts THEN "failed" ELSE "pending")
  /\ work' = [work EXCEPT ![k] = NoDelivery]
  /\ UNCHANGED <<vars, attempts, faults, matchVars>>

Return(k) ==
  /\ work[k] # NoDelivery /\ work[k].todo = {}
  /\ Mark(work[k].match, "completed")
  /\ work' = [work EXCEPT ![k] = NoDelivery]
  /\ UNCHANGED <<vars, attempts, faults, matchVars>>

(* The process dies, or the row's last update is lost: the row stays.      *)
Crash(k) ==
  /\ work[k] # NoDelivery
  /\ faults < MaxFaults
  /\ faults' = faults + 1
  /\ work' = [work EXCEPT ![k] = NoDelivery]
  /\ UNCHANGED <<vars, event, attempts, matchVars>>

Busy(g) == \E k \in Dispatchers : work[k] # NoDelivery /\ work[k].match = g

(* The lease of a row nobody delivers any more runs out ...                *)
ReleaseStale(g) ==
  /\ event[g] = "processing" /\ ~ Busy(g)
  /\ event' = [event EXCEPT ![g] = "pending"]
  /\ UNCHANGED <<vars, attempts, work, faults, matchVars>>

(* ... or of one whose worker is slow.                                     *)
Overrun(g) ==
  /\ event[g] = "processing" /\ Busy(g)
  /\ faults < MaxFaults
  /\ faults' = faults + 1
  /\ event' = [event EXCEPT ![g] = "pending"]
  /\ UNCHANGED <<vars, attempts, work, matchVars>>

WorkerStep(k) ==
  \/ \E g \in Matches : Deliver(k, g)
  \/ \E m \in MatchMarkets : CloseFirst(k, m) \/ SettleOne(k, m) \/ SkipOne(k, m)
  \/ HandleFailure(k) \/ Return(k)

-----------------------------------------------------------------------------
MatchNext ==
  \/ \E m \in MatchMarkets : CreateMarket(m) \/ AdminMarketStep(m)
  \/ \E g \in Matches, v \in Verdicts : RecordAdminResult(g, v)
  \/ \E w \in Wagers : MemberStep(w)
  \/ \E k \in Dispatchers : WorkerStep(k) \/ Crash(k)
  \/ \E g \in Matches : ReleaseStale(g) \/ Overrun(g)

(* Dispatchers poll: a worker that can go on does, be it to fail, and a    *)
(* lease nobody renews is found to have run out.  Nobody else has to act.  *)
MatchSpec ==
  /\ MatchInit /\ [][MatchNext]_allVars
  /\ \A k \in Dispatchers : WF_allVars(WorkerStep(k))
  /\ \A g \in Matches : WF_allVars(ReleaseStale(g))

-----------------------------------------------------------------------------
(* Properties *)

(* A wager the consumer graded was paid by the side it backed and the      *)
(* verified result: its winner at least the stake, and more unless the     *)
(* stake was cut down to where the profit rounds to nothing; a tie nobody  *)
(* could back exactly the stake; anybody else nothing.  A market without   *)
(* keys is never graded by the consumer.                                   *)
ConsumerPaysTheResult ==
  /\ \A m \in MatchMarkets : source[m] # "none" =>
       Recognised(m) /\ source[m] = verified[MatchOf[m]]
  /\ \A w \in Wagers : Market(w) \in MatchMarkets /\ state[w] = "settled"
                     /\ source[Market(w)] # "none" =>
       LET key     == KeyOf[Market(w)][Request[w].side]
           verdict == source[Market(w)]
           offered == \E s \in Sides : KeyOf[Market(w)][s] = verdict
           paid    == ledger[w].paid
           riding  == ledger[w].released
       IN  /\ key = verdict => paid >= riding /\ (ledger[w].reduced = 0 => paid > riding)
           /\ verdict = "tie" /\ ~ offered => paid = riding
           /\ key # verdict /\ (offered \/ verdict # "tie") => paid = 0

(* A decision stands, whoever took it: an event delivered late, again or   *)
(* twice at once never regrades a market settled or voided by hand, nor    *)
(* moves the money of its wagers.                                          *)
DecisionStands ==
  [][\A m \in MatchMarkets : market[m] \in Decided =>
       /\ market'[m] = market[m] /\ outcome'[m] = outcome[m] /\ source'[m] = source[m]
       /\ \A w \in Wagers : Market(w) = m /\ state[w] # "accepted" =>
            ledger'[w] = ledger[w]]_allVars

(* A stake that rides on a match market when the result comes in is given  *)
(* back or paid in the end, through crashes, overlapping deliveries and    *)
(* deliveries refused because somebody was faster, unless the event was    *)
(* given up for good after its last attempt: no event is completed that    *)
(* leaves a stake behind.                                                  *)
StakesReturn ==
  \A w \in Wagers :
    (state[w] = "accepted" /\ Market(w) \in onBoard /\ Recognised(Market(w)))
      ~> (\/ state[w] \in {"settled", "voided"}
          \/ event[MatchOf[Market(w)]] = "failed")

(* The composition makes only steps that Book allows.                      *)
OnlyBookSteps == Spec

(* A market keyed to the sides of a match "settles automatically from the  *)
(* verified result": no market stays open once its match has one.          *)
OpenMarketsSettle ==
  \A m \in MatchMarkets :
    (verified[MatchOf[m]] # "none" /\ market[m] \in Gradeable /\ Recognised(m))
      ~> (market[m] \in Decided)
=============================================================================
