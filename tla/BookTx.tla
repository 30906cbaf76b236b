------------------------------- MODULE BookTx -------------------------------
(***************************************************************************)
(* The transactions of Book taken apart: each store method runs statement  *)
(* by statement in a READ COMMITTED PostgreSQL transaction, taking row     *)
(* locks as it goes, reading whatever is committed at each statement, and  *)
(* making its writes visible when it commits.  Workers run transactions    *)
(* concurrently, one at a time each.                                       *)
(*                                                                         *)
(* Book's variables are the committed tables here.  The module implements  *)
(* Book: whatever the interleaving, the tables change only as one of       *)
(* Book's operations, run on its own, would change them.                   *)
(***************************************************************************)
EXTENDS Book, Sequences

CONSTANTS
  Workers,     \* database connections running store methods
  WagerOrder   \* the wagers in the order of their ids

(* Rows of different tables are different rows.                            *)
ASSUME BookTxAssumption ==
  /\ WagerOrder \in Seq(Wagers)
  /\ Range(WagerOrder) = Wagers
  /\ Len(WagerOrder) = Cardinality(Wagers)
  /\ Markets \cap Wagers = {}
  /\ (Markets \cup Wagers) \cap (Users \cup {"escrow", "house"}) = {}

(* What the earlier release accepted was within its owners' credit.        *)
ASSUME OpeningAssumption ==
  \A u \in Users :
    Credit[u] + SumFunction([w \in {v \in Wagers : Request[v].user = u} |->
                               IF w \in LegacyWagers THEN -Request[w].stake ELSE 0]) >= 0

VARIABLE tx   \* tx[p]: the transaction worker p is running

txVars == <<vars, tx>>

(* Rows that are locked.  A system account is locked like a user account:  *)
(* ensureSystemAccount is an upsert that updates the row it finds.         *)
Rows == Markets \cup Wagers \cup Users \cup {"escrow", "house"}

Ops == {"idle", "open", "close", "no_action", "settle", "void_market",
        "place", "accept", "reject", "void", "reduce"}

(* op and row: the method and the market or wager it is about.  step: the  *)
(* statement reached.  todo: rows the current statement still has to lock. *)
(* holds, shares: rows locked FOR UPDATE and FOR KEY SHARE.  seen: wagers  *)
(* a settlement loaded.                                                    *)
Idle == [op |-> "idle", row |-> "none", step |-> "begin", todo |-> <<>>,
         holds |-> {}, shares |-> {}, seen |-> {}]

Holders(p, r) == {q \in Workers \ {p} : r \in tx[q].holds}
Sharers(p, r) == {q \in Workers \ {p} : r \in tx[q].shares}

Running(p, op, step) == tx[p].op = op /\ tx[p].step = step /\ tx[p].todo = <<>>

Begin(p, op, row, locks) ==
  /\ tx[p] = Idle
  /\ tx' = [tx EXCEPT ![p] = [Idle EXCEPT !.op = op, !.row = row, !.todo = locks]]
  /\ UNCHANGED vars

Proceed(p, step, locks) ==
  tx' = [tx EXCEPT ![p].step = step, ![p].todo = locks]

(* COMMIT and ROLLBACK release every lock.                                 *)
End(p) == tx' = [tx EXCEPT ![p] = Idle]

(* The next row of a FOR UPDATE statement, when no one else holds it.      *)
Lock(p) ==
  /\ tx[p].todo # <<>>
  /\ LET r == Head(tx[p].todo)
     IN  /\ Holders(p, r) = {} /\ Sharers(p, r) = {}
         /\ tx' = [tx EXCEPT ![p].todo = Tail(@), ![p].holds = @ \cup {r}]
  /\ UNCHANGED vars

(* Any error, refusal, cancelled request or lost connection rolls back;    *)
(* PostgreSQL also picks a transaction to roll back out of a deadlock.     *)
Rollback(p) ==
  /\ tx[p].op # "idle"
  /\ End(p)
  /\ UNCHANGED vars

-----------------------------------------------------------------------------
(* Markets: the market row is locked first                                 *)

OpenTx(p) ==
  \/ \E m \in Markets : Begin(p, "open", m, <<m>>)
  \/ /\ Running(p, "open", "begin")
     /\ OpenMarket(tx[p].row)
     /\ End(p)

CloseTx(p) ==
  \/ \E m \in Markets : Begin(p, "close", m, <<m>>)
  \/ /\ Running(p, "close", "begin")
     /\ CloseMarket(tx[p].row)
     /\ End(p)

NoActionTx(p) ==
  \/ \E m \in Markets \ MatchMarkets : Begin(p, "no_action", m, <<m>>)
  \/ /\ Running(p, "no_action", "begin")        \* state check and count(*)
     /\ market[tx[p].row] \in {"closed", "settlement_pending"}
     /\ Live(tx[p].row) = {}
     /\ Proceed(p, "commit", <<>>)
     /\ UNCHANGED vars
  \/ /\ Running(p, "no_action", "commit")
     /\ market' = [market EXCEPT ![tx[p].row] = "closed_no_action"]
     /\ UNCHANGED <<version, outcome, divisor, wagerVars, regrades>>
     /\ End(p)

Before(v, w) ==
  \E i, j \in DOMAIN WagerOrder : WagerOrder[i] = v /\ WagerOrder[j] = w /\ i < j

(* Rows of wagers are locked in id order: locks lists W in that order.     *)
InOrder(locks, W) ==
  /\ Range(locks) = W
  /\ \A i, j \in DOMAIN locks : i < j => Before(locks[i], locks[j])

Listings(W) == {locks \in [1 .. Cardinality(W) -> W] : InOrder(locks, W)}

(* Per wager graded: its owner's account, then escrow, then the house.     *)
AccountLocks(wagers) ==
  [k \in 1 .. 3 * Len(wagers) |->
     CASE k % 3 = 1 -> Request[wagers[(k + 2) \div 3]].user
       [] k % 3 = 2 -> "escrow"
       [] k % 3 = 0 -> "house"]

(* A settlement grades what it loaded: the rows its FOR UPDATE statement   *)
(* saw when it started, each as it was once its lock was granted.          *)
Loaded(p) == {w \in tx[p].seen : state[w] = "accepted"}

Load(p, rows, locks) ==
  tx' = [tx EXCEPT ![p].step = "wagers", ![p].seen = rows, ![p].todo = locks]

SettleTx(p) ==
  \/ \E m \in Markets, op \in {"settle", "void_market"} : Begin(p, op, m, <<m>>)
  \/ \E op \in {"settle", "void_market"} :
     /\ Running(p, op, "begin")
     /\ market[tx[p].row] \in {"open", "closed", "settlement_pending"}
     /\ LET rows == {w \in Wagers : Market(w) = tx[p].row /\ state[w] # "none"}
        IN  \E locks \in Listings(rows) : Load(p, rows, locks)
     /\ UNCHANGED vars
  \/ \E op \in {"settle", "void_market"} :
     /\ Running(p, op, "wagers")
     /\ \E wagers \in Listings(Loaded(p)) : Proceed(p, "commit", AccountLocks(wagers))
     /\ UNCHANGED vars
  \/ /\ Running(p, "settle", "commit")
     /\ \E out \in Outcomes, tied \in BOOLEAN :
          LET m == tx[p].row
              n == IF tied THEN Winners(out) ELSE 1
          IN  /\ tied => Winners(out) >= 2
              /\ GradeSet(Loaded(p), m, out, n)
              /\ outcome' = [outcome EXCEPT ![m] = out]
              /\ divisor' = [divisor EXCEPT ![m] = n]
              /\ market' = [market EXCEPT ![m] = "settled"]
     /\ UNCHANGED regrades
     /\ End(p)
  \/ /\ Running(p, "void_market", "commit")
     /\ GradeSet(Loaded(p), tx[p].row, [s \in Sides |-> "void"], 1)
     /\ market' = [market EXCEPT ![tx[p].row] = "voided"]
     /\ UNCHANGED <<outcome, divisor, regrades>>
     /\ End(p)

-----------------------------------------------------------------------------
(* Wagers *)

(* The unlocked reads of a placement; then the INSERT, which claims the    *)
(* unique (user, idempotency key) entry, waiting for another transaction's *)
(* uncommitted claim, and takes a KEY SHARE lock on the market row through *)
(* the foreign key on (market, currency).  A repeat that finds the row     *)
(* already there writes nothing and ends like a rollback.                  *)
PlaceRead(p) ==
  \E w \in Wagers : LET r == Request[w] IN
    /\ state[w] = "none"
    /\ market[r.market] = "open"
    /\ ~ ProfitOverflows(r.odds, r.stake)
    /\ Profit(r.odds, r.stake) \in 1 .. MaxPayout
    /\ Begin(p, "place", w, <<>>)

PlaceClaim(p) ==
  LET w == tx[p].row IN
  /\ Running(p, "place", "begin")
  /\ state[w] = "none"
  /\ Holders(p, w) = {}
  /\ tx' = [tx EXCEPT ![p].step = "key", ![p].holds = {w}]
  /\ UNCHANGED vars

PlaceUnshared(p) ==
  /\ Running(p, "place", "key")
  /\ Proceed(p, "commit", <<>>)
  /\ UNCHANGED vars

PlaceShare(p) ==
  LET m == Market(tx[p].row) IN
  /\ Running(p, "place", "key")
  /\ Holders(p, m) = {}
  /\ tx' = [tx EXCEPT ![p].step = "commit", ![p].shares = {m}]
  /\ UNCHANGED vars

PlaceTx(p) ==
  \/ PlaceRead(p) \/ PlaceClaim(p) \/ PlaceShare(p)
  \/ /\ Running(p, "place", "commit")
     /\ WriteInsert(tx[p].row)
     /\ End(p)

(* Wager row, market state without a lock, the three accounts, the         *)
(* balance, and the write.                                                 *)
AcceptUnfunded(p) ==
  \/ \E w \in Wagers : state[w] # "none" /\ Begin(p, "accept", w, <<w>>)
  \/ LET w == tx[p].row IN
     /\ Running(p, "accept", "begin")
     /\ state[w] = "pending"
     /\ market[Market(w)] \notin Decided
     /\ Proceed(p, "funds", <<>>)
     /\ UNCHANGED vars
  \/ /\ Running(p, "accept", "funds")
     /\ Available(Request[tx[p].row].user) >= stake[tx[p].row]
     /\ Proceed(p, "commit", <<Request[tx[p].row].user, "escrow", "house">>)
     /\ UNCHANGED vars
  \/ /\ Running(p, "accept", "commit")
     /\ WriteAcceptance(tx[p].row)
     /\ End(p)

AcceptLocksMarket(p) ==
  \/ \E w \in Wagers : state[w] # "none" /\ Begin(p, "accept", w, <<w, Market(w)>>)
  \/ LET w == tx[p].row IN
     /\ Running(p, "accept", "begin")
     /\ state[w] = "pending"
     /\ market[Market(w)] \notin Decided
     /\ Proceed(p, "funds", <<Request[w].user, "escrow", "house">>)
     /\ UNCHANGED vars
  \/ /\ Running(p, "accept", "funds")
     /\ Available(Request[tx[p].row].user) >= stake[tx[p].row]
     /\ Proceed(p, "commit", <<>>)
     /\ UNCHANGED vars
  \/ /\ Running(p, "accept", "commit")
     /\ WriteAcceptance(tx[p].row)
     /\ End(p)

AcceptTx(p) ==
  \/ \E w \in Wagers : state[w] # "none" /\ Begin(p, "accept", w, <<w>>)
  \/ LET w == tx[p].row IN
     /\ Running(p, "accept", "begin")
     /\ state[w] = "pending"
     /\ market[Market(w)] \notin Decided
     /\ Proceed(p, "funds", <<Request[w].user, "escrow", "house">>)
     /\ UNCHANGED vars
  \/ /\ Running(p, "accept", "funds")
     /\ Available(Request[tx[p].row].user) >= stake[tx[p].row]
     /\ Proceed(p, "commit", <<>>)
     /\ UNCHANGED vars
  \/ /\ Running(p, "accept", "commit")
     /\ WriteAcceptance(tx[p].row)
     /\ End(p)

RejectTx(p) ==
  \/ \E w \in Wagers : state[w] # "none" /\ Begin(p, "reject", w, <<w>>)
  \/ /\ Running(p, "reject", "begin")
     /\ RejectWager(tx[p].row)
     /\ End(p)

VoidTx(p) ==
  \/ \E w \in Wagers : state[w] # "none" /\ Begin(p, "void", w, <<w>>)
  \/ /\ Running(p, "void", "begin")
     /\ state[tx[p].row] = "accepted"
     /\ Proceed(p, "commit", <<Request[tx[p].row].user, "escrow">>)
     /\ UNCHANGED vars
  \/ /\ Running(p, "void", "commit")
     /\ WriteVoid(tx[p].row)
     /\ End(p)

ReduceTxToNothing(p) ==
  \/ \E w \in Wagers : state[w] # "none" /\ Begin(p, "reduce", w, <<w>>)
  \/ /\ Running(p, "reduce", "begin")
     /\ state[tx[p].row] = "accepted"
     /\ market[Market(tx[p].row)] \notin Decided
     /\ Proceed(p, "commit", <<Request[tx[p].row].user, "escrow">>)
     /\ UNCHANGED vars
  \/ /\ Running(p, "reduce", "commit")
     /\ \E n \in 0 .. stake[tx[p].row] :
          n < stake[tx[p].row] /\ WriteReduction(tx[p].row, n)
     /\ End(p)

ReduceTx(p) ==
  \/ \E w \in Wagers : state[w] # "none" /\ Begin(p, "reduce", w, <<w>>)
  \/ /\ Running(p, "reduce", "begin")
     /\ state[tx[p].row] = "accepted"
     /\ market[Market(tx[p].row)] \notin Decided
     /\ Proceed(p, "commit", <<Request[tx[p].row].user, "escrow">>)
     /\ UNCHANGED vars
  \/ /\ Running(p, "reduce", "commit")
     /\ \E n \in 0 .. stake[tx[p].row] :
          n > 0 /\ n < stake[tx[p].row] /\ WriteReduction(tx[p].row, n)
     /\ End(p)

-----------------------------------------------------------------------------
Step(p) ==
  \/ Lock(p) \/ OpenTx(p) \/ CloseTx(p) \/ NoActionTx(p) \/ SettleTx(p)
  \/ PlaceTx(p) \/ AcceptTx(p) \/ RejectTx(p) \/ VoidTx(p) \/ ReduceTx(p)

TxInit == Init /\ tx = [p \in Workers |-> Idle]

TxNext == \E p \in Workers : Step(p) \/ Rollback(p)

TxSpec == TxInit /\ [][TxNext]_txVars

-----------------------------------------------------------------------------
(* Properties *)

(* Connections, locks and tables have their types.                         *)
TxTypeOK ==
  /\ TypeOK
  /\ \A p \in Workers :
       /\ tx[p].op \in Ops
       /\ tx[p].row \in Markets \cup Wagers \cup {"none"}
       /\ tx[p].step \in {"begin", "key", "wagers", "funds", "commit"}
       /\ Range(tx[p].todo) \subseteq Rows
       /\ tx[p].holds \subseteq Rows
       /\ tx[p].shares \subseteq Markets
       /\ tx[p].seen \subseteq Wagers

(* Between its market read and its commit a placement is a quote.          *)
Visible == [w \in Wagers |->
  IF state[w] = "none" /\ \E p \in Workers : tx[p].op = "place" /\ tx[p].row = w
  THEN "quoted" ELSE state[w]]

B == INSTANCE Book WITH state <- Visible

(* Concurrent transactions are equivalent to Book's operations run one at  *)
(* a time: row locks, the order they are taken in, and the re-reads after  *)
(* them are enough under READ COMMITTED.  In particular a settlement never *)
(* misses a wager accepted while it ran, and no acceptance or reduction    *)
(* follows a settlement it did not see.                                    *)
ImplementsBook == B!Spec

(* "Two concurrent acceptances can never both see a balance sufficient for *)
(* the stake": no member goes below the credit limit.                      *)
NoOverspend == \A u \in Users : Available(u) >= 0

(* p waits for a market or wager row that q has locked.                    *)
WaitsForRow(p, q) ==
  \/ /\ tx[p].todo # <<>>
     /\ LET r == Head(tx[p].todo)
        IN  r \in Markets \cup Wagers /\ q \in Holders(p, r) \cup Sharers(p, r)
  \/ Running(p, "place", "begin") /\ state[tx[p].row] = "none" /\ q \in Holders(p, tx[p].row)
  \/ Running(p, "place", "key") /\ q \in Holders(p, Market(tx[p].row))

(* Markets are locked before wagers and no one waits for a market while    *)
(* holding a wager others can see: no set of transactions waits in a ring  *)
(* over market and wager rows (the order AcceptWager's unlocked market     *)
(* read protects).                                                         *)
NoRowDeadlock ==
  \A S \in SUBSET Workers :
    S # {} => \E p \in S : \A q \in S : ~ WaitsForRow(p, q)

(* Whatever two connections run at once, rows and locks have their types   *)
(* and acceptBalanceTx lets nobody spend what another acceptance has       *)
(* taken.                                                                  *)
TxSound == TxTypeOK /\ NoOverspend
=============================================================================
