---------------------------- MODULE BookTxProofs ----------------------------
(***************************************************************************)
(* The row locks of the store's transactions are enough: whatever the      *)
(* transactions, workers and wagers, what they commit is what Book's       *)
(* operations, run one at a time, would write, no member goes below the    *)
(* credit limit, and no transactions wait in a ring for each other's       *)
(* market and wager rows.                                                  *)
(*                                                                         *)
(* The argument is rely and guarantee.  Shape(p) says which rows worker p  *)
(* holds at each statement and what it has read under them.  A step        *)
(* writes only rows its worker holds (Guarantee), and what a worker read   *)
(* under a lock stays true while others respect the lock.                  *)
(***************************************************************************)
EXTENDS BookTx, BookProofs, SumProofs

StepNames == {"begin", "key", "wagers", "funds", "commit"}

TxRecord ==
  [op : Ops, row : Markets \cup Wagers \cup {"none"}, step : StepNames, todo : Seq(Rows),
   holds : SUBSET Rows, shares : SUBSET Markets, seen : SUBSET Wagers]

AccountRows == Users \cup {"escrow", "house"}

Queued(p) == Range(tx[p].todo)

Owner(w) == Request[w].user

(* A lock excludes locks and shares of others.                             *)
Exclusive ==
  \A p, q \in Workers : p # q =>
    /\ tx[p].holds \cap tx[q].holds = {}
    /\ tx[p].holds \cap tx[q].shares = {}

(* The transaction waits for its first row, or has it and nothing else.    *)
FirstLock(p) ==
  /\ tx[p].step = "begin" /\ tx[p].seen = {} /\ tx[p].shares = {}
  /\ \/ tx[p].todo = <<tx[p].row>> /\ tx[p].holds = {}
     \/ tx[p].todo = <<>> /\ tx[p].holds = {tx[p].row}

(* CloseMarketWithoutAction has counted the wagers under the market lock.  *)
Counted(p) ==
  /\ tx[p].op = "no_action" /\ tx[p].step = "commit" /\ tx[p].todo = <<>>
  /\ tx[p].seen = {} /\ tx[p].shares = {} /\ tx[p].holds = {tx[p].row}
  /\ market[tx[p].row] \in {"closed", "settlement_pending"}
  /\ Live(tx[p].row) = {}

(* A settlement has seen every wager of the market, and locks them, then   *)
(* the accounts of the owners of those it grades.                          *)
Settling(p) ==
  /\ tx[p].op \in {"settle", "void_market"} /\ tx[p].shares = {}
  /\ tx[p].row \in tx[p].holds
  /\ market[tx[p].row] \in {"open", "closed", "settlement_pending"}
  /\ \A w \in Wagers : w \in tx[p].seen <=> Market(w) = tx[p].row /\ state[w] # "none"
  /\ tx[p].holds \subseteq {tx[p].row} \cup tx[p].seen \cup AccountRows
  /\ \/ /\ tx[p].step = "wagers"
        /\ Queued(p) \subseteq tx[p].seen
        /\ tx[p].seen \subseteq tx[p].holds \cup Queued(p)
     \/ /\ tx[p].step = "commit"
        /\ Queued(p) \subseteq AccountRows
        /\ tx[p].seen \subseteq tx[p].holds
        /\ \A w \in tx[p].seen : state[w] = "accepted" => Owner(w) \in tx[p].holds \cup Queued(p)

OnMarket(p) ==
  /\ tx[p].op \in {"open", "close", "no_action", "settle", "void_market"}
  /\ tx[p].row \in Markets
  /\ tx[p].op = "no_action" => tx[p].row \notin MatchMarkets
  /\ FirstLock(p) \/ Counted(p) \/ Settling(p)

(* A placement claims the wager's key, then shares the market row.         *)
Placing(p) ==
  /\ tx[p].op = "place" /\ tx[p].row \in Wagers
  /\ tx[p].todo = <<>> /\ tx[p].seen = {}
  /\ \/ tx[p].step = "begin" /\ tx[p].holds = {} /\ tx[p].shares = {}
     \/ /\ tx[p].step = "key" /\ tx[p].holds = {tx[p].row} /\ tx[p].shares = {}
        /\ state[tx[p].row] = "none"
     \/ /\ tx[p].step = "commit" /\ tx[p].holds = {tx[p].row}
        /\ tx[p].shares = {Market(tx[p].row)}
        /\ state[tx[p].row] = "none"

(* A transaction that moves money has checked its wager under the wager's  *)
(* lock and goes on to the owner's account; an acceptance has then seen    *)
(* that the balance covers the stake.                                      *)
Checked(p) ==
  /\ tx[p].shares = {} /\ tx[p].seen = {}
  /\ tx[p].row \in tx[p].holds
  /\ tx[p].holds \subseteq {tx[p].row} \cup AccountRows
  /\ Queued(p) \subseteq AccountRows
  /\ Owner(tx[p].row) \in tx[p].holds \cup Queued(p)
  /\ \/ /\ tx[p].op = "accept" /\ tx[p].step \in {"funds", "commit"}
        /\ state[tx[p].row] = "pending"
        /\ market[Market(tx[p].row)] \notin Decided
        /\ tx[p].step = "commit" =>
             /\ tx[p].todo = <<>>
             /\ Available(Owner(tx[p].row)) >= stake[tx[p].row]
     \/ /\ tx[p].op = "void" /\ tx[p].step = "commit"
        /\ state[tx[p].row] = "accepted"
     \/ /\ tx[p].op = "reduce" /\ tx[p].step = "commit"
        /\ state[tx[p].row] = "accepted"
        /\ market[Market(tx[p].row)] \notin Decided

OnWager(p) ==
  /\ tx[p].op \in {"accept", "reject", "void", "reduce"}
  /\ tx[p].row \in Wagers /\ state[tx[p].row] # "none"
  /\ FirstLock(p) \/ Checked(p)

Shape(p) == tx[p] = Idle \/ OnMarket(p) \/ Placing(p) \/ OnWager(p)

(* No quote is committed, and no stake was ever raised.                    *)
Committed ==
  \A w \in Wagers : state[w] # "quoted" /\ stake[w] <= Request[w].stake

(* The inductive invariant.                                                *)
TxInv ==
  /\ IInv /\ Committed
  /\ tx \in [Workers -> TxRecord]
  /\ Exclusive
  /\ \A p \in Workers : Shape(p)

-----------------------------------------------------------------------------
(* Lists of rows *)

(* What is queued is what comes next and what comes after it.              *)
LEMMA RangeOfTail ==
  ASSUME NEW S, NEW s \in Seq(S), s # <<>>
  PROVE  /\ Head(s) \in S /\ Tail(s) \in Seq(S)
         /\ Range(s) = {Head(s)} \cup Range(Tail(s))
<1>1. /\ Head(s) \in S /\ Tail(s) \in Seq(S)
      /\ Len(s) \in Nat /\ Len(s) > 0 /\ Len(Tail(s)) = Len(s) - 1
      /\ DOMAIN s = 1 .. Len(s) /\ DOMAIN Tail(s) = 1 .. Len(s) - 1
      /\ Head(s) = s[1] /\ \A i \in 1 .. Len(s) - 1 : Tail(s)[i] = s[i + 1]
  OBVIOUS
<1>2. ASSUME NEW x \in Range(s) PROVE x \in {Head(s)} \cup Range(Tail(s))
  <2>1. PICK i \in 1 .. Len(s) : x = s[i]
    BY <1>1, <1>2 DEF Range
  <2>2. CASE i = 1
    BY <1>1, <2>1, <2>2
  <2>3. CASE i # 1
    <3>1. i - 1 \in DOMAIN Tail(s) /\ Tail(s)[i - 1] = x
      BY <1>1, <2>1, <2>3
    <3>2. QED
      BY <3>1 DEF Range
  <2>4. QED
    BY <2>2, <2>3
<1>3. ASSUME NEW x \in {Head(s)} \cup Range(Tail(s)) PROVE x \in Range(s)
  <2>1. CASE x = Head(s)
    BY <1>1, <2>1 DEF Range
  <2>2. CASE x \in Range(Tail(s))
    <3>1. PICK i \in 1 .. Len(s) - 1 : x = Tail(s)[i]
      BY <1>1, <2>2 DEF Range
    <3>2. i + 1 \in DOMAIN s /\ s[i + 1] = x
      BY <1>1, <3>1
    <3>3. QED
      BY <3>2 DEF Range
  <2>3. QED
    BY <1>3, <2>1, <2>2
<1>4. QED
  BY <1>1, <1>2, <1>3

(* Short lists.                                                            *)
LEMMA RangeOfShort ==
  /\ Range(<<>>) = {}
  /\ \A x : Range(<<x>>) = {x}
  /\ \A x, y : Range(<<x, y>>) = {x, y}
  /\ \A x, y, z : Range(<<x, y, z>>) = {x, y, z}
BY DEF Range

(* A listing of wagers lists exactly them.                                 *)
LEMMA ListingFacts ==
  ASSUME NEW W, W \subseteq Wagers, NEW locks \in Listings(W)
  PROVE  locks \in Seq(W) /\ locks \in Seq(Rows) /\ Range(locks) = W
<1>1. IsFiniteSet(W)
  BY FS_Subset, BookAssumption
<1>2. Cardinality(W) \in Nat
  BY <1>1, FS_CardinalityType
<1>3. locks \in [1 .. Cardinality(W) -> W] /\ Range(locks) = W
  BY DEF Listings, InOrder
<1>4. locks \in Seq(W)
  BY <1>2, <1>3
<1>5. W \subseteq Rows
  BY DEF Rows
<1>6. locks \in Seq(Rows)
  BY <1>2, <1>3, <1>5
<1>7. QED
  BY <1>3, <1>4, <1>6

(* The accounts queued for graded wagers are accounts, each owner's among  *)
(* them.                                                                   *)
LEMMA AccountLocksFacts ==
  ASSUME NEW W, W \subseteq Wagers, NEW listing \in Seq(W), Range(listing) = W
  PROVE  /\ AccountLocks(listing) \in Seq(Rows)
         /\ Range(AccountLocks(listing)) \subseteq AccountRows
         /\ \A w \in W : Owner(w) \in Range(AccountLocks(listing))
<1> DEFINE n == Len(listing)
           locks == AccountLocks(listing)
<1>1. n \in Nat /\ DOMAIN listing = 1 .. n /\ \A i \in 1 .. n : listing[i] \in W
  OBVIOUS
<1>2. \A w \in Wagers : Owner(w) \in Users
  BY BookAssumption DEF Owner, Requests
<1>3. DOMAIN locks = 1 .. 3 * n
  BY DEF AccountLocks
<1>4. ASSUME NEW k \in 1 .. 3 * n PROVE locks[k] \in AccountRows
  <2>1. CASE k % 3 = 1
    <3>1. (k + 2) \div 3 \in 1 .. n
      BY <1>1, <2>1
    <3>2. locks[k] = Request[listing[(k + 2) \div 3]].user
      BY <2>1 DEF AccountLocks
    <3>3. QED
      BY <1>1, <1>2, <3>1, <3>2 DEF Owner, AccountRows
  <2>2. CASE k % 3 = 2
    BY <2>2 DEF AccountLocks, AccountRows
  <2>3. CASE k % 3 = 0
    BY <2>3 DEF AccountLocks, AccountRows
  <2>4. k % 3 \in 0 .. 2
    BY <1>1
  <2>5. QED
    BY <2>1, <2>2, <2>3, <2>4
<1>5. AccountRows \subseteq Rows
  BY DEF AccountRows, Rows
<1>6. locks \in Seq(Rows)
  <2>1. locks = [k \in 1 .. 3 * n |-> locks[k]]
    BY DEF AccountLocks
  <2>2. 3 * n \in Nat
    BY <1>1
  <2> HIDE DEF locks
  <2>3. locks \in [1 .. 3 * n -> Rows]
    BY <1>4, <1>5, <2>1
  <2>4. QED
    BY <2>2, <2>3
<1>7. Range(locks) \subseteq AccountRows
  BY <1>3, <1>4 DEF Range
<1>8. ASSUME NEW w \in W PROVE Owner(w) \in Range(locks)
  <2>1. PICK i \in 1 .. n : listing[i] = w
    BY <1>1 DEF Range
  <2>2. /\ 3 * i - 2 \in 1 .. 3 * n /\ (3 * i - 2) % 3 = 1
        /\ ((3 * i - 2) + 2) \div 3 = i
    BY <1>1
  <2>3. locks[3 * i - 2] = Owner(w)
    BY <2>1, <2>2 DEF AccountLocks, Owner
  <2>4. QED
    BY <1>3, <2>2, <2>3 DEF Range
<1>9. QED
  BY <1>6, <1>7, <1>8

-----------------------------------------------------------------------------
(* What a statement does to its transaction *)

Others(p) == \A q \in Workers \ {p} : tx'[q] = tx[q]

(* Beginning a transaction fills in what it is about and nothing else.     *)
LEMMA BeginFacts ==
  ASSUME tx \in [Workers -> TxRecord], NEW p \in Workers, NEW op \in Ops,
         NEW row \in Markets \cup Wagers, NEW locks \in Seq(Rows),
         Begin(p, op, row, locks)
  PROVE  /\ tx' \in [Workers -> TxRecord] /\ Others(p) /\ UNCHANGED vars
         /\ tx[p] = Idle
         /\ tx'[p].op = op /\ tx'[p].row = row /\ tx'[p].step = "begin"
         /\ tx'[p].todo = locks /\ tx'[p].holds = {} /\ tx'[p].shares = {}
         /\ tx'[p].seen = {}
<1> DEFINE t == [Idle EXCEPT !.op = op, !.row = row, !.todo = locks]
<1>1. t \in TxRecord
  BY DEF TxRecord, Idle, StepNames
<1>2. tx' = [tx EXCEPT ![p] = t]
  BY DEF Begin
<1>3. /\ t.op = op /\ t.row = row /\ t.step = "begin" /\ t.todo = locks
      /\ t.holds = {} /\ t.shares = {} /\ t.seen = {}
  BY DEF Idle
<1> HIDE DEF t
<1>4. tx' \in [Workers -> TxRecord] /\ tx'[p] = t /\ Others(p)
  BY <1>1, <1>2 DEF Others
<1>5. QED
  BY <1>3, <1>4 DEF Begin

(* Ending one forgets it.                                                  *)
LEMMA EndFacts ==
  ASSUME tx \in [Workers -> TxRecord], NEW p \in Workers, End(p)
  PROVE  tx' \in [Workers -> TxRecord] /\ Others(p) /\ tx'[p] = Idle
<1>1. Idle \in TxRecord
  BY DEF TxRecord, Idle, StepNames, Ops
<1>2. QED
  BY <1>1 DEF End, Others

(* The fields of a transaction have their types.                           *)
LEMMA FieldTypes ==
  ASSUME tx \in [Workers -> TxRecord], NEW p \in Workers
  PROVE  /\ tx[p].op \in Ops /\ tx[p].row \in Markets \cup Wagers \cup {"none"}
         /\ tx[p].step \in StepNames /\ tx[p].todo \in Seq(Rows)
         /\ tx[p].holds \in SUBSET Rows /\ tx[p].shares \in SUBSET Markets
         /\ tx[p].seen \in SUBSET Wagers
BY DEF TxRecord

(* Going on to the next statement.                                         *)
LEMMA ProceedFacts ==
  ASSUME tx \in [Workers -> TxRecord], NEW p \in Workers,
         NEW step \in StepNames, NEW locks \in Seq(Rows), Proceed(p, step, locks)
  PROVE  /\ tx' \in [Workers -> TxRecord] /\ Others(p)
         /\ tx'[p].op = tx[p].op /\ tx'[p].row = tx[p].row /\ tx'[p].step = step
         /\ tx'[p].todo = locks /\ tx'[p].holds = tx[p].holds
         /\ tx'[p].shares = tx[p].shares /\ tx'[p].seen = tx[p].seen
<1> DEFINE t == tx[p]
           u == [t EXCEPT !.step = step, !.todo = locks]
<1>1. t \in TxRecord
  OBVIOUS
<1>2. tx'[p] = u /\ Others(p) /\ tx' = [q \in Workers |-> IF q = p THEN u ELSE tx[q]]
  BY DEF Proceed, Others
<1> HIDE DEF t
<1>3. /\ u.op = t.op /\ u.row = t.row /\ u.step = step /\ u.todo = locks
      /\ u.holds = t.holds /\ u.shares = t.shares /\ u.seen = t.seen
      /\ u \in TxRecord
  BY <1>1 DEF TxRecord
<1> HIDE DEF u
<1>4. tx' \in [Workers -> TxRecord]
  BY <1>2, <1>3
<1>5. QED
  BY <1>2, <1>3, <1>4 DEF t

(* Locking the next row.                                                   *)
LEMMA LockFacts ==
  ASSUME tx \in [Workers -> TxRecord], NEW p \in Workers, Lock(p)
  PROVE  /\ tx' \in [Workers -> TxRecord] /\ Others(p) /\ UNCHANGED vars
         /\ tx[p].todo # <<>>
         /\ tx'[p].op = tx[p].op /\ tx'[p].row = tx[p].row /\ tx'[p].step = tx[p].step
         /\ tx'[p].todo = Tail(tx[p].todo)
         /\ tx'[p].holds = tx[p].holds \cup {Head(tx[p].todo)}
         /\ tx'[p].shares = tx[p].shares /\ tx'[p].seen = tx[p].seen
         /\ Queued(p) = {Head(tx[p].todo)} \cup Queued(p)'
         /\ \A q \in Workers \ {p} : Head(tx[p].todo) \notin tx[q].holds \cup tx[q].shares
<1>1. tx[p].todo \in Seq(Rows) /\ tx[p].todo # <<>>
  BY FieldTypes DEF Lock
<1>2. /\ Head(tx[p].todo) \in Rows /\ Tail(tx[p].todo) \in Seq(Rows)
      /\ Range(tx[p].todo) = {Head(tx[p].todo)} \cup Range(Tail(tx[p].todo))
  BY <1>1, RangeOfTail
<1> DEFINE t == tx[p]
           T == Tail(t.todo)
           H == t.holds \cup {Head(t.todo)}
           u == [t EXCEPT !.todo = T, !.holds = H]
<1>3. t \in TxRecord /\ T \in Seq(Rows) /\ H \in SUBSET Rows
  BY <1>2, FieldTypes
<1>4. tx'[p] = u /\ Others(p) /\ tx' = [q \in Workers |-> IF q = p THEN u ELSE tx[q]]
  BY DEF Lock, Others
<1> HIDE DEF t, T, H
<1>4a. /\ u.op = t.op /\ u.row = t.row /\ u.step = t.step /\ u.todo = T
      /\ u.holds = H /\ u.shares = t.shares /\ u.seen = t.seen
      /\ u \in TxRecord
  BY <1>3 DEF TxRecord
<1> HIDE DEF u
<1>4b. tx' \in [Workers -> TxRecord]
  BY <1>4, <1>4a
<1>5. /\ tx' \in [Workers -> TxRecord] /\ Others(p)
      /\ tx'[p].op = tx[p].op /\ tx'[p].row = tx[p].row /\ tx'[p].step = tx[p].step
      /\ tx'[p].todo = Tail(tx[p].todo)
      /\ tx'[p].holds = tx[p].holds \cup {Head(tx[p].todo)}
      /\ tx'[p].shares = tx[p].shares /\ tx'[p].seen = tx[p].seen
  BY <1>4, <1>4a, <1>4b DEF t, T, H
<1>6. \A q \in Workers \ {p} : Head(tx[p].todo) \notin tx[q].holds \cup tx[q].shares
  BY DEF Lock, Holders, Sharers
<1>7. QED
  BY <1>1, <1>2, <1>5, <1>6 DEF Lock, Queued

(* A settlement's load: what it sees it queues.                            *)
LEMMA LoadFacts ==
  ASSUME tx \in [Workers -> TxRecord], NEW p \in Workers,
         NEW rows \in SUBSET Wagers, NEW locks \in Seq(Rows),
         Load(p, rows, locks)
  PROVE  /\ tx' \in [Workers -> TxRecord] /\ Others(p)
         /\ tx'[p].op = tx[p].op /\ tx'[p].row = tx[p].row /\ tx'[p].step = "wagers" /\ tx'[p].todo = locks
         /\ tx'[p].holds = tx[p].holds /\ tx'[p].shares = tx[p].shares /\ tx'[p].seen = rows
<1> DEFINE t == tx[p]
           u == [t EXCEPT !.step = "wagers", !.seen = rows, !.todo = locks]
<1>1. t \in TxRecord
  OBVIOUS
<1>2. tx'[p] = u /\ Others(p) /\ tx' = [q \in Workers |-> IF q = p THEN u ELSE tx[q]]
  BY DEF Load, Others
<1> HIDE DEF t
<1>3. /\ u.op = t.op /\ u.row = t.row /\ u.step = "wagers" /\ u.todo = locks
      /\ u.holds = t.holds /\ u.shares = t.shares /\ u.seen = rows
      /\ u \in TxRecord
  BY <1>1 DEF TxRecord, StepNames
<1> HIDE DEF u
<1>4. tx' \in [Workers -> TxRecord]
  BY <1>2, <1>3
<1>5. QED
  BY <1>2, <1>3, <1>4 DEF t

(* A placement claims the key of its wager.                                *)
LEMMA ClaimFacts ==
  ASSUME tx \in [Workers -> TxRecord], NEW p \in Workers,
         NEW w \in Wagers,
         tx' = [tx EXCEPT ![p].step = "key", ![p].holds = {w}]
  PROVE  /\ tx' \in [Workers -> TxRecord] /\ Others(p)
         /\ tx'[p].op = tx[p].op /\ tx'[p].row = tx[p].row /\ tx'[p].step = "key" /\ tx'[p].todo = tx[p].todo
         /\ tx'[p].holds = {w} /\ tx'[p].shares = tx[p].shares /\ tx'[p].seen = tx[p].seen
<1> DEFINE t == tx[p]
           u == [t EXCEPT !.step = "key", !.holds = {w}]
<1>1. t \in TxRecord
  OBVIOUS
<1>2. tx'[p] = u /\ Others(p) /\ tx' = [q \in Workers |-> IF q = p THEN u ELSE tx[q]]
  BY DEF Others
<1> HIDE DEF t
<1>3. /\ u.op = t.op /\ u.row = t.row /\ u.step = "key" /\ u.todo = t.todo
      /\ u.holds = {w} /\ u.shares = t.shares /\ u.seen = t.seen
      /\ u \in TxRecord
  BY <1>1 DEF TxRecord, StepNames, Rows
<1> HIDE DEF u
<1>4. tx' \in [Workers -> TxRecord]
  BY <1>2, <1>3
<1>5. QED
  BY <1>2, <1>3, <1>4 DEF t

(* It shares the row of the market.                                        *)
LEMMA ShareFacts ==
  ASSUME tx \in [Workers -> TxRecord], NEW p \in Workers,
         NEW m \in Markets,
         tx' = [tx EXCEPT ![p].step = "commit", ![p].shares = {m}]
  PROVE  /\ tx' \in [Workers -> TxRecord] /\ Others(p)
         /\ tx'[p].op = tx[p].op /\ tx'[p].row = tx[p].row /\ tx'[p].step = "commit" /\ tx'[p].todo = tx[p].todo
         /\ tx'[p].holds = tx[p].holds /\ tx'[p].shares = {m} /\ tx'[p].seen = tx[p].seen
<1> DEFINE t == tx[p]
           u == [t EXCEPT !.step = "commit", !.shares = {m}]
<1>1. t \in TxRecord
  OBVIOUS
<1>2. tx'[p] = u /\ Others(p) /\ tx' = [q \in Workers |-> IF q = p THEN u ELSE tx[q]]
  BY DEF Others
<1> HIDE DEF t
<1>3. /\ u.op = t.op /\ u.row = t.row /\ u.step = "commit" /\ u.todo = t.todo
      /\ u.holds = t.holds /\ u.shares = {m} /\ u.seen = t.seen
      /\ u \in TxRecord
  BY <1>1 DEF TxRecord, StepNames
<1> HIDE DEF u
<1>4. tx' \in [Workers -> TxRecord]
  BY <1>2, <1>3
<1>5. QED
  BY <1>2, <1>3, <1>4 DEF t

-----------------------------------------------------------------------------
(* What a committing transaction writes *)

(* The commit of worker p, as an operation of Book on the committed tables *)
(* together with the locks p holds for it.                                 *)
MarketCommit(p) ==
  LET m == tx[p].row IN
  /\ m \in Markets /\ m \in tx[p].holds
  /\ OpenMarket(m) \/ CloseMarket(m) \/ CloseMarketWithoutAction(m)

SettleCommit(p) ==
  LET m == tx[p].row IN
  /\ m \in Markets /\ m \in tx[p].holds
  /\ \A w \in Wagers : Market(w) = m /\ state[w] # "none" => w \in tx[p].holds
  /\ \A w \in Accepted(m) : Owner(w) \in tx[p].holds
  /\ \/ \E out \in Outcomes, tied \in BOOLEAN : SettleMarket(m, out, tied)
     \/ VoidMarket(m)

InsertCommit(p) ==
  LET w == tx[p].row IN
  /\ tx[p].op = "place" /\ w \in Wagers
  /\ w \in tx[p].holds /\ Market(w) \in tx[p].shares
  /\ state[w] = "none" /\ WriteInsert(w)

RejectCommit(p) ==
  LET w == tx[p].row IN
  w \in Wagers /\ w \in tx[p].holds /\ RejectWager(w)

MoneyCommit(p) ==
  LET w == tx[p].row IN
  /\ w \in Wagers /\ w \in tx[p].holds /\ Owner(w) \in tx[p].holds
  /\ AcceptWager(w) \/ VoidWager(w) \/ \E n \in 0 .. Request[w].stake : ReduceWager(w, n)

Commits(p) ==
  /\ End(p)
  /\ MarketCommit(p) \/ SettleCommit(p) \/ InsertCommit(p) \/ RejectCommit(p) \/ MoneyCommit(p)

LiveStates == {"pending", "accepted"}

(* What a step of worker p may do to the tables: it writes only rows it    *)
(* has locked, moves money only of members whose account it has locked,    *)
(* adds wagers only to markets it shares, and decides a market only when   *)
(* it has locked every wager on it.                                        *)
Guarantee(p) ==
  /\ \A m \in Markets : market'[m] # market[m] => m \in tx[p].holds
  /\ \A w \in Wagers :
       /\ state'[w] # state[w] \/ stake'[w] # stake[w] => w \in tx[p].holds
       /\ ledger'[w] # ledger[w] => Owner(w) \in tx[p].holds
       /\ state[w] # "none" => state'[w] # "none"
       /\ state[w] = "none" /\ state'[w] # "none" => Market(w) \in tx[p].shares
       /\ state'[w] \in LiveStates => state[w] \in LiveStates \cup {"none"}
       /\ market[Market(w)] \notin Decided /\ market'[Market(w)] \in Decided /\ state[w] # "none"
            => w \in tx[p].holds

(* A step that commits nothing guarantees it.                              *)
LEMMA QuietGuarantee ==
  ASSUME NEW p \in Workers, UNCHANGED vars
  PROVE  Guarantee(p)
BY DEF Guarantee, vars, marketVars, wagerVars, LiveStates

(* So does a commit.                                                       *)
LEMMA CommitGuarantee ==
  ASSUME TypeOK, NEW p \in Workers, Commits(p)
  PROVE  Guarantee(p)
<1> USE BookAssumption
<1>0. \A w \in Wagers : Market(w) \in Markets
  BY DEF Market, Requests
<1>1. CASE MarketCommit(p)
  BY <1>0, <1>1 DEF MarketCommit, Guarantee, OpenMarket, CloseMarket, CloseMarketWithoutAction,
       TypeOK, wagerVars, Decided, LiveStates
<1>2. CASE SettleCommit(p)
  <2> DEFINE m == tx[p].row
  <2>1. /\ m \in Markets /\ m \in tx[p].holds
        /\ \A w \in Wagers : Market(w) = m /\ state[w] # "none" => w \in tx[p].holds
        /\ \A w \in Accepted(m) : Owner(w) \in tx[p].holds
    BY <1>2 DEF SettleCommit
  <2>2. PICK out, n, s : Grade(m, out, n) /\ market' = [market EXCEPT ![m] = s]
    BY <1>2 DEF SettleCommit, SettleMarket, VoidMarket
  <2>3. ASSUME NEW w \in Wagers
        PROVE  /\ stake'[w] = stake[w]
               /\ w \notin Accepted(m) => state'[w] = state[w] /\ ledger'[w] = ledger[w]
               /\ w \in Accepted(m) => state'[w] \in {"settled", "voided"}
    BY <2>2 DEF Grade, GradeSet
  <2>4. \A k \in Markets : k # m => market'[k] = market[k]
    BY <2>2 DEF TypeOK
  <2>5. \A w \in Accepted(m) : w \in Wagers /\ Market(w) = m /\ state[w] = "accepted"
    BY DEF Accepted
  <2> HIDE DEF m
  <2>6. QED
    BY <1>0, <2>1, <2>3, <2>4, <2>5 DEF Guarantee, LiveStates
<1>3. CASE InsertCommit(p)
  BY <1>0, <1>3 DEF InsertCommit, WriteInsert, Guarantee, TypeOK, marketVars, Decided, LiveStates
<1>4. CASE RejectCommit(p)
  BY <1>0, <1>4 DEF RejectCommit, RejectWager, WriteRejection, Guarantee, TypeOK, marketVars,
       Decided, LiveStates
<1>5. CASE MoneyCommit(p)
  <2> DEFINE r == tx[p].row
  <2>1. /\ r \in Wagers /\ r \in tx[p].holds /\ Owner(r) \in tx[p].holds
        /\ state[r] \in LiveStates /\ UNCHANGED marketVars
        /\ \A w \in Wagers : w # r =>
             state'[w] = state[w] /\ stake'[w] = stake[w] /\ ledger'[w] = ledger[w]
        /\ state'[r] # "none"
    BY <1>5 DEF MoneyCommit, AcceptWager, VoidWager, ReduceWager, WriteAcceptance, WriteVoid,
         WriteReduction, TypeOK, LiveStates, marketVars
  <2> HIDE DEF r
  <2>2. QED
    BY <1>0, <2>1 DEF Guarantee, marketVars, LiveStates
<1>6. QED
  BY <1>1, <1>2, <1>3, <1>4, <1>5 DEF Commits

-----------------------------------------------------------------------------
(* What a worker has read under its locks stays true *)

(* What worker q relies on while others run.                               *)
Rely(q) ==
  /\ tx'[q] = tx[q]
  /\ \A m \in Markets : m \in tx[q].holds => market'[m] = market[m]
  /\ \A w \in Wagers :
       /\ w \in tx[q].holds => state'[w] = state[w] /\ stake'[w] = stake[w]
       /\ Owner(w) \in tx[q].holds => ledger'[w] = ledger[w]
       /\ state[w] # "none" => state'[w] # "none"
       /\ state[w] = "none" /\ Market(w) \in tx[q].holds => state'[w] = "none"
       /\ state'[w] \in LiveStates => state[w] \in LiveStates \cup {"none"}
       /\ w \in tx[q].holds /\ state[w] # "none" /\ market[Market(w)] \notin Decided
            => market'[Market(w)] \notin Decided

(* Exclusive locks turn what one worker guarantees into what the others    *)
(* rely on.                                                                *)
LEMMA LocksProtect ==
  ASSUME NEW p \in Workers, NEW q \in Workers, p # q,
         Exclusive, Guarantee(p), tx'[q] = tx[q]
  PROVE  Rely(q)
BY DEF Exclusive, Guarantee, Rely

(* A member's available balance depends on the ledger of their own wagers. *)
LEMMA SameAvailable ==
  ASSUME NEW u, \A w \in Wagers : Owner(w) = u => ledger'[w] = ledger[w]
  PROVE  Available(u)' = Available(u)
<1> DEFINE mine == {v \in Wagers : Request[v].user = u}
<1>1. [w \in mine |-> ledger'[w].reduced + ledger'[w].paid - ledger'[w].accepted]
        = [w \in mine |-> ledger[w].reduced + ledger[w].paid - ledger[w].accepted]
  BY DEF Owner
<1>2. QED
  BY <1>1 DEF Available, UserNet

(* Hence the shape of a waiting transaction is stable.                     *)
LEMMA ShapeStable ==
  ASSUME tx \in [Workers -> TxRecord], NEW q \in Workers, Shape(q), Rely(q)
  PROVE  Shape(q)'
<1> USE BookAssumption
<1>0. tx'[q] = tx[q] /\ Queued(q)' = Queued(q)
  BY DEF Rely, Queued
<1>1. CASE tx[q] = Idle
  BY <1>0, <1>1 DEF Shape, Idle
<1>2. CASE OnMarket(q)
  <2>1. FirstLock(q) => FirstLock(q)'
    BY <1>0 DEF FirstLock
  <2>2. Counted(q) => Counted(q)'
    <3>1. ASSUME Counted(q) PROVE Counted(q)'
      <4>1. market'[tx[q].row] = market[tx[q].row] /\ tx[q].row \in tx[q].holds
        BY <1>2, <3>1 DEF OnMarket, Counted, Rely
      <4>2. \A w \in Wagers : Market(w) = tx[q].row => state'[w] \notin {"pending", "accepted"}
        BY <3>1, <4>1 DEF Counted, Live, Rely, LiveStates
      <4>3. Live(tx[q].row)' = {}
        BY <1>0, <4>2 DEF Live, Market
      <4>4. QED
        BY <1>0, <3>1, <4>1, <4>3 DEF Counted, Live
    <3>2. QED
      BY <3>1
  <2>3. Settling(q) => Settling(q)'
    <3>1. ASSUME Settling(q) PROVE Settling(q)'
      <4>1. market'[tx[q].row] = market[tx[q].row] /\ tx[q].row \in tx[q].holds
        BY <1>2, <3>1 DEF OnMarket, Settling, Rely
      <4>2. \A w \in Wagers : w \in tx[q].seen <=> Market(w) = tx[q].row /\ state'[w] # "none"
        BY <3>1, <4>1 DEF Settling, Rely
      <4>3. tx[q].seen \subseteq tx[q].holds => \A w \in tx[q].seen : state'[w] = state[w]
        BY <3>1, FieldTypes DEF Rely
      <4>4. QED
        BY <1>0, <3>1, <4>1, <4>2, <4>3 DEF Settling, Market, Owner
    <3>2. QED
      BY <3>1
  <2>4. QED
    BY <1>0, <1>2, <2>1, <2>2, <2>3 DEF Shape, OnMarket
<1>3. CASE Placing(q)
  <2>1. Placing(q)'
    BY <1>0, <1>3 DEF Placing, Rely, Market
  <2>2. QED
    BY <2>1 DEF Shape
<1>4. CASE OnWager(q)
  <2>1. FirstLock(q) => FirstLock(q)'
    BY <1>0 DEF FirstLock
  <2>2. Checked(q) => Checked(q)'
    <3>1. ASSUME Checked(q) PROVE Checked(q)'
      <4> DEFINE w == tx[q].row
      <4>1. w \in Wagers /\ w \in tx[q].holds /\ state[w] # "none"
        BY <1>4, <3>1 DEF OnWager, Checked
      <4>2. state'[w] = state[w] /\ stake'[w] = stake[w]
        BY <4>1 DEF Rely
      <4>3. market[Market(w)] \notin Decided => market'[Market(w)] \notin Decided
        BY <4>1 DEF Rely
      <4>4. tx[q].todo = <<>> => Available(Owner(w))' = Available(Owner(w))
        <5>1. ASSUME tx[q].todo = <<>> PROVE Owner(w) \in tx[q].holds
          BY <3>1, <5>1, RangeOfShort DEF Checked, Queued
        <5>2. ASSUME tx[q].todo = <<>>
              PROVE  \A v \in Wagers : Owner(v) = Owner(w) => ledger'[v] = ledger[v]
          BY <5>1, <5>2 DEF Rely
        <5>3. ASSUME tx[q].todo = <<>> PROVE Available(Owner(w))' = Available(Owner(w))
          <6>1. \A v \in Wagers : Owner(v) = Owner(w) => ledger'[v] = ledger[v]
            BY <5>2, <5>3
          <6>2. PICK u : u = Owner(w)
            OBVIOUS
          <6>3. Available(u)' = Available(u)
            BY <6>1, <6>2, SameAvailable
          <6>4. QED
            BY <1>0, <6>2, <6>3 DEF Owner, Available
        <5>4. QED
          BY <5>3
      <4>5. QED
        BY <1>0, <3>1, <4>1, <4>2, <4>3, <4>4 DEF Checked, Market, Owner
    <3>2. QED
      BY <3>1
  <2>3. tx[q].row \in Wagers /\ state'[tx[q].row] # "none"
    BY <1>4 DEF OnWager, Rely
  <2>4. QED
    BY <1>0, <1>4, <2>1, <2>2, <2>3 DEF Shape, OnWager
<1>5. QED
  BY <1>1, <1>2, <1>3, <1>4 DEF Shape

-----------------------------------------------------------------------------
(* One statement of one worker *)

(* The rows a statement locks are free.                                    *)
FreshLocks(p) ==
  \A q \in Workers \ {p} :
    /\ tx'[p].holds \cap (tx[q].holds \cup tx[q].shares) \subseteq tx[p].holds
    /\ tx'[p].shares \cap tx[q].holds \subseteq tx[p].shares

(* A placement starts with its read, and ends with its insertion or by     *)
(* rolling back; no other statement makes or unmakes one.                  *)
SamePlacement(p) ==
  \/ tx'[p].op = tx[p].op /\ tx'[p].row = tx[p].row
  \/ tx[p].op # "place" /\ tx'[p].op # "place"
  \/ PlaceRead(p)
  \/ Rollback(p)

(* A statement that writes nothing others can see.                         *)
Moves(p) ==
  /\ tx' \in [Workers -> TxRecord] /\ Others(p) /\ UNCHANGED vars
  /\ FreshLocks(p) /\ SamePlacement(p) /\ Shape(p)'

(* Beginning a transaction on a market.                                    *)
LEMMA BeginOnMarket ==
  ASSUME tx \in [Workers -> TxRecord], NEW p \in Workers, NEW m \in Markets,
         NEW op \in {"open", "close", "no_action", "settle", "void_market"},
         op = "no_action" => m \notin MatchMarkets,
         Begin(p, op, m, <<m>>)
  PROVE  Moves(p)
<1>1. <<m>> \in Seq(Rows) /\ op \in Ops
  BY DEF Rows, Ops
<1>2. /\ tx' \in [Workers -> TxRecord] /\ Others(p) /\ UNCHANGED vars
      /\ tx'[p].op = op /\ tx'[p].row = m /\ tx'[p].step = "begin"
      /\ tx'[p].todo = <<m>> /\ tx'[p].holds = {} /\ tx'[p].shares = {}
      /\ tx'[p].seen = {}
  BY <1>1, BeginFacts
<1>3. FirstLock(p)'
  BY <1>2 DEF FirstLock
<1>4. tx[p].op # "place"
  BY DEF Begin, Idle
<1>5. QED
  BY <1>4, <1>2, <1>3 DEF Moves, FreshLocks, SamePlacement, Shape, OnMarket

(* Beginning a transaction on a wager that is on the books.                *)
LEMMA BeginOnWager ==
  ASSUME tx \in [Workers -> TxRecord], NEW p \in Workers, NEW w \in Wagers,
         NEW op \in {"accept", "reject", "void", "reduce"}, state[w] # "none",
         Begin(p, op, w, <<w>>)
  PROVE  Moves(p)
<1>1. <<w>> \in Seq(Rows) /\ op \in Ops
  BY DEF Rows, Ops
<1>2. /\ tx' \in [Workers -> TxRecord] /\ Others(p) /\ UNCHANGED vars
      /\ tx'[p].op = op /\ tx'[p].row = w /\ tx'[p].step = "begin"
      /\ tx'[p].todo = <<w>> /\ tx'[p].holds = {} /\ tx'[p].shares = {}
      /\ tx'[p].seen = {}
  BY <1>1, BeginFacts
<1>3. FirstLock(p)'
  BY <1>2 DEF FirstLock
<1>4. state' = state
  BY <1>2 DEF vars, wagerVars
<1>5. tx[p].op # "place"
  BY DEF Begin, Idle
<1>6. QED
  BY <1>5, <1>2, <1>3, <1>4 DEF Moves, FreshLocks, SamePlacement, Shape, OnWager

(* Taking the next row: the queue and the locks together stay the same.    *)
LEMMA LockMoves ==
  ASSUME tx \in [Workers -> TxRecord], NEW p \in Workers, Shape(p), Lock(p)
  PROVE  Moves(p)
<1> DEFINE r == Head(tx[p].todo)
<1>1. /\ tx' \in [Workers -> TxRecord] /\ Others(p) /\ UNCHANGED vars
      /\ tx[p].todo # <<>>
      /\ tx'[p].op = tx[p].op /\ tx'[p].row = tx[p].row /\ tx'[p].step = tx[p].step
      /\ tx'[p].todo = Tail(tx[p].todo)
      /\ tx'[p].holds = tx[p].holds \cup {r}
      /\ tx'[p].shares = tx[p].shares /\ tx'[p].seen = tx[p].seen
      /\ Queued(p) = {r} \cup Queued(p)'
      /\ \A q \in Workers \ {p} : r \notin tx[q].holds \cup tx[q].shares
  BY LockFacts
<1>2. FreshLocks(p)
  BY <1>1 DEF FreshLocks
<1>3. market' = market /\ state' = state
  BY <1>1 DEF vars, marketVars, wagerVars
<1>4. ASSUME FirstLock(p) PROVE FirstLock(p)'
  <2>1. tx[p].todo = <<tx[p].row>> /\ tx[p].holds = {}
    BY <1>1, <1>4 DEF FirstLock
  <2>2. Tail(tx[p].todo) = <<>> /\ r = tx[p].row
    BY <2>1
  <2>3. QED
    BY <1>1, <1>4, <2>1, <2>2 DEF FirstLock
<1>5. CASE OnMarket(p)
  <2>1. ASSUME Settling(p) PROVE Settling(p)'
    BY <1>1, <1>3, <2>1 DEF Settling, Market, Owner
  <2>2. ~ Counted(p)
    BY <1>1 DEF Counted
  <2>3. OnMarket(p)'
    BY <1>1, <1>4, <1>5, <2>1, <2>2 DEF OnMarket
  <2>4. QED
    BY <1>1, <1>2, <2>3 DEF Moves, SamePlacement, Shape
<1>6. CASE OnWager(p)
  <2>1. ASSUME Checked(p) PROVE Checked(p)'
    <3>1. ~ (tx[p].op = "accept" /\ tx[p].step = "commit")
      BY <1>1, <2>1 DEF Checked
    <3>2. QED
      BY <1>1, <1>3, <2>1, <3>1 DEF Checked, Market, Owner
  <2>2. OnWager(p)'
    BY <1>1, <1>3, <1>4, <1>6, <2>1 DEF OnWager
  <2>3. QED
    BY <1>1, <1>2, <2>2 DEF Moves, SamePlacement, Shape
<1>7. tx[p] # Idle /\ ~ Placing(p)
  BY <1>1 DEF Idle, Placing
<1>8. QED
  BY <1>5, <1>6, <1>7 DEF Shape

(* The lifecycle transactions of a market.                                 *)
LEMMA OpenOrCloseMoves ==
  ASSUME TxInv, NEW p \in Workers, OpenTx(p) \/ CloseTx(p)
  PROVE  Moves(p) \/ Commits(p)
<1> USE DEF TxInv
<1>1. CASE \E m \in Markets : Begin(p, "open", m, <<m>>) \/ Begin(p, "close", m, <<m>>)
  <2>1. PICK m \in Markets : Begin(p, "open", m, <<m>>) \/ Begin(p, "close", m, <<m>>)
    BY <1>1
  <2>2. QED
    BY <2>1, BeginOnMarket
<1>2. CASE /\ tx[p].op \in {"open", "close"} /\ tx[p].todo = <<>>
           /\ OpenMarket(tx[p].row) \/ CloseMarket(tx[p].row)
           /\ End(p)
  <2>1. Shape(p)
    OBVIOUS
  <2>2. tx[p].row \in Markets /\ FirstLock(p)
    BY <1>2, <2>1 DEF Shape, Idle, OnMarket, Placing, OnWager, Counted, Settling
  <2>3. tx[p].row \in tx[p].holds
    BY <1>2, <2>2 DEF FirstLock
  <2>4. QED
    BY <1>2, <2>2, <2>3 DEF Commits, MarketCommit
<1>3. QED
  BY <1>1, <1>2 DEF OpenTx, CloseTx, Running

(* CloseMarketWithoutAction counts under the lock it still holds when it   *)
(* writes.                                                                 *)
LEMMA NoActionMoves ==
  ASSUME TxInv, NEW p \in Workers, NoActionTx(p)
  PROVE  Moves(p) \/ Commits(p)
<1> USE DEF TxInv
<1>0. Shape(p)
  OBVIOUS
<1>1. CASE \E m \in Markets \ MatchMarkets : Begin(p, "no_action", m, <<m>>)
  BY <1>1, BeginOnMarket
<1>2. CASE /\ Running(p, "no_action", "begin")
           /\ market[tx[p].row] \in {"closed", "settlement_pending"}
           /\ Live(tx[p].row) = {}
           /\ Proceed(p, "commit", <<>>)
           /\ UNCHANGED vars
  <2>1. OnMarket(p) /\ FirstLock(p)
    BY <1>0, <1>2 DEF Running, Shape, Idle, OnMarket, Placing, OnWager, Counted, Settling
  <2>2. <<>> \in Seq(Rows) /\ "commit" \in StepNames
    BY DEF StepNames
  <2>3. /\ tx' \in [Workers -> TxRecord] /\ Others(p)
        /\ tx'[p].op = tx[p].op /\ tx'[p].row = tx[p].row /\ tx'[p].step = "commit"
        /\ tx'[p].todo = <<>> /\ tx'[p].holds = tx[p].holds
        /\ tx'[p].shares = tx[p].shares /\ tx'[p].seen = tx[p].seen
    BY <1>2, <2>2, ProceedFacts
  <2>4. market' = market /\ state' = state
    BY <1>2 DEF vars, marketVars, wagerVars
  <2>5. Counted(p)'
    BY <1>2, <2>1, <2>3, <2>4 DEF Running, FirstLock, Counted, Live, Market
  <2>6. OnMarket(p)'
    BY <2>1, <2>3, <2>5 DEF OnMarket
  <2>7. QED
    BY <1>2, <2>3, <2>6 DEF Moves, FreshLocks, SamePlacement, Shape
<1>3. CASE /\ Running(p, "no_action", "commit")
           /\ market' = [market EXCEPT ![tx[p].row] = "closed_no_action"]
           /\ UNCHANGED <<version, outcome, divisor, wagerVars, regrades>>
           /\ End(p)
  <2>1. OnMarket(p) /\ Counted(p)
    BY <1>0, <1>3 DEF Running, Shape, Idle, OnMarket, Placing, OnWager, FirstLock, Settling
  <2>2. CloseMarketWithoutAction(tx[p].row)
    BY <1>3, <2>1 DEF CloseMarketWithoutAction, OnMarket, Counted
  <2>3. QED
    BY <1>3, <2>1, <2>2 DEF Commits, MarketCommit, OnMarket, Counted
<1>4. QED
  BY <1>1, <1>2, <1>3 DEF NoActionTx

(* A settlement locks the wagers it saw, then the accounts it needs, and   *)
(* what it grades is every wager accepted on its market.                   *)
LEMMA SettleMoves ==
  ASSUME TxInv, NEW p \in Workers, SettleTx(p)
  PROVE  Moves(p) \/ Commits(p)
<1> USE DEF TxInv
<1> DEFINE kinds == {"settle", "void_market"}
<1>0. Shape(p)
  OBVIOUS
<1>1. CASE \E m \in Markets, op \in kinds : Begin(p, op, m, <<m>>)
  BY <1>1, BeginOnMarket
<1>2. ASSUME NEW op \in kinds, Running(p, op, "begin"),
             market[tx[p].row] \in {"open", "closed", "settlement_pending"},
             NEW rows, rows = {w \in Wagers : Market(w) = tx[p].row /\ state[w] # "none"},
             NEW locks \in Listings(rows),
             Load(p, rows, locks),
             UNCHANGED vars
      PROVE  Moves(p)
  <2>0. tx[p].op \in kinds /\ tx[p].step = "begin" /\ tx[p].todo = <<>>
    BY ONLY op \in kinds, Running(p, op, "begin") DEF Running
  <2>1. OnMarket(p) /\ FirstLock(p)
    BY ONLY <1>0, <2>0 DEF Shape, Idle, OnMarket, Placing, OnWager, Counted, Settling
  <2>2. tx[p].holds = {tx[p].row} /\ tx[p].shares = {}
    BY ONLY <2>0, <2>1 DEF FirstLock
  <2>3. rows \subseteq Wagers
    BY <1>2
  <2>4. locks \in Seq(Rows) /\ Range(locks) = rows
    BY <1>2, <2>3, ListingFacts
  <2>5. /\ tx' \in [Workers -> TxRecord] /\ Others(p)
        /\ tx'[p].op = tx[p].op /\ tx'[p].row = tx[p].row /\ tx'[p].step = "wagers"
        /\ tx'[p].todo = locks /\ tx'[p].holds = tx[p].holds
        /\ tx'[p].shares = tx[p].shares /\ tx'[p].seen = rows
    BY <1>2, <2>3, <2>4, LoadFacts
  <2>6. market' = market /\ state' = state
    BY <1>2 DEF vars, marketVars, wagerVars
  <2>7. tx'[p].op \in kinds
    BY <1>2, <2>5 DEF Running
  <2>8. \A w \in Wagers : w \in rows <=> Market(w) = tx[p].row /\ state[w] # "none"
    BY <1>2
  <2>9. Settling(p)'
    BY <1>2, <2>2, <2>4, <2>5, <2>6, <2>7, <2>8 DEF Settling, Queued, Market
  <2>10. OnMarket(p)'
    BY <2>1, <2>5, <2>7, <2>9 DEF OnMarket
  <2>11. QED
    BY <1>2, <2>5, <2>10 DEF Moves, FreshLocks, SamePlacement, Shape
<1>3. ASSUME NEW op \in kinds, Running(p, op, "wagers"),
             NEW listing \in Listings(Loaded(p)),
             Proceed(p, "commit", AccountLocks(listing)), UNCHANGED vars
      PROVE  Moves(p)
  <2>1. OnMarket(p) /\ Settling(p)
    BY <1>0, <1>3 DEF Running, Shape, Idle, OnMarket, Placing, OnWager, Counted, FirstLock
  <2>2. tx[p].seen \subseteq tx[p].holds
    BY <1>3, <2>1, RangeOfShort DEF Running, Settling, Queued
  <2>3. Loaded(p) \subseteq Wagers
    BY FieldTypes DEF Loaded
  <2>4. listing \in Seq(Loaded(p)) /\ Range(listing) = Loaded(p)
    BY <1>3, <2>3, ListingFacts
  <2>5. /\ AccountLocks(listing) \in Seq(Rows)
        /\ Range(AccountLocks(listing)) \subseteq AccountRows
        /\ \A w \in Loaded(p) : Owner(w) \in Range(AccountLocks(listing))
    BY <2>3, <2>4, AccountLocksFacts
  <2>6. "commit" \in StepNames
    BY DEF StepNames
  <2>7. /\ tx' \in [Workers -> TxRecord] /\ Others(p)
        /\ tx'[p].op = tx[p].op /\ tx'[p].row = tx[p].row /\ tx'[p].step = "commit"
        /\ tx'[p].todo = AccountLocks(listing) /\ tx'[p].holds = tx[p].holds
        /\ tx'[p].shares = tx[p].shares /\ tx'[p].seen = tx[p].seen
    BY <1>3, <2>5, <2>6, ProceedFacts
  <2>8. market' = market /\ state' = state
    BY <1>3 DEF vars, marketVars, wagerVars
  <2>9. \A w \in tx[p].seen : state[w] = "accepted" => Owner(w) \in Range(AccountLocks(listing))
    BY <2>5 DEF Loaded
  <2>10. Settling(p)'
    BY <2>1, <2>2, <2>5, <2>7, <2>8, <2>9 DEF Settling, Queued, Market, Owner
  <2>11. OnMarket(p)'
    BY <2>1, <2>7, <2>10 DEF OnMarket
  <2>12. QED
    BY <1>3, <2>7, <2>11 DEF Moves, FreshLocks, SamePlacement, Shape
<1>4. ASSUME NEW op \in kinds, Running(p, op, "commit")
      PROVE  /\ tx[p].row \in Markets /\ tx[p].row \in tx[p].holds
             /\ market[tx[p].row] \in {"open", "closed", "settlement_pending"}
             /\ \A w \in Wagers : Market(w) = tx[p].row /\ state[w] # "none" => w \in tx[p].holds
             /\ \A w \in Accepted(tx[p].row) : Owner(w) \in tx[p].holds
             /\ Loaded(p) = Accepted(tx[p].row)
  <2>1. OnMarket(p) /\ Settling(p)
    BY <1>0, <1>4 DEF Running, Shape, Idle, OnMarket, Placing, OnWager, Counted, FirstLock
  <2>2. /\ tx[p].row \in Markets /\ tx[p].row \in tx[p].holds
        /\ market[tx[p].row] \in {"open", "closed", "settlement_pending"}
        /\ \A w \in Wagers : w \in tx[p].seen <=> Market(w) = tx[p].row /\ state[w] # "none"
        /\ tx[p].seen \subseteq tx[p].holds
        /\ \A w \in tx[p].seen : state[w] = "accepted" => Owner(w) \in tx[p].holds \cup Queued(p)
    BY <1>4, <2>1 DEF OnMarket, Settling, Running
  <2>3. Queued(p) = {}
    BY <1>4, RangeOfShort DEF Running, Queued
  <2>4. tx[p].seen \subseteq Wagers
    BY FieldTypes
  <2>5. Loaded(p) = Accepted(tx[p].row)
    BY <2>2, <2>4 DEF Loaded, Accepted
  <2>6. QED
    BY <2>2, <2>3, <2>5 DEF Loaded, Accepted
<1>5. ASSUME Running(p, "settle", "commit"), NEW out \in Outcomes, NEW tied \in BOOLEAN,
             tied => Winners(out) >= 2,
             GradeSet(Loaded(p), tx[p].row, out, IF tied THEN Winners(out) ELSE 1),
             outcome' = [outcome EXCEPT ![tx[p].row] = out],
             divisor' = [divisor EXCEPT ![tx[p].row] = IF tied THEN Winners(out) ELSE 1],
             market' = [market EXCEPT ![tx[p].row] = "settled"],
             UNCHANGED regrades, End(p)
      PROVE  Commits(p)
  <2>1. SettleMarket(tx[p].row, out, tied)
    BY <1>4, <1>5 DEF SettleMarket, Grade
  <2>2. SettleCommit(p)
    BY <1>4, <1>5, <2>1 DEF SettleCommit
  <2>3. QED
    BY <1>5, <2>2 DEF Commits
<1>6. ASSUME Running(p, "void_market", "commit"),
             GradeSet(Loaded(p), tx[p].row, [s \in Sides |-> "void"], 1),
             market' = [market EXCEPT ![tx[p].row] = "voided"],
             UNCHANGED <<outcome, divisor, regrades>>, End(p)
      PROVE  Commits(p)
  <2>1. VoidMarket(tx[p].row)
    BY <1>4, <1>6 DEF VoidMarket, Grade
  <2>2. SettleCommit(p)
    BY <1>4, <1>6, <2>1 DEF SettleCommit
  <2>3. QED
    BY <1>6, <2>2 DEF Commits
<1>7. QED
  BY <1>1, <1>2, <1>3, <1>5, <1>6 DEF SettleTx

(* A placement inserts a wager that is still absent, under a share of the  *)
(* market row.                                                             *)
LEMMA PlaceMoves ==
  ASSUME TxInv, NEW p \in Workers, PlaceTx(p)
  PROVE  Moves(p) \/ Commits(p)
<1> USE DEF TxInv
<1>0. Shape(p)
  OBVIOUS
<1>m. \A w \in Wagers : Market(w) \in Markets
  BY BookAssumption DEF Market, Requests
<1>p. ASSUME tx[p].op = "place" PROVE Placing(p)
  BY <1>0, <1>p DEF Shape, Idle, OnMarket, OnWager
<1>1. CASE PlaceRead(p)
  <2>1. PICK w \in Wagers : Begin(p, "place", w, <<>>)
    BY <1>1 DEF PlaceRead
  <2>2. <<>> \in Seq(Rows) /\ "place" \in Ops
    BY DEF Ops
  <2>3. /\ tx' \in [Workers -> TxRecord] /\ Others(p) /\ UNCHANGED vars
        /\ tx'[p].op = "place" /\ tx'[p].row = w /\ tx'[p].step = "begin"
        /\ tx'[p].todo = <<>> /\ tx'[p].holds = {} /\ tx'[p].shares = {}
        /\ tx'[p].seen = {}
    BY <2>1, <2>2, BeginFacts
  <2>4. Placing(p)'
    BY <2>3 DEF Placing
  <2>5. QED
    BY <1>1, <2>3, <2>4 DEF Moves, FreshLocks, SamePlacement, Shape
<1>2. CASE PlaceClaim(p)
  <2>1. Placing(p)
    BY <1>2, <1>p DEF PlaceClaim, Running
  <2>2. tx' = [tx EXCEPT ![p].step = "key", ![p].holds = {tx[p].row}] /\ tx[p].row \in Wagers
    BY <1>2, <2>1 DEF PlaceClaim, Placing
  <2>3. /\ tx' \in [Workers -> TxRecord] /\ Others(p)
        /\ tx'[p].op = tx[p].op /\ tx'[p].row = tx[p].row /\ tx'[p].step = "key"
        /\ tx'[p].todo = tx[p].todo /\ tx'[p].holds = {tx[p].row}
        /\ tx'[p].shares = tx[p].shares /\ tx'[p].seen = tx[p].seen
    BY <2>2, ClaimFacts
  <2>4. \A q \in Workers \ {p} : tx[p].row \notin tx[q].holds \cup tx[q].shares
    <3>1. \A q \in Workers \ {p} : tx[p].row \notin tx[q].holds
      BY <1>2 DEF PlaceClaim, Holders
    <3>2. \A q \in Workers : tx[q].shares \subseteq Markets
      BY FieldTypes
    <3>3. QED
      BY <2>2, <3>1, <3>2, BookTxAssumption
  <2>5. UNCHANGED vars /\ state' = state /\ state[tx[p].row] = "none"
    BY <1>2 DEF PlaceClaim, vars, wagerVars
  <2>6. Placing(p)'
    BY <1>2, <2>1, <2>3, <2>5 DEF PlaceClaim, Running, Placing
  <2>7. QED
    BY <2>3, <2>4, <2>5, <2>6 DEF Moves, FreshLocks, SamePlacement, Shape
<1>3. CASE PlaceShare(p)
  <2>1. Placing(p)
    BY <1>3, <1>p DEF PlaceShare, Running
  <2>2. /\ tx' = [tx EXCEPT ![p].step = "commit", ![p].shares = {Market(tx[p].row)}]
        /\ Market(tx[p].row) \in Markets
    BY <1>3, <1>m, <2>1 DEF PlaceShare, Placing
  <2>3. /\ tx' \in [Workers -> TxRecord] /\ Others(p)
        /\ tx'[p].op = tx[p].op /\ tx'[p].row = tx[p].row /\ tx'[p].step = "commit"
        /\ tx'[p].todo = tx[p].todo /\ tx'[p].holds = tx[p].holds
        /\ tx'[p].shares = {Market(tx[p].row)} /\ tx'[p].seen = tx[p].seen
    BY <2>2, ShareFacts
  <2>4. \A q \in Workers \ {p} : Market(tx[p].row) \notin tx[q].holds
    BY <1>3 DEF PlaceShare, Holders
  <2>5. UNCHANGED vars /\ state' = state
    BY <1>3 DEF PlaceShare, vars, wagerVars
  <2>6. Placing(p)'
    BY <1>3, <2>1, <2>3, <2>5 DEF PlaceShare, Running, Placing, Market
  <2>7. QED
    BY <2>3, <2>4, <2>5, <2>6 DEF Moves, FreshLocks, SamePlacement, Shape
<1>4. CASE Running(p, "place", "commit") /\ WriteInsert(tx[p].row) /\ End(p)
  <2>1. Placing(p)
    BY <1>4, <1>p DEF Running
  <2>2. InsertCommit(p)
    BY <1>4, <2>1 DEF Running, Placing, InsertCommit
  <2>3. QED
    BY <1>4, <2>2 DEF Commits
<1>5. QED
  BY <1>1, <1>2, <1>3, <1>4 DEF PlaceTx

(* What a transaction on a wager holds once it has the wager's row.        *)
LEMMA HasWager ==
  ASSUME TxInv, NEW p \in Workers,
         NEW op \in {"accept", "reject", "void", "reduce"}, Running(p, op, "begin")
  PROVE  /\ tx[p].row \in Wagers /\ OnWager(p) /\ tx[p].op = op
         /\ tx[p].holds = {tx[p].row} /\ tx[p].shares = {} /\ tx[p].seen = {}
<1>1. Shape(p)
  BY DEF TxInv
<1>2. OnWager(p) /\ FirstLock(p)
  BY <1>1 DEF Running, Shape, Idle, OnMarket, Placing, OnWager, Checked
<1>3. QED
  BY <1>2 DEF Running, OnWager, FirstLock

(* ... and once it has the owner's account too.                            *)
LEMMA HasAccount ==
  ASSUME TxInv, NEW p \in Workers, NEW op \in {"accept", "void", "reduce"},
         NEW step \in {"funds", "commit"}, Running(p, op, step)
  PROVE  /\ tx[p].row \in Wagers /\ OnWager(p) /\ Checked(p)
         /\ tx[p].op = op /\ tx[p].step = step
         /\ tx[p].row \in tx[p].holds /\ Owner(tx[p].row) \in tx[p].holds
<1>1. Shape(p)
  BY DEF TxInv
<1>2. OnWager(p) /\ Checked(p)
  BY <1>1 DEF Running, Shape, Idle, OnMarket, Placing, OnWager, FirstLock
<1>3. Queued(p) = {}
  BY RangeOfShort DEF Running, Queued
<1>4. QED
  BY <1>2, <1>3 DEF Running, OnWager, Checked

(* An acceptance checks its wager, its market and the balance, each under  *)
(* a lock that keeps the answer true until it commits.                     *)
LEMMA AcceptMoves ==
  ASSUME TxInv, NEW p \in Workers, AcceptTx(p)
  PROVE  Moves(p) \/ Commits(p)
<1> USE DEF TxInv
<1> DEFINE w == tx[p].row
           accounts == <<Request[w].user, "escrow", "house">>
<1>1. CASE \E v \in Wagers : state[v] # "none" /\ Begin(p, "accept", v, <<v>>)
  BY <1>1, BeginOnWager
<1>2. ASSUME Running(p, "accept", "begin"), state[w] = "pending",
             market[Market(w)] \notin Decided, Proceed(p, "funds", accounts), UNCHANGED vars
      PROVE  Moves(p)
  <2>1. /\ w \in Wagers /\ OnWager(p) /\ tx[p].op = "accept"
        /\ tx[p].holds = {w} /\ tx[p].shares = {} /\ tx[p].seen = {}
    BY <1>2, HasWager
  <2>2. Owner(w) \in Users /\ Request[w].user = Owner(w)
    BY <2>1, BookAssumption DEF Owner, Requests
  <2>3. accounts \in Seq(Rows) /\ "funds" \in StepNames
    BY <2>2 DEF Rows, StepNames
  <2>4. /\ tx' \in [Workers -> TxRecord] /\ Others(p)
        /\ tx'[p].op = tx[p].op /\ tx'[p].row = w /\ tx'[p].step = "funds"
        /\ tx'[p].todo = accounts /\ tx'[p].holds = tx[p].holds
        /\ tx'[p].shares = tx[p].shares /\ tx'[p].seen = tx[p].seen
    BY <1>2, <2>3, ProceedFacts
  <2>5. Queued(p)' = {Owner(w), "escrow", "house"}
    BY <2>2, <2>4, RangeOfShort DEF Queued
  <2>6. market' = market /\ state' = state
    BY <1>2 DEF vars, marketVars, wagerVars
  <2> HIDE DEF w, accounts
  <2>7. Checked(p)'
    BY <1>2, <2>1, <2>2, <2>4, <2>5, <2>6 DEF Checked, AccountRows, Market, Owner
  <2>8. OnWager(p)'
    BY <1>2, <2>1, <2>4, <2>6, <2>7 DEF OnWager
  <2>9. QED
    BY <1>2, <2>4, <2>8 DEF Moves, FreshLocks, SamePlacement, Shape, w
<1>3. ASSUME Running(p, "accept", "funds"), Available(Request[w].user) >= stake[w],
             Proceed(p, "commit", <<>>), UNCHANGED vars
      PROVE  Moves(p)
  <2>1. /\ w \in Wagers /\ OnWager(p) /\ Checked(p) /\ tx[p].op = "accept"
        /\ tx[p].step = "funds" /\ w \in tx[p].holds /\ Owner(w) \in tx[p].holds
    BY <1>3, HasAccount
  <2>2. <<>> \in Seq(Rows) /\ "commit" \in StepNames
    BY DEF StepNames
  <2>3. /\ tx' \in [Workers -> TxRecord] /\ Others(p)
        /\ tx'[p].op = tx[p].op /\ tx'[p].row = w /\ tx'[p].step = "commit"
        /\ tx'[p].todo = <<>> /\ tx'[p].holds = tx[p].holds
        /\ tx'[p].shares = tx[p].shares /\ tx'[p].seen = tx[p].seen
    BY <1>3, <2>2, ProceedFacts
  <2>4. Queued(p)' = {}
    BY <2>3, RangeOfShort DEF Queued
  <2>5. market' = market /\ state' = state /\ stake' = stake /\ ledger' = ledger
    BY <1>3 DEF vars, marketVars, wagerVars
  <2>6. PICK u : u = Owner(w)
    OBVIOUS
  <2>7. Available(u)' = Available(u) /\ Available(u) >= stake[w]
    BY <1>3, <2>5, <2>6, SameAvailable DEF Owner
  <2>8. Available(Owner(tx[p].row))' >= stake'[w]
    BY <2>3, <2>5, <2>6, <2>7 DEF Owner, Available
  <2> HIDE DEF w
  <2>9. Checked(p)'
    BY <2>1, <2>3, <2>4, <2>5, <2>8 DEF Checked, Market, Owner, w
  <2>10. OnWager(p)'
    BY <2>1, <2>3, <2>5, <2>9 DEF OnWager, w
  <2>11. QED
    BY <1>3, <2>3, <2>10 DEF Moves, FreshLocks, SamePlacement, Shape, w
<1>4. ASSUME Running(p, "accept", "commit"), WriteAcceptance(w), End(p)
      PROVE  Commits(p)
  <2>1. /\ w \in Wagers /\ Checked(p) /\ tx[p].op = "accept"
        /\ tx[p].step = "commit" /\ w \in tx[p].holds /\ Owner(w) \in tx[p].holds
    BY <1>4, HasAccount
  <2>2. AcceptWager(w)
    BY <1>4, <2>1 DEF Checked, AcceptWager, Owner
  <2>3. MoneyCommit(p)
    BY <2>1, <2>2 DEF MoneyCommit
  <2>4. QED
    BY <1>4, <2>3 DEF Commits
<1>5. QED
  BY <1>1, <1>2, <1>3, <1>4 DEF AcceptTx

(* A rejection needs the wager's row only.                                 *)
LEMMA RejectMoves ==
  ASSUME TxInv, NEW p \in Workers, RejectTx(p)
  PROVE  Moves(p) \/ Commits(p)
<1> USE DEF TxInv
<1>1. CASE \E v \in Wagers : state[v] # "none" /\ Begin(p, "reject", v, <<v>>)
  BY <1>1, BeginOnWager
<1>2. CASE Running(p, "reject", "begin") /\ RejectWager(tx[p].row) /\ End(p)
  <2>1. tx[p].row \in Wagers /\ tx[p].holds = {tx[p].row}
    BY <1>2, HasWager
  <2>2. QED
    BY <1>2, <2>1 DEF Commits, RejectCommit
<1>3. QED
  BY <1>1, <1>2 DEF RejectTx

(* A void or a reduction goes on from the wager's row to the accounts of   *)
(* the refund.                                                             *)
LEMMA RefundMoves ==
  ASSUME TxInv, NEW p \in Workers, NEW op \in {"void", "reduce"},
         Running(p, op, "begin"), state[tx[p].row] = "accepted",
         op = "reduce" => market[Market(tx[p].row)] \notin Decided,
         Proceed(p, "commit", <<Request[tx[p].row].user, "escrow">>), UNCHANGED vars
  PROVE  Moves(p)
<1> USE DEF TxInv
<1> DEFINE w == tx[p].row
           accounts == <<Request[w].user, "escrow">>
<1>1. /\ w \in Wagers /\ OnWager(p) /\ tx[p].op = op
      /\ tx[p].holds = {w} /\ tx[p].shares = {} /\ tx[p].seen = {}
  BY HasWager
<1>2. Owner(w) \in Users /\ Request[w].user = Owner(w)
  BY <1>1, BookAssumption DEF Owner, Requests
<1>3. accounts \in Seq(Rows) /\ "commit" \in StepNames
  BY <1>2 DEF Rows, StepNames
<1>4. /\ tx' \in [Workers -> TxRecord] /\ Others(p)
      /\ tx'[p].op = tx[p].op /\ tx'[p].row = w /\ tx'[p].step = "commit"
      /\ tx'[p].todo = accounts /\ tx'[p].holds = tx[p].holds
      /\ tx'[p].shares = tx[p].shares /\ tx'[p].seen = tx[p].seen
  BY <1>3, ProceedFacts
<1>5. Queued(p)' = {Owner(w), "escrow"}
  BY <1>2, <1>4, RangeOfShort DEF Queued
<1>6. market' = market /\ state' = state /\ state[w] = "accepted"
      /\ (op = "reduce" => market[Market(w)] \notin Decided)
  BY DEF vars, marketVars, wagerVars
<1> HIDE DEF w, accounts
<1>7. Checked(p)'
  BY <1>1, <1>2, <1>4, <1>5, <1>6 DEF Checked, AccountRows, Market, Owner
<1>8. OnWager(p)'
  BY <1>1, <1>4, <1>6, <1>7 DEF OnWager
<1>9. QED
  BY <1>4, <1>8 DEF Moves, FreshLocks, SamePlacement, Shape, w

(* Voids and reductions write under the locks of the wager and its owner.  *)
LEMMA VoidOrReduceMoves ==
  ASSUME TxInv, NEW p \in Workers, VoidTx(p) \/ ReduceTx(p)
  PROVE  Moves(p) \/ Commits(p)
<1> USE DEF TxInv
<1> DEFINE w == tx[p].row
           refund == <<Request[w].user, "escrow">>
<1>1. CASE \E v \in Wagers, op \in {"void", "reduce"} :
             state[v] # "none" /\ Begin(p, op, v, <<v>>)
  BY <1>1, BeginOnWager
<1>2. CASE \E op \in {"void", "reduce"} :
             /\ Running(p, op, "begin") /\ state[w] = "accepted"
             /\ op = "reduce" => market[Market(w)] \notin Decided
             /\ Proceed(p, "commit", refund) /\ UNCHANGED vars
  BY <1>2, RefundMoves
<1>3. ASSUME Running(p, "void", "commit"), WriteVoid(w), End(p)
      PROVE  Commits(p)
  <2>1. /\ w \in Wagers /\ Checked(p) /\ tx[p].op = "void"
        /\ w \in tx[p].holds /\ Owner(w) \in tx[p].holds
    BY <1>3, HasAccount
  <2>2. VoidWager(w)
    BY <1>3, <2>1 DEF Checked, VoidWager
  <2>3. QED
    BY <1>3, <2>1, <2>2 DEF Commits, MoneyCommit
<1>4. ASSUME Running(p, "reduce", "commit"), NEW n \in 0 .. stake[w],
             n > 0, n < stake[w], WriteReduction(w, n), End(p)
      PROVE  Commits(p)
  <2>1. /\ w \in Wagers /\ Checked(p) /\ tx[p].op = "reduce"
        /\ w \in tx[p].holds /\ Owner(w) \in tx[p].holds
    BY <1>4, HasAccount
  <2>2. ReduceWager(w, n)
    BY <1>4, <2>1 DEF Checked, ReduceWager
  <2>3. /\ stake[w] \in Nat /\ stake[w] <= Request[w].stake /\ Request[w].stake \in Nat
    BY <2>1, BookAssumption DEF Committed, IInv, TypeOK, Requests
  <2>4. n \in 0 .. Request[w].stake
    BY <2>3
  <2>5. MoneyCommit(p)
    BY <2>1, <2>2, <2>4 DEF MoneyCommit
  <2>6. QED
    BY <1>4, <2>5 DEF Commits
<1>5. CASE VoidTx(p)
  BY <1>1, <1>2, <1>3, <1>5 DEF VoidTx
<1>6. CASE ReduceTx(p)
  BY <1>1, <1>2, <1>4, <1>6 DEF ReduceTx
<1>7. QED
  BY <1>5, <1>6

(* Rolling back forgets the transaction.                                   *)
LEMMA RollbackMoves ==
  ASSUME tx \in [Workers -> TxRecord], NEW p \in Workers, Rollback(p)
  PROVE  Moves(p)
<1>1. tx' \in [Workers -> TxRecord] /\ Others(p) /\ tx'[p] = Idle /\ UNCHANGED vars
  BY EndFacts DEF Rollback
<1>2. tx'[p].holds = {} /\ tx'[p].shares = {}
  BY <1>1 DEF Idle
<1>3. Shape(p)'
  BY <1>1 DEF Shape, Idle
<1>4. QED
  BY <1>1, <1>2, <1>3 DEF Moves, FreshLocks, SamePlacement

(* Every step either writes nothing or commits an operation of Book.       *)
LEMMA StepMovesOrCommits ==
  ASSUME TxInv, NEW p \in Workers, Step(p) \/ Rollback(p)
  PROVE  Moves(p) \/ Commits(p)
BY LockMoves, OpenOrCloseMoves, NoActionMoves, SettleMoves, PlaceMoves, AcceptMoves,
   RejectMoves, VoidOrReduceMoves, RollbackMoves DEF Step, TxInv

-----------------------------------------------------------------------------
(* The inductive invariant *)

(* Before any transaction every worker is idle.                            *)
LEMMA InitTxInv == TxInit => TxInv
<1> SUFFICES ASSUME TxInit PROVE TxInv
  OBVIOUS
<1>1. Init /\ tx = [p \in Workers |-> Idle]
  BY DEF TxInit
<1>2. IInv
  BY <1>1, InitIInv
<1>3. Committed
  <2>1. \A w \in Wagers : Request[w].stake \in Nat
    BY BookAssumption DEF Requests
  <2>2. QED
    BY <1>1, <2>1 DEF Init, Committed
<1>4. Idle \in TxRecord
  BY DEF TxRecord, Idle, StepNames, Ops
<1>5. tx \in [Workers -> TxRecord] /\ \A p \in Workers : tx[p] = Idle
  BY <1>1, <1>4
<1>6. Exclusive
  <2>1. Idle.holds = {}
    BY DEF Idle
  <2>2. QED
    BY <1>5, <2>1 DEF Exclusive
<1>7. QED
  BY <1>2, <1>3, <1>5, <1>6 DEF TxInv, Shape

(* A commit keeps Book's invariant, leaves no quote and raises no stake.   *)
LEMMA CommitKeeps ==
  ASSUME IInv, Committed, NEW p \in Workers, Commits(p)
  PROVE  IInv' /\ Committed'
<1> DEFINE r == tx[p].row
<1>0. \A w \in Wagers : Request[w].stake \in Nat /\ stake[w] \in Nat
  BY BookAssumption DEF Requests, IInv, TypeOK
<1>1. CASE MarketCommit(p)
  <2>1. r \in Markets /\ (OpenMarket(r) \/ CloseMarket(r) \/ CloseMarketWithoutAction(r))
    BY <1>1 DEF MarketCommit
  <2>2. IInv'
    BY <2>1, LifecycleStep
  <2>3. state' = state /\ stake' = stake
    BY <2>1 DEF OpenMarket, CloseMarket, CloseMarketWithoutAction, wagerVars
  <2>4. QED
    BY <2>2, <2>3 DEF Committed
<1>2. CASE SettleCommit(p)
  <2>1. r \in Markets
    BY <1>2 DEF SettleCommit
  <2>2. CASE \E out \in Outcomes, tied \in BOOLEAN : SettleMarket(r, out, tied)
    <3>1. PICK out \in Outcomes, tied \in BOOLEAN : SettleMarket(r, out, tied)
      BY <2>2
    <3>2. IInv'
      BY <2>1, <3>1, SettleStep
    <3>3. Committed'
      BY <3>1 DEF SettleMarket, Grade, GradeSet, Committed
    <3>4. QED
      BY <3>2, <3>3
  <2>3. CASE VoidMarket(r)
    <3>1. IInv'
      BY <2>1, <2>3, VoidMarketStep
    <3>2. Committed'
      BY <2>3 DEF VoidMarket, Grade, GradeSet, Committed
    <3>3. QED
      BY <3>1, <3>2
  <2>4. QED
    BY <1>2, <2>2, <2>3 DEF SettleCommit
<1>3. CASE InsertCommit(p)
  <2>1. /\ r \in Wagers /\ state[r] = "none"
        /\ state' = [state EXCEPT ![r] = "pending"]
        /\ UNCHANGED <<marketVars, stake, ledger, keys, regrades>>
    BY <1>3 DEF InsertCommit, WriteInsert
  <2>2. IInv'
    BY <2>1, UnfundedMove
  <2>3. QED
    BY <2>1, <2>2 DEF Committed, IInv, TypeOK
<1>4. CASE RejectCommit(p)
  <2>1. r \in Wagers /\ RejectWager(r)
    BY <1>4 DEF RejectCommit
  <2>2. IInv'
    BY <2>1, UnfundedStep
  <2>3. QED
    BY <2>1, <2>2 DEF RejectWager, WriteRejection, Committed, IInv, TypeOK
<1>5. CASE MoneyCommit(p)
  <2>1. r \in Wagers
    BY <1>5 DEF MoneyCommit
  <2>2. CASE AcceptWager(r)
    <3>1. IInv'
      BY <2>1, <2>2, AcceptStep
    <3>2. QED
      BY <2>2, <3>1 DEF AcceptWager, WriteAcceptance, Committed, IInv, TypeOK
  <2>3. CASE VoidWager(r)
    <3>1. IInv'
      BY <2>1, <2>3, VoidStep
    <3>2. QED
      BY <2>3, <3>1 DEF VoidWager, WriteVoid, Committed, IInv, TypeOK
  <2>4. CASE \E n \in 0 .. Request[r].stake : ReduceWager(r, n)
    <3>1. PICK n \in 0 .. Request[r].stake : ReduceWager(r, n)
      BY <2>4
    <3>2. n \in Nat
      BY <1>0, <2>1
    <3>3. IInv'
      BY <2>1, <3>1, <3>2, ReduceStep
    <3>4. state' = state /\ stake' = [stake EXCEPT ![r] = n] /\ n < stake[r]
      BY <3>1 DEF ReduceWager, WriteReduction
    <3>5. Committed'
      BY <1>0, <2>1, <3>2, <3>4 DEF Committed, IInv, TypeOK
    <3>6. QED
      BY <3>3, <3>5
  <2>5. QED
    BY <1>5, <2>2, <2>3, <2>4 DEF MoneyCommit
<1>6. QED
  BY <1>1, <1>2, <1>3, <1>4, <1>5 DEF Commits

(* Every statement of every transaction keeps the invariant.               *)
LEMMA NextTxInv == TxInv /\ [TxNext]_txVars => TxInv'
<1> SUFFICES ASSUME TxInv, [TxNext]_txVars PROVE TxInv'
  OBVIOUS
<1>t. tx \in [Workers -> TxRecord]
  BY DEF TxInv
<1>1. CASE \E p \in Workers : Step(p) \/ Rollback(p)
  <2>1. PICK p \in Workers : Step(p) \/ Rollback(p)
    BY <1>1
  <2>2. Moves(p) \/ Commits(p)
    BY <2>1, StepMovesOrCommits
  <2>3. Guarantee(p)
    BY <2>2, QuietGuarantee, CommitGuarantee DEF Moves, TxInv, IInv
  <2>4. tx' \in [Workers -> TxRecord] /\ Others(p)
    BY <1>t, <2>2, EndFacts DEF Moves, Commits
  <2>5. Shape(p)'
    <3>1. CASE Commits(p)
      BY <1>t, <3>1, EndFacts DEF Commits, Shape, Idle
    <3>2. QED
      BY <2>2, <3>1 DEF Moves
  <2>6. FreshLocks(p)
    <3>1. CASE Commits(p)
      <4>1. tx'[p].holds = {} /\ tx'[p].shares = {}
        BY <1>t, <3>1, EndFacts DEF Commits, Idle
      <4>2. QED
        BY <4>1 DEF FreshLocks
    <3>2. QED
      BY <2>2, <3>1 DEF Moves
  <2>7. ASSUME NEW q \in Workers PROVE Shape(q)'
    <3>1. CASE q = p
      BY <2>5, <3>1
    <3>2. CASE q # p
      <4>1. tx'[q] = tx[q]
        BY <2>4, <3>2 DEF Others
      <4>2. Rely(q)
        BY <2>3, <3>2, <4>1, LocksProtect DEF TxInv
      <4>3. QED
        BY <1>t, <4>2, ShapeStable DEF TxInv
    <3>3. QED
      BY <3>1, <3>2
  <2>8. Exclusive'
    <3>1. Exclusive
      BY DEF TxInv
    <3>2. ASSUME NEW q \in Workers, NEW s \in Workers, q # s
          PROVE  tx'[q].holds \cap tx'[s].holds = {} /\ tx'[q].holds \cap tx'[s].shares = {}
      <4>1. CASE q # p /\ s # p
        BY <2>4, <3>1, <3>2, <4>1 DEF Exclusive, Others
      <4>2. CASE q = p
        <5>1. tx'[s] = tx[s]
          BY <2>4, <3>2, <4>2 DEF Others
        <5>2. /\ tx'[p].holds \cap (tx[s].holds \cup tx[s].shares) \subseteq tx[p].holds
              /\ tx[p].holds \cap tx[s].holds = {} /\ tx[p].holds \cap tx[s].shares = {}
          BY <2>6, <3>1, <3>2, <4>2 DEF FreshLocks, Exclusive
        <5>3. QED
          BY <4>2, <5>1, <5>2
      <4>3. CASE s = p
        <5>1. tx'[q] = tx[q]
          BY <2>4, <3>2, <4>3 DEF Others
        <5>2. /\ tx'[p].holds \cap (tx[q].holds \cup tx[q].shares) \subseteq tx[p].holds
              /\ tx'[p].shares \cap tx[q].holds \subseteq tx[p].shares
              /\ tx[q].holds \cap tx[p].holds = {} /\ tx[q].holds \cap tx[p].shares = {}
          BY <2>6, <3>1, <3>2, <4>3 DEF FreshLocks, Exclusive
        <5>3. QED
          BY <4>3, <5>1, <5>2
      <4>4. QED
        BY <4>1, <4>2, <4>3
    <3>3. QED
      BY <3>2 DEF Exclusive
  <2>9. IInv' /\ Committed'
    <3>1. CASE Commits(p)
      BY <3>1, CommitKeeps DEF TxInv
    <3>2. CASE Moves(p)
      <4>1. IInv'
        BY <3>2, NextIInv DEF Moves, TxInv
      <4>2. QED
        BY <3>2, <4>1 DEF Moves, TxInv, Committed, vars, wagerVars
    <3>3. QED
      BY <2>2, <3>1, <3>2
  <2>10. QED
    BY <2>4, <2>7, <2>8, <2>9 DEF TxInv
<1>2. CASE UNCHANGED txVars
  <2>1. tx' = tx /\ UNCHANGED vars
    BY <1>2 DEF txVars
  <2>2. IInv'
    BY <2>1, NextIInv DEF TxInv
  <2>3. ASSUME NEW q \in Workers PROVE Shape(q)'
    <3>1. Rely(q)
      BY <2>1 DEF Rely, vars, marketVars, wagerVars, LiveStates
    <3>2. QED
      BY <1>t, <3>1, ShapeStable DEF TxInv
  <2>4. Committed'
    BY <2>1 DEF TxInv, Committed, vars, wagerVars
  <2>5. QED
    BY <2>1, <2>2, <2>3, <2>4 DEF TxInv, Exclusive
<1>3. QED
  BY <1>1, <1>2 DEF TxNext

(* At every moment each transaction holds the rows its next statement      *)
(* counts on, and what it has read under them is still so.                 *)
THEOREM TxInvariance == TxSpec => []TxInv
<1>1. TxInit => TxInv
  BY InitTxInv
<1>2. TxInv /\ [TxNext]_txVars => TxInv'
  BY NextTxInv
<1>3. QED
  BY <1>1, <1>2, PTL DEF TxSpec

-----------------------------------------------------------------------------
(* Concurrent transactions implement Book *)

Placed(w) == \E p \in Workers : tx[p].op = "place" /\ tx[p].row = w

(* What Book sees of a wager.                                              *)
LEMMA VisibleFacts ==
  ASSUME TxInv
  PROVE  /\ Visible \in [Wagers -> WagerStates]
         /\ \A w \in Wagers :
              /\ state[w] # "none" => Visible[w] = state[w]
              /\ state[w] = "none" => Visible[w] = IF Placed(w) THEN "quoted" ELSE "none"
              /\ Visible[w] \notin {"none", "quoted"} => Visible[w] = state[w]
<1>1. state \in [Wagers -> WagerStates]
  BY DEF TxInv, IInv, TypeOK
<1>2. Visible = [w \in Wagers |-> IF state[w] = "none" /\ Placed(w) THEN "quoted" ELSE state[w]]
  BY DEF Visible, Placed
<1>3. QED
  BY <1>1, <1>2 DEF WagerStates, TxInv, Committed

(* Book's operators, read through the mapping, are its own.                *)
LEMMA SameOperators ==
  /\ \A o, s : B!Profit(o, s) = Profit(o, s)
  /\ \A o, s : B!ProfitOverflows(o, s) <=> ProfitOverflows(o, s)
  /\ \A r, s, o, n : B!Lines(r, s, o, n) = Lines(r, s, o, n)
  /\ \A S : B!Cardinality(S) = Cardinality(S)
<1>1. \A o, s : B!Profit(o, s) = Profit(o, s)
  BY DEF B!Profit, Profit, B!Numerator, Numerator, B!Denominator, Denominator
<1>2. \A o, s : B!ProfitOverflows(o, s) <=> ProfitOverflows(o, s)
  BY DEF B!ProfitOverflows, ProfitOverflows, B!Numerator, Numerator
<1>3. \A r, s, o, n : B!Lines(r, s, o, n) = Lines(r, s, o, n)
  BY DEF B!Lines, Lines, B!WinProfit, WinProfit, B!WinningStake, WinningStake,
       B!Profit, Profit, B!Numerator, Numerator, B!Denominator, Denominator
<1>4. \A S : B!Cardinality(S) = Cardinality(S)
  BY DEF B!Cardinality, Cardinality
<1>5. QED
  BY <1>1, <1>2, <1>3, <1>4

(* So are balances ...                                                     *)
LEMMA SameBalance ==
  ASSUME NEW u
  PROVE  B!Available(u) = Available(u)
BY DEF B!Available, Available, B!UserNet, UserNet, B!SumFunction, SumFunction,
       B!SumFunctionOnSet, SumFunctionOnSet, B!FoldFunctionOnSet, FoldFunctionOnSet,
       B!MapThenFoldSet, MapThenFoldSet

(* ... and the wagers an operation counts.                                 *)
LEMMA SameWagers ==
  ASSUME TxInv, NEW m
  PROVE  B!Live(m) = Live(m) /\ B!Accepted(m) = Accepted(m)
<1>1. \A w \in Wagers : /\ Visible[w] = "accepted" <=> state[w] = "accepted"
                        /\ Visible[w] = "pending" <=> state[w] = "pending"
  BY VisibleFacts
<1>2. QED
  BY <1>1 DEF B!Live, Live, B!Accepted, Accepted, B!Market, Market

(* Without a transaction nothing is quoted.                                *)
LEMMA InitImplements == TxInit => B!Init
<1> SUFFICES ASSUME TxInit PROVE B!Init
  OBVIOUS
<1>1. Init /\ \A p \in Workers : tx[p].op # "place"
  BY DEF TxInit, Idle
<1>2. state \in [Wagers -> WagerStates]
  BY <1>1, InitIInv DEF IInv, TypeOK
<1>3. Visible = state
  BY <1>1, <1>2 DEF Visible
<1>4. \E graded \in B!Outcomes, tied \in 1 .. B!Cardinality(Sides) :
        /\ tied > 1 => tied = B!Cardinality({s \in Sides : graded[s] = "win"})
        /\ outcome = [m \in Markets |-> IF m \in LegacyMarkets THEN graded ELSE B!Ungraded]
        /\ divisor = [m \in Markets |-> IF m \in LegacyMarkets THEN tied ELSE 1]
  BY <1>1, SameOperators DEF Init, B!Outcomes, Outcomes, B!Results, Results, B!Ungraded, Ungraded
<1>5. /\ market = [m \in Markets |-> IF m \in LegacyMarkets THEN "settled" ELSE "draft"]
      /\ version = [m \in Markets |-> IF m \in LegacyMarkets THEN 1 ELSE 0]
      /\ Visible = [w \in Wagers |-> IF w \in LegacyWagers THEN "accepted" ELSE "none"]
      /\ stake = [w \in Wagers |-> Request[w].stake]
      /\ regrades = [m \in Markets |-> 0]
  BY <1>1, <1>3 DEF Init
<1>6. /\ ledger = [w \in Wagers |-> IF w \in LegacyWagers
                                THEN [B!NoEntry EXCEPT !.accepted = Request[w].stake]
                                ELSE B!NoEntry]
      /\ keys = [w \in Wagers |-> IF w \in LegacyWagers THEN {B!AcceptanceKey} ELSE {}]
  BY <1>1 DEF Init, B!NoEntry, NoEntry, B!AcceptanceKey, AcceptanceKey
<1>7. QED
  BY <1>4, <1>5, <1>6 DEF B!Init

(* What Book sees after a step.                                            *)
LEMMA VisibleNext ==
  /\ Visible' = [w \in Wagers |-> IF state'[w] = "none" /\ Placed(w)' THEN "quoted" ELSE state'[w]]
  /\ Visible = [w \in Wagers |-> IF state[w] = "none" /\ Placed(w) THEN "quoted" ELSE state[w]]
BY DEF Visible, Placed

(* A step that leaves every wager's appearance and the tables alone is no  *)
(* step of Book.                                                           *)
LEMMA Unseen ==
  ASSUME UNCHANGED vars, \A w \in Wagers : state[w] = "none" => (Placed(w)' <=> Placed(w))
  PROVE  UNCHANGED B!vars
<1>1. state' = state
  BY DEF vars, wagerVars
<1>2. Visible' = Visible
  BY <1>1, VisibleNext
<1>3. QED
  BY <1>2 DEF vars, marketVars, wagerVars, B!vars, B!marketVars, B!wagerVars

(* A placement's read is a quote, unless another placement of the same     *)
(* wager is under way.                                                     *)
LEMMA ReadImplements ==
  ASSUME TxInv, NEW p \in Workers, PlaceRead(p), Moves(p)
  PROVE  B!Next \/ UNCHANGED B!vars
<1>1. PICK w \in Wagers :
        /\ state[w] = "none" /\ market[Request[w].market] = "open"
        /\ ~ ProfitOverflows(Request[w].odds, Request[w].stake)
        /\ Profit(Request[w].odds, Request[w].stake) \in 1 .. MaxPayout
        /\ Begin(p, "place", w, <<>>)
  BY DEF PlaceRead
<1>2. /\ tx[p].op # "place" /\ tx'[p].op = "place" /\ tx'[p].row = w /\ Others(p)
  <2>0. tx \in [Workers -> TxRecord] /\ Begin(p, "place", w, <<>>)
    BY <1>1 DEF TxInv
  <2>1. <<>> \in Seq(Rows) /\ "place" \in Ops /\ w \in Markets \cup Wagers
    BY DEF Ops
  <2>2. /\ tx' \in [Workers -> TxRecord] /\ Others(p) /\ UNCHANGED vars
        /\ tx'[p].op = "place" /\ tx'[p].row = w /\ tx'[p].step = "begin"
        /\ tx'[p].todo = <<>> /\ tx'[p].holds = {} /\ tx'[p].shares = {}
        /\ tx'[p].seen = {}
    BY ONLY <2>0, <2>1, p \in Workers, BeginFacts
  <2>3. QED
    BY <2>0, <2>2 DEF Begin, Idle
<1>3. Placed(w)' /\ \A v \in Wagers \ {w} : Placed(v)' <=> Placed(v)
  BY <1>2 DEF Placed, Others
<1>4. CASE Placed(w)
  BY <1>3, <1>4, Unseen DEF Moves
<1>5. CASE ~ Placed(w)
  <2>1. Visible \in [Wagers -> WagerStates] /\ Visible[w] = "none"
    BY <1>1, <1>5, VisibleFacts
  <2>2. state' = state /\ UNCHANGED <<marketVars, stake, ledger, keys, regrades>>
    BY DEF Moves, vars, wagerVars
  <2>3. Visible' = [Visible EXCEPT ![w] = "quoted"]
    BY <1>1, <1>3, <2>1, <2>2, VisibleNext
  <2>4. B!QuoteWager(w)
    BY <1>1, <2>1, <2>2, <2>3, SameOperators DEF B!QuoteWager, marketVars, B!marketVars
  <2>5. QED
    BY <2>4 DEF B!Next, B!WagerStep
<1>6. QED
  BY <1>4, <1>5

(* Rolling back a placement drops the quote, unless the wager has been     *)
(* inserted or another placement of it is under way.                       *)
LEMMA RollbackImplements ==
  ASSUME TxInv, NEW p \in Workers, Rollback(p), Moves(p)
  PROVE  B!Next \/ UNCHANGED B!vars
<1>1. tx'[p].op # "place" /\ Others(p)
  <2>1. tx'[p] = Idle /\ Others(p)
    BY EndFacts DEF Rollback, TxInv
  <2>2. QED
    BY <2>1 DEF Idle
<1>2. CASE tx[p].op # "place"
  <2>1. \A v \in Wagers : Placed(v)' <=> Placed(v)
    BY <1>1, <1>2 DEF Placed, Others
  <2>2. QED
    BY <2>1, Unseen DEF Moves
<1>3. CASE tx[p].op = "place"
  <2>1. PICK w \in Wagers : tx[p].row = w
    <3>1. Shape(p)
      BY DEF TxInv
    <3>2. QED
      BY <1>3, <3>1 DEF Shape, Idle, OnMarket, OnWager, Placing
  <2>2. Placed(w) /\ \A v \in Wagers \ {w} : Placed(v)' <=> Placed(v)
    BY <1>1, <1>3, <2>1 DEF Placed, Others
  <2>3. CASE state[w] # "none" \/ Placed(w)'
    BY <2>1, <2>2, <2>3, Unseen DEF Moves
  <2>4. CASE state[w] = "none" /\ ~ Placed(w)'
    <3>1. Visible \in [Wagers -> WagerStates] /\ Visible[w] = "quoted"
      BY <2>1, <2>2, <2>4, VisibleFacts
    <3>2. state' = state /\ UNCHANGED <<marketVars, stake, ledger, keys, regrades>>
      BY DEF Moves, vars, wagerVars
    <3>3. Visible' = [Visible EXCEPT ![w] = "none"]
      BY <2>1, <2>2, <2>4, <3>1, <3>2, VisibleNext
    <3>4. B!DropQuote(w)
      BY <3>1, <3>2, <3>3 DEF B!DropQuote, marketVars, B!marketVars
    <3>5. QED
      BY <2>1, <3>4 DEF B!Next, B!WagerStep
  <2>5. QED
    BY <2>3, <2>4
<1>4. QED
  BY <1>2, <1>3

(* Every statement that writes nothing is a quote, the end of one, or      *)
(* nothing at all to Book.                                                 *)
LEMMA MoveImplements ==
  ASSUME TxInv, NEW p \in Workers, Moves(p)
  PROVE  B!Next \/ UNCHANGED B!vars
<1>1. CASE PlaceRead(p)
  BY <1>1, ReadImplements
<1>2. CASE Rollback(p)
  BY <1>2, RollbackImplements
<1>3. CASE \/ tx'[p].op = tx[p].op /\ tx'[p].row = tx[p].row
           \/ tx[p].op # "place" /\ tx'[p].op # "place"
  <2>1. \A v \in Wagers : Placed(v)' <=> Placed(v)
    BY <1>3 DEF Placed, Others, Moves
  <2>2. QED
    BY <2>1, Unseen DEF Moves
<1>4. QED
  BY <1>1, <1>2, <1>3 DEF Moves, SamePlacement

(* A commit that is not an insertion shows Book the new states of the      *)
(* wagers on the books, and leaves the others as they looked.              *)
LEMMA CommitShows ==
  ASSUME TxInv, NEW p \in Workers, End(p),
         tx[p].op = "place" => tx[p].row \notin Wagers \/ state[tx[p].row] # "none",
         NEW w \in Wagers, state'[w] = "none" <=> state[w] = "none"
  PROVE  Visible'[w] = IF state[w] = "none" THEN Visible[w] ELSE state'[w]
<1>1. tx'[p] = Idle /\ Others(p)
  BY EndFacts DEF TxInv
<1>2. tx'[p].op # "place"
  BY <1>1 DEF Idle
<1>3. state[w] = "none" => (Placed(w)' <=> Placed(w))
  BY <1>1, <1>2 DEF Placed, Others
<1>4. QED
  BY <1>3, VisibleNext

(* OpenMarket, CloseMarket and CloseMarketWithoutAction.                   *)
LEMMA MarketCommitImplements ==
  ASSUME TxInv, NEW p \in Workers, End(p), MarketCommit(p)
  PROVE  B!Next
<1>1. PICK m \in Markets : m = tx[p].row /\
        (OpenMarket(m) \/ CloseMarket(m) \/ CloseMarketWithoutAction(m))
  BY DEF MarketCommit
<1>2. state' = state
  BY <1>1 DEF OpenMarket, CloseMarket, CloseMarketWithoutAction, wagerVars
<1>3. tx[p].row \notin Wagers
  BY <1>1, BookTxAssumption
<1>4. \A w \in Wagers : Visible'[w] = Visible[w]
  BY <1>2, <1>3, CommitShows, VisibleFacts
<1>5. Visible' = Visible
  BY <1>4, VisibleNext
<1>6. B!Live(m) = Live(m)
  BY SameWagers
<1>7. B!OpenMarket(m) \/ B!CloseMarket(m) \/ B!CloseMarketWithoutAction(m)
  BY <1>1, <1>5, <1>6 DEF OpenMarket, CloseMarket, CloseMarketWithoutAction, wagerVars,
       B!OpenMarket, B!CloseMarket, B!CloseMarketWithoutAction, B!wagerVars
<1>8. QED
  BY <1>7 DEF B!Next, B!MarketStep

(* Grading: Book sees the same wagers graded, to the same ledger.          *)
LEMMA GradeImplements ==
  ASSUME TxInv, NEW p \in Workers, End(p), NEW m \in Markets, tx[p].row = m,
         NEW out, NEW n, Grade(m, out, n)
  PROVE  B!Grade(m, out, n)
<1> DEFINE A == Accepted(m)
<1>1. tx[p].row \notin Wagers
  BY BookTxAssumption
<1>2. \A w \in A : w \in Wagers /\ state[w] = "accepted"
  BY DEF Accepted
<1>3. /\ \A w \in A : SettlementKey(version[m] + 1) \notin keys[w]
      /\ version' = [version EXCEPT ![m] = @ + 1]
      /\ state' = [w \in Wagers |->
                     IF w \notin A THEN state[w]
                     ELSE IF out[Request[w].side] = "void" THEN "voided" ELSE "settled"]
      /\ ledger' = [w \in Wagers |->
                     IF w \notin A THEN ledger[w]
                     ELSE Release(ledger[w], stake[w],
                            Lines(out[Request[w].side], stake[w], Request[w].odds, n).user,
                            Lines(out[Request[w].side], stake[w], Request[w].odds, n).house)]
      /\ keys' = [w \in Wagers |->
                    IF w \in A THEN keys[w] \cup {SettlementKey(version[m] + 1)} ELSE keys[w]]
      /\ UNCHANGED stake
  BY DEF Grade, GradeSet
<1>4. B!Accepted(m) = A
  BY SameWagers
<1> HIDE DEF A
<1>5. \A w \in Wagers : state'[w] = "none" <=> state[w] = "none"
  BY <1>2, <1>3
<1>6. \A w \in Wagers : Visible'[w] = IF state[w] = "none" THEN Visible[w] ELSE state'[w]
  BY <1>1, <1>5, CommitShows
<1>7. \A w \in Wagers : Visible'[w] =
                     IF w \notin A THEN Visible[w]
                     ELSE IF out[Request[w].side] = "void" THEN "voided" ELSE "settled"
  BY <1>2, <1>3, <1>6, VisibleFacts
<1>8. Visible' = [w \in Wagers |->
                     IF w \notin A THEN Visible[w]
                     ELSE IF out[Request[w].side] = "void" THEN "voided" ELSE "settled"]
  BY <1>7, VisibleNext
<1>9. ledger' = [w \in Wagers |->
                     IF w \notin A THEN ledger[w]
                     ELSE B!Release(ledger[w], stake[w],
                            B!Lines(out[Request[w].side], stake[w], Request[w].odds, n).user,
                            B!Lines(out[Request[w].side], stake[w], Request[w].odds, n).house)]
  BY <1>3, SameOperators DEF B!Release, Release
<1>10. /\ \A w \in A : B!SettlementKey(version[m] + 1) \notin keys[w]
       /\ keys' = [w \in Wagers |->
                    IF w \in A THEN keys[w] \cup {B!SettlementKey(version[m] + 1)} ELSE keys[w]]
  BY <1>3 DEF SettlementKey, B!SettlementKey
<1>11. QED
  BY <1>3, <1>4, <1>8, <1>9, <1>10 DEF B!Grade, B!GradeSet

(* SettleMarket and VoidMarket.                                            *)
LEMMA SettleCommitImplements ==
  ASSUME TxInv, NEW p \in Workers, End(p), SettleCommit(p)
  PROVE  B!Next
<1>1. PICK m \in Markets : tx[p].row = m
  BY DEF SettleCommit
<1>2. CASE \E out \in Outcomes, tied \in BOOLEAN : SettleMarket(m, out, tied)
  <2>1. PICK out \in Outcomes, tied \in BOOLEAN : SettleMarket(m, out, tied)
    BY <1>2
  <2> DEFINE n == IF tied THEN Winners(out) ELSE 1
  <2>2. B!Winners(out) = Winners(out)
    BY SameOperators DEF B!Winners, Winners
  <2>3. Grade(m, out, n)
    BY <2>1 DEF SettleMarket
  <2>4. B!Grade(m, out, n)
    BY <1>1, <2>3, GradeImplements
  <2>5. B!SettleMarket(m, out, tied)
    BY <2>1, <2>2, <2>4 DEF SettleMarket, B!SettleMarket
  <2>6. out \in B!Outcomes
    BY DEF Outcomes, B!Outcomes, Results, B!Results
  <2>7. QED
    BY <2>5, <2>6 DEF B!Next, B!MarketStep
<1>3. CASE VoidMarket(m)
  <2>1. B!Grade(m, [s \in Sides |-> "void"], 1)
    BY <1>1, <1>3, GradeImplements DEF VoidMarket
  <2>2. B!VoidMarket(m)
    BY <1>3, <2>1 DEF VoidMarket, B!VoidMarket
  <2>3. QED
    BY <2>2 DEF B!Next, B!MarketStep
<1>4. QED
  BY <1>1, <1>2, <1>3 DEF SettleCommit

(* InsertWager: the wager inserted was quoted.                             *)
LEMMA InsertCommitImplements ==
  ASSUME TxInv, NEW p \in Workers, End(p), InsertCommit(p)
  PROVE  B!Next
<1>1. PICK w \in Wagers :
        /\ tx[p].row = w /\ tx[p].op = "place" /\ state[w] = "none"
        /\ state' = [state EXCEPT ![w] = "pending"]
        /\ UNCHANGED <<marketVars, stake, ledger, keys, regrades>>
  BY DEF InsertCommit, WriteInsert
<1>2. state \in [Wagers -> WagerStates]
  BY DEF TxInv, IInv, TypeOK
<1>3. Visible \in [Wagers -> WagerStates] /\ Visible[w] = "quoted"
  BY <1>1, VisibleFacts DEF Placed
<1>4. tx'[p] = Idle /\ Others(p)
  BY EndFacts DEF TxInv
<1>5. tx'[p].op # "place"
  BY <1>4 DEF Idle
<1>6. \A v \in Wagers \ {w} : Placed(v)' <=> Placed(v)
  BY <1>1, <1>4, <1>5 DEF Placed, Others
<1>7. Visible' = [Visible EXCEPT ![w] = "pending"]
  BY <1>1, <1>2, <1>3, <1>6, VisibleNext
<1>8. B!InsertWager(w)
  BY <1>1, <1>3, <1>7 DEF B!InsertWager, B!WriteInsert, marketVars, B!marketVars
<1>9. QED
  BY <1>8 DEF B!Next, B!WagerStep

(* AcceptWager, RejectWager, VoidWager and ReduceWager: the wager is on    *)
(* the books, so Book sees its state.                                      *)
LEMMA WagerCommitImplements ==
  ASSUME TxInv, NEW p \in Workers, End(p), RejectCommit(p) \/ MoneyCommit(p)
  PROVE  B!Next
<1>1. PICK w \in Wagers : tx[p].row = w /\
        \/ RejectWager(w) \/ AcceptWager(w) \/ VoidWager(w)
        \/ \E n \in 0 .. Request[w].stake : ReduceWager(w, n)
  BY DEF RejectCommit, MoneyCommit
<1>2. state \in [Wagers -> WagerStates] /\ Visible \in [Wagers -> WagerStates]
  BY VisibleFacts DEF TxInv, IInv, TypeOK
<1>3. state[w] \in {"pending", "accepted"} /\ Visible[w] = state[w]
  <2>1. state[w] \in {"pending", "accepted"}
    BY <1>1 DEF RejectWager, AcceptWager, VoidWager, ReduceWager
  <2>2. QED
    BY <2>1, VisibleFacts
<1>4. ASSUME NEW s, s # "none", state' = [state EXCEPT ![w] = s]
      PROVE  Visible' = [Visible EXCEPT ![w] = s]
  <2>1. \A v \in Wagers : state'[v] = "none" <=> state[v] = "none"
    BY <1>2, <1>3, <1>4
  <2>2. \A v \in Wagers : Visible'[v] = IF state[v] = "none" THEN Visible[v] ELSE state'[v]
    BY <1>1, <1>3, <2>1, CommitShows
  <2>3. \A v \in Wagers : Visible'[v] = IF v = w THEN s ELSE Visible[v]
    BY <1>2, <1>3, <1>4, <2>2, VisibleFacts
  <2>4. QED
    BY <1>2, <2>3, VisibleNext
<1>5. CASE RejectWager(w)
  <2>1. Visible' = [Visible EXCEPT ![w] = "rejected"]
    BY <1>4, <1>5 DEF RejectWager, WriteRejection
  <2>2. B!RejectWager(w)
    BY <1>3, <1>5, <2>1 DEF RejectWager, WriteRejection, B!RejectWager, B!WriteRejection,
         marketVars, B!marketVars
  <2>3. QED
    BY <2>2 DEF B!Next, B!WagerStep
<1>6. CASE AcceptWager(w)
  <2>1. Visible' = [Visible EXCEPT ![w] = "accepted"]
    BY <1>4, <1>6 DEF AcceptWager, WriteAcceptance
  <2>2. B!Available(Request[w].user) = Available(Request[w].user)
    BY SameBalance
  <2>3. B!WriteAcceptance(w)
    BY <1>6, <2>1 DEF AcceptWager, WriteAcceptance, B!WriteAcceptance, AcceptanceKey,
         B!AcceptanceKey, marketVars, B!marketVars
  <2>4. B!AcceptWager(w)
    BY <1>3, <1>6, <2>2, <2>3 DEF AcceptWager, B!AcceptWager, Market, B!Market, Decided, B!Decided
  <2>5. QED
    BY <2>4 DEF B!Next, B!WagerStep
<1>7. CASE VoidWager(w)
  <2>1. Visible' = [Visible EXCEPT ![w] = "voided"]
    BY <1>4, <1>7 DEF VoidWager, WriteVoid
  <2>2. B!VoidWager(w)
    BY <1>3, <1>7, <2>1 DEF VoidWager, WriteVoid, B!VoidWager, B!WriteVoid, VoidKey, B!VoidKey,
         Release, B!Release, marketVars, B!marketVars
  <2>3. QED
    BY <2>2 DEF B!Next, B!WagerStep
<1>8. CASE \E n \in 0 .. Request[w].stake : ReduceWager(w, n)
  <2>1. PICK n \in 0 .. Request[w].stake : ReduceWager(w, n)
    BY <1>8
  <2>2. state' = state
    BY <2>1 DEF ReduceWager, WriteReduction
  <2>3. \A v \in Wagers : Visible'[v] = IF state[v] = "none" THEN Visible[v] ELSE state'[v]
    BY <1>1, <1>3, <2>2, CommitShows
  <2>4. \A v \in Wagers : Visible'[v] = Visible[v]
    BY <2>2, <2>3, VisibleFacts
  <2>5. Visible' = Visible
    BY <2>4, VisibleNext
  <2>6. B!WriteReduction(w, n)
    BY <2>1, <2>5 DEF ReduceWager, WriteReduction, B!WriteReduction, ReduceKey, B!ReduceKey,
         marketVars, B!marketVars
  <2>7. B!ReduceWager(w, n)
    BY <1>3, <2>1, <2>6 DEF ReduceWager, B!ReduceWager, Market, B!Market, Decided, B!Decided
  <2>8. QED
    BY <2>7 DEF B!Next, B!WagerStep
<1>9. QED
  BY <1>1, <1>5, <1>6, <1>7, <1>8

(* The store's transactions, each a sequence of locked statements that     *)
(* interleaves with the others, implement Book's atomic operations.        *)
THEOREM RefinesBook == TxSpec => ImplementsBook
<1>1. TxInit => B!Init
  BY InitImplements
<1>2. TxInv /\ [TxNext]_txVars => [B!Next]_(B!vars)
  <2> SUFFICES ASSUME TxInv, [TxNext]_txVars PROVE B!Next \/ UNCHANGED B!vars
    OBVIOUS
  <2>1. CASE \E p \in Workers : Step(p) \/ Rollback(p)
    <3>1. PICK p \in Workers : Step(p) \/ Rollback(p)
      BY <2>1
    <3>2. Moves(p) \/ Commits(p)
      BY <3>1, StepMovesOrCommits
    <3>3. QED
      BY <3>2, MoveImplements, MarketCommitImplements, SettleCommitImplements,
         InsertCommitImplements, WagerCommitImplements DEF Commits
  <2>2. CASE UNCHANGED txVars
    <3>1. UNCHANGED vars /\ tx' = tx
      BY <2>2 DEF txVars
    <3>2. \A w \in Wagers : Placed(w)' <=> Placed(w)
      BY <3>1 DEF Placed
    <3>3. QED
      BY <3>1, <3>2, Unseen
  <2>3. QED
    BY <2>1, <2>2 DEF TxNext
<1>3. QED
  BY <1>1, <1>2, TxInvariance, PTL DEF TxSpec, ImplementsBook, B!Spec

-----------------------------------------------------------------------------
(* Deadlock over market and wager rows *)

(* A transaction that waits for a market or wager row and already has one  *)
(* is a settlement collecting wagers or a placement with its key.          *)
LEMMA WhoWaits ==
  ASSUME TxInv, NEW p \in Workers, NEW q \in Workers, WaitsForRow(p, q),
         tx[p].holds \cup tx[p].shares # {}
  PROVE  \/ /\ Settling(p)
            /\ \E r \in Wagers : /\ Market(r) = tx[p].row /\ state[r] # "none"
                                 /\ r \in tx[q].holds \cup tx[q].shares
         \/ /\ Placing(p) /\ tx[p].step = "key"
            /\ Market(tx[p].row) \in tx[q].holds
<1>1. Shape(p) /\ tx[p].todo \in Seq(Rows)
  BY FieldTypes DEF TxInv
<1>2. CASE /\ tx[p].todo # <<>>
           /\ Head(tx[p].todo) \in Markets \cup Wagers
           /\ Head(tx[p].todo) \in tx[q].holds \cup tx[q].shares
  <2> DEFINE r == Head(tx[p].todo)
  <2>1. r \in Queued(p)
    BY <1>1, <1>2, RangeOfTail DEF Queued
  <2>2. r \notin AccountRows
    BY <1>2, BookTxAssumption DEF AccountRows
  <2>3. ~ FirstLock(p) /\ ~ Counted(p) /\ ~ Placing(p) /\ tx[p] # Idle
    BY <1>2 DEF FirstLock, Counted, Placing, Idle
  <2>4. ~ Checked(p)
    BY <2>1, <2>2 DEF Checked
  <2>5. Settling(p)
    BY <1>1, <2>3, <2>4 DEF Shape, OnMarket, OnWager
  <2>6. r \in tx[p].seen
    BY <2>1, <2>2, <2>5 DEF Settling
  <2>7. r \in Wagers
    BY <2>6, FieldTypes DEF TxInv
  <2>8. QED
    BY <1>2, <2>5, <2>6, <2>7 DEF Settling
<1>3. CASE Running(p, "place", "begin")
  <2>1. Placing(p)
    BY <1>1, <1>3 DEF Running, Shape, Idle, OnMarket, OnWager
  <2>2. QED
    BY <1>3, <2>1 DEF Running, Placing
<1>4. CASE Running(p, "place", "key") /\ Market(tx[p].row) \in tx[q].holds
  <2>1. Placing(p)
    BY <1>1, <1>4 DEF Running, Shape, Idle, OnMarket, OnWager
  <2>2. QED
    BY <1>4, <2>1 DEF Running
<1>5. QED
  BY <1>2, <1>3, <1>4 DEF WaitsForRow, Holders, Sharers

(* Whoever is waited for has a lock, and is not the one who waits.         *)
LEMMA WaitedFor ==
  ASSUME NEW p \in Workers, NEW q \in Workers, WaitsForRow(p, q)
  PROVE  p # q /\ tx[q].holds \cup tx[q].shares # {}
BY DEF WaitsForRow, Holders, Sharers

(* A settlement collecting wagers and a placement with its key do not wait *)
(* for each other: the placement's wager is not on the books yet.          *)
LEMMA SettlementAndPlacement ==
  ASSUME TxInv, NEW q \in Workers, Placing(q), tx[q].step = "key",
         NEW r \in Wagers, state[r] # "none", r \in tx[q].holds \cup tx[q].shares
  PROVE  FALSE
BY DEF Placing

(* A settlement collecting wagers waits for a transaction that does not    *)
(* wait for rows itself.                                                   *)
LEMMA SettlementWaitsLast ==
  ASSUME TxInv, NEW p \in Workers, NEW q \in Workers, NEW t \in Workers,
         Settling(p), WaitsForRow(p, q), WaitsForRow(q, t)
  PROVE  FALSE
<1>1. /\ p # q /\ tx[q].holds \cup tx[q].shares # {}
      /\ tx[p].holds \cup tx[p].shares # {}
  BY WaitedFor DEF Settling
<1>2. ~ Placing(p)
  BY DEF Settling, Placing
<1>3. PICK r \in Wagers : /\ Market(r) = tx[p].row /\ state[r] # "none"
                          /\ r \in tx[q].holds \cup tx[q].shares
  BY <1>1, <1>2, WhoWaits
<1>4. CASE Settling(q)
  <2>1. r \in tx[q].holds
    BY <1>3, <1>4 DEF Settling
  <2>2. tx[q].row \in Markets
    <3>1. Shape(q)
      BY DEF TxInv
    <3>2. QED
      BY <1>4, <3>1 DEF Shape, Idle, OnMarket, Placing, OnWager, Settling
  <2>3. r \in tx[q].seen
    BY <1>3, <1>4, <2>1, <2>2, BookTxAssumption DEF Settling, AccountRows
  <2>4. tx[q].row = tx[p].row
    BY <1>3, <1>4, <2>3 DEF Settling
  <2>5. QED
    BY <1>1, <1>4, <2>4 DEF Settling, Exclusive, TxInv
<1>5. CASE Placing(q) /\ tx[q].step = "key"
  BY <1>3, <1>5, SettlementAndPlacement
<1>6. QED
  BY <1>1, <1>4, <1>5, WhoWaits

(* Transactions never wait for each other's market and wager rows in a     *)
(* ring, of any length.                                                    *)
THEOREM NoDeadlock == TxSpec => []NoRowDeadlock
<1>1. TxInv => NoRowDeadlock
  <2> SUFFICES ASSUME TxInv, NEW S \in SUBSET Workers, NEW p \in S,
                      \A a \in S : \E b \in S : WaitsForRow(a, b)
               PROVE  FALSE
    BY DEF NoRowDeadlock
  <2>1. PICK q \in S : WaitsForRow(p, q)
    OBVIOUS
  <2>2. PICK t \in S : WaitsForRow(q, t)
    OBVIOUS
  <2>3. PICK x \in S : WaitsForRow(t, x)
    OBVIOUS
  <2>4. PICK y \in S : WaitsForRow(x, y)
    OBVIOUS
  <2>5. p \in Workers /\ q \in Workers /\ t \in Workers /\ x \in Workers /\ y \in Workers
    OBVIOUS
  <2>6. /\ tx[q].holds \cup tx[q].shares # {} /\ tx[t].holds \cup tx[t].shares # {}
    BY <2>1, <2>2, <2>5, WaitedFor
  <2>7. CASE Settling(q)
    BY <2>2, <2>3, <2>5, <2>7, SettlementWaitsLast
  <2>8. CASE Placing(q) /\ Market(tx[q].row) \in tx[t].holds
    <3>1. Market(tx[q].row) \in Markets
      BY <2>8, BookAssumption DEF Placing, Market, Requests
    <3>2. ~ Placing(t)
      BY <2>8, <3>1, BookTxAssumption DEF Placing
    <3>3. Settling(t)
      BY <2>3, <2>5, <2>6, <3>2, WhoWaits
    <3>4. QED
      BY <2>3, <2>4, <2>5, <3>3, SettlementWaitsLast
  <2>9. QED
    BY <2>2, <2>5, <2>6, <2>7, <2>8, WhoWaits
<1>2. QED
  BY <1>1, TxInvariance, PTL

-----------------------------------------------------------------------------
(* No member spends what they do not have *)

(* A winner is never charged.                                              *)
LEMMA ProfitNatural ==
  ASSUME NEW c \in Nat, NEW o, ValidOdds(o)
  PROVE  Profit(o, c) \in Nat
<1> DEFINE product == c * Numerator(o)
           d == Denominator(o)
<1>1. Numerator(o) \in Nat /\ d \in Nat \ {0}
  BY DEF ValidOdds, Numerator, Denominator
<1>2. product \in Nat
  BY <1>1
<1>3. Profit(o, c) = product \div d + (IF product % d >= (d + 1) \div 2 THEN 1 ELSE 0)
  BY DEF Profit
<1> HIDE DEF product, d
<1>4. product \div d \in Nat
  BY <1>1, <1>2
<1>5. QED
  BY <1>3, <1>4

(* No graded wager takes money from its owner.                             *)
LEMMA GradingNeverCharges ==
  ASSUME NEW result, NEW c \in Nat, NEW o, ValidOdds(o), NEW n \in Nat \ {0}
  PROVE  Lines(result, c, o, n).user \in Nat
<1>1. WinningStake(c, n) \in Nat
  BY DEF WinningStake
<1>2. WinProfit(c, o, n) \in Nat
  BY <1>1, ProfitNatural DEF WinProfit
<1>3. QED
  BY <1>1, <1>2 DEF Lines

Mine(u) == {v \in Wagers : Request[v].user = u}

Nets(u) == [w \in Mine(u) |-> UserNet(w)]

(* A balance is a sum of integers over finitely many wagers.               *)
LEMMA NetFacts ==
  ASSUME TypeOK, NEW u
  PROVE  /\ IsFiniteSet(Mine(u)) /\ Mine(u) \subseteq Wagers
         /\ Nets(u) \in [Mine(u) -> Int]
         /\ \A w \in Wagers : UserNet(w) \in Int
         /\ Available(u) = Credit[u] + SumFunction(Nets(u))
<1>1. Mine(u) \subseteq Wagers
  BY DEF Mine
<1>2. IsFiniteSet(Mine(u))
  BY <1>1, FS_Subset, BookAssumption
<1>3. \A w \in Wagers : UserNet(w) \in Int
  BY DEF TypeOK, LedgerEntry, UserNet
<1>4. Nets(u) \in [Mine(u) -> Int]
  BY <1>1, <1>3 DEF Nets
<1>5. Available(u) = Credit[u] + SumFunction(Nets(u))
  BY DEF Available, Nets, Mine
<1>6. QED
  BY <1>1, <1>2, <1>3, <1>4, <1>5

(* The same after a step.                                                  *)
LEMMA NetFactsNext ==
  ASSUME TypeOK', NEW u
  PROVE  /\ Nets(u)' \in [Mine(u) -> Int]
         /\ \A w \in Wagers : UserNet(w)' \in Int
         /\ Available(u)' = Credit[u] + SumFunction(Nets(u)')
<1>1. Mine(u) \subseteq Wagers
  BY DEF Mine
<1>2. \A w \in Wagers : UserNet(w)' \in Int
  BY DEF TypeOK, LedgerEntry, UserNet
<1>3. Nets(u)' = [w \in Mine(u) |-> UserNet(w)']
  BY DEF Nets, Mine
<1>4. Nets(u)' \in [Mine(u) -> Int]
  BY <1>1, <1>2, <1>3
<1>5. Available(u)' = Credit[u] + SumFunction(Nets(u)')
  BY DEF Available, Nets, Mine
<1>6. QED
  BY <1>2, <1>4, <1>5

(* A step that takes money from no wager's owner lowers no balance.        *)
LEMMA BalanceGrows ==
  ASSUME TypeOK, TypeOK', NoOverspend, \A w \in Wagers : UserNet(w) <= UserNet(w)'
  PROVE  NoOverspend'
<1> SUFFICES ASSUME NEW u \in Users PROVE Available(u)' >= 0
  BY DEF NoOverspend
<1>1. /\ IsFiniteSet(Mine(u)) /\ Mine(u) \subseteq Wagers
      /\ Nets(u) \in [Mine(u) -> Int] /\ Nets(u)' \in [Mine(u) -> Int]
  BY NetFacts, NetFactsNext
<1>2. \A w \in Mine(u) : Nets(u)[w] <= Nets(u)'[w]
  BY <1>1 DEF Nets, Mine
<1>3. PICK e \in [Mine(u) -> Int] : e = Nets(u)
  BY <1>1
<1>4. PICK f \in [Mine(u) -> Int] : f = Nets(u)'
  BY <1>1
<1>5. SumFunction(e) <= SumFunction(f) /\ SumFunction(e) \in Int /\ SumFunction(f) \in Int
  BY <1>1, <1>2, <1>3, <1>4, SumMonotone, SumType
<1>6. Available(u) = Credit[u] + SumFunction(e) /\ Available(u)' = Credit[u] + SumFunction(f)
  BY <1>3, <1>4, NetFacts, NetFactsNext
<1>7. Credit[u] \in Nat /\ Available(u) >= 0
  BY BookAssumption DEF NoOverspend
<1>8. QED
  BY <1>5, <1>6, <1>7

(* AcceptWager takes the stake from its owner, who had it.                 *)
LEMMA AcceptanceCovered ==
  ASSUME TypeOK, TypeOK', NoOverspend, NEW w \in Wagers, AcceptWager(w)
  PROVE  NoOverspend'
<1> SUFFICES ASSUME NEW u \in Users PROVE Available(u)' >= 0
  BY DEF NoOverspend
<1>1. /\ ledger' = [ledger EXCEPT ![w].accepted = @ + stake[w]]
      /\ Available(Request[w].user) >= stake[w]
  BY DEF AcceptWager, WriteAcceptance
<1>2. ledger \in [Wagers -> LedgerEntry] /\ stake[w] \in Nat
  BY DEF TypeOK
<1>3. /\ ledger'[w].accepted = ledger[w].accepted + stake[w]
      /\ ledger'[w].reduced = ledger[w].reduced /\ ledger'[w].paid = ledger[w].paid
      /\ \A v \in Wagers \ {w} : ledger'[v] = ledger[v]
  BY <1>1, <1>2 DEF LedgerEntry
<1>4. /\ \A v \in Wagers \ {w} : UserNet(v)' = UserNet(v)
      /\ UserNet(w)' = UserNet(w) - stake[w]
  <2>1. ledger[w].accepted \in Int /\ ledger[w].reduced \in Int /\ ledger[w].paid \in Int
    BY <1>2 DEF LedgerEntry
  <2>2. QED
    BY <1>2, <1>3, <2>1 DEF UserNet
<1>5. /\ IsFiniteSet(Mine(u)) /\ Mine(u) \subseteq Wagers
      /\ Nets(u) \in [Mine(u) -> Int] /\ Nets(u)' \in [Mine(u) -> Int]
  BY NetFacts, NetFactsNext
<1>6. PICK e \in [Mine(u) -> Int] : e = Nets(u)
  BY <1>5
<1>7. PICK f \in [Mine(u) -> Int] : f = Nets(u)'
  BY <1>5
<1>8. \A v \in Mine(u) : e[v] = UserNet(v) /\ f[v] = UserNet(v)'
  BY <1>6, <1>7 DEF Nets, Mine
<1>9. /\ Available(u) = Credit[u] + SumFunction(e)
      /\ Available(u)' = Credit[u] + SumFunction(f)
      /\ SumFunction(e) \in Int /\ SumFunction(f) \in Int /\ Credit[u] \in Nat
  BY <1>5, <1>6, <1>7, NetFacts, NetFactsNext, SumType, BookAssumption
<1>10. CASE w \in Mine(u)
  <2>1. SumFunction(f) = SumFunction(e) + (f[w] - e[w])
    BY <1>4, <1>5, <1>8, <1>10, SumChange
  <2>2. f[w] - e[w] = -stake[w]
    <3>1. e[w] \in Int /\ f[w] = e[w] - stake[w]
      BY <1>4, <1>8, <1>10
    <3>2. QED
      BY <1>2, <3>1
  <2>3. Available(u) >= stake[w]
    BY <1>1, <1>10 DEF Mine
  <2>4. QED
    BY <1>2, <1>9, <2>1, <2>2, <2>3
<1>11. CASE w \notin Mine(u)
  <2>1. \A v \in Mine(u) : f[v] = e[v]
    BY <1>4, <1>5, <1>8, <1>11
  <2>2. f = e
    BY <2>1
  <2>3. Available(u) >= 0
    BY DEF NoOverspend
  <2>4. QED
    BY <1>9, <2>2, <2>3
<1>12. QED
  BY <1>10, <1>11

(* What the earlier release accepted is all that is taken at the start,    *)
(* and it was covered.                                                     *)
LEMMA InitCovered == TxInit => NoOverspend
<1> SUFFICES ASSUME TxInit, NEW u \in Users PROVE Available(u) >= 0
  BY DEF NoOverspend
<1>1. ledger = [w \in Wagers |-> IF w \in LegacyWagers
                                 THEN [NoEntry EXCEPT !.accepted = Request[w].stake]
                                 ELSE NoEntry]
  BY DEF TxInit, Init
<1>2. \A w \in Wagers : Request[w].stake \in Nat
  BY BookAssumption DEF Requests
<1>3. \A w \in Wagers : UserNet(w) = IF w \in LegacyWagers THEN -Request[w].stake ELSE 0
  BY <1>1, <1>2 DEF UserNet, NoEntry
<1> DEFINE e == [w \in {v \in Wagers : Request[v].user = u} |-> UserNet(w)]
           f == [w \in {v \in Wagers : Request[v].user = u} |->
                   IF w \in LegacyWagers THEN -Request[w].stake ELSE 0]
<1>4. e = f
  BY <1>3
<1>5. Available(u) = Credit[u] + SumFunction(e) /\ Credit[u] + SumFunction(f) >= 0
  BY OpeningAssumption DEF Available
<1> HIDE DEF e, f
<1>6. QED
  BY <1>4, <1>5

(* Grading takes money from nobody: what a wager pays is never negative.   *)
LEMMA GradeCovered ==
  ASSUME TypeOK, TypeOK', NoOverspend, NEW graded \in SUBSET Wagers, NEW m, NEW out,
         NEW n \in Nat \ {0}, GradeSet(graded, m, out, n)
  PROVE  NoOverspend'
<1> DEFINE lines(w) == Lines(out[Request[w].side], stake[w], Request[w].odds, n)
<1>1. ledger' = [w \in Wagers |->
                   IF w \notin graded THEN ledger[w]
                   ELSE Release(ledger[w], stake[w], lines(w).user, lines(w).house)]
  BY DEF GradeSet
<1>2. \A w \in Wagers : lines(w).user \in Nat
  <2>1. \A w \in Wagers : stake[w] \in Nat /\ ValidOdds(Request[w].odds)
    BY BookAssumption DEF TypeOK
  <2>2. QED
    BY <2>1, GradingNeverCharges
<1> HIDE DEF lines
<1>3. ASSUME NEW w \in Wagers PROVE UserNet(w) <= UserNet(w)'
  <2>1. /\ ledger[w].accepted \in Int /\ ledger[w].reduced \in Int /\ ledger[w].paid \in Int
    BY DEF TypeOK, LedgerEntry
  <2>2. /\ ledger'[w].accepted = ledger[w].accepted /\ ledger'[w].reduced = ledger[w].reduced
        /\ \/ ledger'[w].paid = ledger[w].paid
           \/ ledger'[w].paid = ledger[w].paid + lines(w).user
    BY <1>1 DEF Release
  <2>3. QED
    BY <1>2, <2>1, <2>2 DEF UserNet
<1>4. QED
  BY <1>3, BalanceGrows

(* A step that posts nothing leaves every balance alone.                   *)
LEMMA QuietCovered ==
  ASSUME NoOverspend, ledger' = ledger
  PROVE  NoOverspend'
BY DEF NoOverspend, Available, UserNet

(* No commit takes a member below the credit limit.                        *)
LEMMA CommitCovered ==
  ASSUME IInv, IInv', NoOverspend, NEW p \in Workers, Commits(p)
  PROVE  NoOverspend'
<1>t. TypeOK /\ TypeOK'
  BY DEF IInv
<1>q. ASSUME ledger' = ledger PROVE NoOverspend'
  BY <1>q, QuietCovered
<1>1. CASE MarketCommit(p)
  BY <1>1, <1>q DEF MarketCommit, OpenMarket, CloseMarket, CloseMarketWithoutAction, wagerVars
<1>2. CASE SettleCommit(p)
  <2>1. PICK m \in Markets :
          \/ \E out \in Outcomes, tied \in BOOLEAN : SettleMarket(m, out, tied)
          \/ VoidMarket(m)
    BY <1>2 DEF SettleCommit
  <2>2. Accepted(m) \in SUBSET Wagers
    BY DEF Accepted
  <2>3. CASE VoidMarket(m)
    <3>1. GradeSet(Accepted(m), m, [s \in Sides |-> "void"], 1)
      BY <2>3 DEF VoidMarket, Grade
    <3>2. QED
      BY <1>t, <2>2, <3>1, GradeCovered
  <2>4. CASE \E out \in Outcomes, tied \in BOOLEAN : SettleMarket(m, out, tied)
    <3>1. PICK out \in Outcomes, tied \in BOOLEAN : SettleMarket(m, out, tied)
      BY <2>4
    <3> DEFINE n == IF tied THEN Winners(out) ELSE 1
    <3>2. GradeSet(Accepted(m), m, out, n) /\ (tied => Winners(out) >= 2)
      BY <3>1 DEF SettleMarket, Grade
    <3>3. n \in Nat \ {0}
      <4>1. Winners(out) \in Nat
        BY BookAssumption, FS_Subset, FS_CardinalityType DEF Winners
      <4>2. QED
        BY <3>2, <4>1
    <3> HIDE DEF n
    <3>4. QED
      BY <1>t, <2>2, <3>2, <3>3, GradeCovered
  <2>5. QED
    BY <2>1, <2>3, <2>4
<1>3. CASE InsertCommit(p)
  BY <1>3, <1>q DEF InsertCommit, WriteInsert
<1>4. CASE RejectCommit(p)
  BY <1>4, <1>q DEF RejectCommit, RejectWager, WriteRejection
<1>5. CASE MoneyCommit(p)
  <2>1. PICK w \in Wagers : \/ AcceptWager(w) \/ VoidWager(w)
                            \/ \E n \in 0 .. Request[w].stake : ReduceWager(w, n)
    BY <1>5 DEF MoneyCommit
  <2>2. /\ ledger \in [Wagers -> LedgerEntry] /\ stake[w] \in Nat
        /\ \A v \in Wagers : /\ ledger[v].accepted \in Int /\ ledger[v].reduced \in Int
                             /\ ledger[v].paid \in Int
    BY <1>t DEF TypeOK, LedgerEntry
  <2>3. CASE AcceptWager(w)
    BY <1>t, <2>3, AcceptanceCovered
  <2>4. CASE VoidWager(w)
    <3>1. ledger' = [ledger EXCEPT ![w] = Release(ledger[w], stake[w], stake[w], 0)]
      BY <2>4 DEF VoidWager, WriteVoid
    <3>2. /\ ledger'[w].accepted = ledger[w].accepted /\ ledger'[w].reduced = ledger[w].reduced
          /\ ledger'[w].paid = ledger[w].paid + stake[w]
          /\ \A v \in Wagers \ {w} : ledger'[v] = ledger[v]
      BY <2>2, <3>1 DEF Release
    <3>3. \A v \in Wagers : UserNet(v) <= UserNet(v)'
      BY <2>2, <3>2 DEF UserNet
    <3>4. QED
      BY <1>t, <3>3, BalanceGrows
  <2>5. CASE \E n \in 0 .. Request[w].stake : ReduceWager(w, n)
    <3>1. PICK n \in 0 .. Request[w].stake : ReduceWager(w, n)
      BY <2>5
    <3>2. n \in Int /\ n < stake[w]
      BY <3>1 DEF ReduceWager
    <3>3. ledger' = [ledger EXCEPT ![w].reduced = @ + (stake[w] - n)]
      BY <3>1 DEF ReduceWager, WriteReduction
    <3>4. /\ ledger'[w].accepted = ledger[w].accepted /\ ledger'[w].paid = ledger[w].paid
          /\ ledger'[w].reduced = ledger[w].reduced + (stake[w] - n)
          /\ \A v \in Wagers \ {w} : ledger'[v] = ledger[v]
      BY <2>2, <3>3 DEF LedgerEntry
    <3>5. \A v \in Wagers : UserNet(v) <= UserNet(v)'
      BY <2>2, <3>2, <3>4 DEF UserNet
    <3>6. QED
      BY <1>t, <3>5, BalanceGrows
  <2>6. QED
    BY <2>1, <2>3, <2>4, <2>5
<1>6. QED
  BY <1>1, <1>2, <1>3, <1>4, <1>5 DEF Commits

(* However acceptances, settlements, voids and reductions interleave, no   *)
(* member's balance falls below the credit limit, and locks and tables     *)
(* have their types.                                                       *)
THEOREM TxCorrect == TxSpec => []TxSound
<1>1. TxInit => TxInv /\ NoOverspend
  BY InitTxInv, InitCovered
<1>2. TxInv /\ NoOverspend /\ [TxNext]_txVars => (TxInv /\ NoOverspend)'
  <2> SUFFICES ASSUME TxInv, NoOverspend, [TxNext]_txVars PROVE TxInv' /\ NoOverspend'
    OBVIOUS
  <2>1. TxInv'
    BY NextTxInv
  <2>2. CASE UNCHANGED vars
    <3>1. ledger' = ledger
      BY <2>2 DEF vars, wagerVars
    <3>2. QED
      BY <2>1, <3>1, QuietCovered
  <2>3. CASE \E p \in Workers : Step(p) \/ Rollback(p)
    <3>1. PICK p \in Workers : Step(p) \/ Rollback(p)
      BY <2>3
    <3>2. Moves(p) \/ Commits(p)
      BY <3>1, StepMovesOrCommits
    <3>3. ASSUME Commits(p) PROVE NoOverspend'
      BY <2>1, <3>3, CommitCovered DEF TxInv
    <3>4. QED
      BY <2>1, <2>2, <3>2, <3>3 DEF Moves
  <2>4. QED
    BY <2>1, <2>2, <2>3 DEF TxNext, txVars
<1>3. TxInv /\ NoOverspend => TxSound
  <2> SUFFICES ASSUME TxInv, NoOverspend PROVE TxTypeOK
    BY DEF TxSound
  <2>1. TypeOK /\ tx \in [Workers -> TxRecord]
    BY DEF TxInv, IInv
  <2>2. ASSUME NEW p \in Workers PROVE Range(tx[p].todo) \subseteq Rows
    <3>1. tx[p].todo \in Seq(Rows)
      BY <2>1 DEF TxRecord
    <3>2. QED
      BY <3>1 DEF Range
  <2>3. QED
    BY <2>1, <2>2 DEF TxTypeOK, TxRecord, StepNames
<1>4. QED
  BY <1>1, <1>2, <1>3, PTL DEF TxSpec
=============================================================================
