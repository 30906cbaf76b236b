# Cabot Cup: a TLA+ model of the book

Cabot Cup is a Go modular monolith for a golf tournament: members bet on
matches and futures against the house, results are recorded by captains and
administrators, and everything lives in one PostgreSQL database. Money is a
double-entry ledger of integer cents. This directory models the parts that
decide who gets paid, who may act and what is kept, checks them with TLC on
small instances and proves with TLAPS, for every instance, the safety of the
book's arithmetic, of the book and its concurrent transactions, of event
delivery, match settlement, stake limits, parlays, match results, the tournament
tables, user accounts, settle-ups and the legacy import.

## 1. Inventory

| Component | State | Operations | What makes it hard |
|---|---|---|---|
| Money and odds (`internal/ledger`) | none | profit at an American price, posting validation | rounding, overflow, zero postings |
| Betting rules (`internal/betting`) | none (pure commands) | place, accept, reject, void, reduce, settle, void a market | dead heats, double entry |
| Betting store (`internal/bettingpg`) | markets, wagers, settlements, ledger rows | one READ COMMITTED transaction per method | row locks, unlocked reads, idempotency keys |
| Stake limits, restrictions, close time (`place.go`, `stakelimit.go`, `restrict.go`, `closetime.go`) | limits of markets, sides and members | placements check sums, administrators change limits | sums read while others commit, forms sent twice |
| Parlays (`parlay.go`, `parlayload.go`, `parlayprice.go`) | parlays, legs | place, accept, reject, cancel, resolve inside a market settlement | several settlements meet at one parlay |
| Outbox (`internal/events`, `internal/eventspg`) | outbox rows, receipts | publish, claim, handle, mark, release | crashes, leases, retries, two dispatchers |
| Dynamic pricing (`internal/pricing`, `reprice.go`, `setline.go`) | prices of a market | reprice after a wager or a refund, set by hand | late and repeated events, dropped failures, rounding |
| Adjustments (`adjust.go`, `settleup.go`) | ledger rows | record and reverse a settlement with a member | double submission, stale page |
| Match lifecycle (`internal/competition`) | submissions, confirmations, verified results | submit, confirm, dispute, override, correct | two captains and administrators, replayed commands |
| Match settlement (`match_settlement.go`, `consumer.go`, `create.go`) | none of its own | settles the markets of a match when its result is verified | redelivery, settlement by hand in between |
| Tournament tables (`internal/competitionpg`) | teams, rosters, links, matches, statistics | create, staff, link, record, project, delete | snapshot reads against concurrent inserts |
| Identity and login (`internal/identity*`, `internal/authweb`, `internal/membersweb`, `bootstrap.go`) | users, roles, sessions, invitations, login attempts | sign in, invite, revoke, change a role | one-time tokens, checks made before the write |
| Legacy import (`internal/migration/legacybook`, `legacy.go`) | batches, mappings, history | reconcile, approve, promote, run again | partial runs, a source that changes |
| Web handlers | none | parse, call a store, render | a few call two store methods |

How they interact: a web handler calls one store method, which runs one
database transaction. A method that changes something others care about
publishes an event in the same transaction. The dispatcher polls the outbox
and calls consumers (match settlement, pricing, statistics), which call the
stores again. Components therefore meet in the tables, under row locks, and in
the outbox. A few handlers do more: placing a wager is followed by an automatic
approval in a second transaction, an invitation is checked before it is
written, and a sign-in spreads over three requests. These are modelled with the
handler's steps in between.

## 2. Modules

| Module | Models | Composed of |
|---|---|---|
| `Odds` | profit, dead-heat split and ledger lines of one wager | |
| `Grading` | what `Odds` promises over sets of prices, stakes and tied winners | `Odds` |
| `Line` | the prices of a market and how they move | `Grading` |
| `Book` | the book as atomic operations: the abstract specification | `Odds` |
| `BookTx` | the same operations as statements, row locks and commits | `Book`, which it implements |
| `MatchSettlement` | match markets and the consumer that settles them | `Book`, which it implements, and the delivery `Outbox` promises |
| `StakeLimits` | limits, restrictions, close time and automatic approval | |
| `Parlay` | parlays against concurrent settlements and acceptances | `Odds` |
| `Outbox` | outbox rows and dispatchers | |
| `MatchRules` | what makes a team and a match well formed | |
| `MatchResult` | the result of one match | `MatchRules` |
| `Tournament` | the tables of one event | `MatchRules` |
| `Identity` | accounts, roles, invitations, sign-in, sessions | |
| `LedgerStore` | the ledger as the next two use it | |
| `SettleUp`, `LegacyImport` | the settle-up page; the import of the archived book | `LedgerStore` |
| `Accounts` | both over one ledger | `SettleUp`, `LegacyImport` |
| `SumProofs` | lemmas about sums over finite sets | |
| `BookProofs` | theorems | `Grading`, `Book`, `MatchSettlement` |
| `BookTxProofs` | theorems | `BookTx`, `BookProofs`, `SumProofs` |
| `PlacementProofs` | theorems | `Parlay`, `StakeLimits`, `SumProofs` |
| `AccountsProofs` | theorems | `Accounts`, `SumProofs` |
| `CompetitionProofs` | theorems | `MatchResult`, `Tournament` |
| `OutboxProofs`, `IdentityProofs` | theorems | `Outbox`; `Identity` |

`MC*.tla` and the `.cfg` files give the constants their values. Every module
ends with its properties; definitions just before an operation with a name like
`VoidRefundsAcceptance` are that operation with one mistake, used to see that
the properties notice it (`mutants` in `PROJECT.json`; a combined property
has several, for mistakes that break different parts of it).

### Odds and Line

`Profit(o, stake)` is `AmericanOdds.Profit`: the product of stake and
numerator, divided, with the remainder rounded half up. `ProfitOverflows` is
its guard; `MaxInt` stands for `math.MaxInt64` so that the guard can be
explored with small numbers. `Lines` and `Posted` are `settleWager`: the
amounts per account and the legs that are left out when they move nothing.
`Grading` states what these promise; the `odds` run evaluates it at every price
a line of that run can reach. It does not depend on the state, so the run asks
it of an empty book only; the theorems state it without that condition too.
`NoArbitrage` asks whether the prices taken along the way can be combined
against the book. The first wager on a board is always taken at the opening line,
so two boards have three wagers and a refund: both sides of a two-way board,
and two of three runners, are taken at prices that have drifted. A drift budget
half again too large is caught there.

`Line` is `pricing.Reprice` over the accepted stakes of one market, with the
drift floors, the rounding walk and the clamp. The code computes probabilities
in floating point; here they are whole parts per 10,000, and stakes are counted
in units in which the code's exponential is a power of two. A wager is priced
when placed; an acceptance queues a pricing event (`due`), which may be handled
late and more than once, or given up after its last attempt (`EventFailed`); a
void or reduction commits first and reprices in a second transaction (`after`).
A repricing that fails for good is forgotten by the code (`stale`), and the line
waits for the next one. `BackedSideShortens` allows a backed side one part in
10,000 for the rounding of its probability.

### Book

State: the state, settlement version, recorded outcome and dead-heat divisor
of each market; the state, stake, ledger totals and idempotency keys of each
wager. Ledger transactions are kept per wager, because each one moves money
between the wager's owner, escrow and the house. One action is one committed
transaction. Calls that end in an error or find their work already done
(repeated acceptances, voids, reductions, settlements) change nothing and are
stuttering steps. Two operations have an action of their own for a read that
happens outside the lock: `QuoteWager` (a placement reads the market) and
`ReadStranded` (a regrade looks for stranded wagers before its transaction).

`Init` includes what an earlier release left behind, because
`RegradeStrandedWagers` exists for it: settled markets (`LegacyMarkets`) with
wagers accepted after grading (`LegacyWagers`). Market states
`settlement_pending` and `cancelled` are allowed by the code and never
written by it; guards mention them, no action enters them.

### BookTx

Each worker runs one store method at a time, statement by statement. `holds`
and `shares` are its FOR UPDATE and FOR KEY SHARE locks, `todo` the rows the
current statement still has to lock. Reads see what is committed; writes
appear at commit. A settlement loads the wagers visible when its FOR UPDATE
statement starts and re-reads each row when its lock is granted, as READ
COMMITTED does. The KEY SHARE lock of a placement comes from the foreign key
`wagers_market_currency_fkey`, and it is what keeps a settlement from missing
a wager that is being inserted. `Rollback` may happen at any point: an error,
a refusal, a lost connection, or PostgreSQL breaking a deadlock. PostgreSQL's
transactions and locks are modelled from the way the store uses them.
Regrades run `settleWith` like a settlement and are left to `Book`.
`OpeningAssumption` says that the wagers an earlier release accepted were within
their owners' credit, as its own balance check left them.

`WaitsForRow(p, q)` says that p's next statement waits for a market or wager row
that q has. `NoRowDeadlock` forbids rings of any length: every set of
transactions has a member that waits for none of the set. Account rows are not
part of it: the code takes them last and settlements take several, so
PostgreSQL may have to break a deadlock there, which `Rollback` covers.

`ImplementsBook` is `Book!Spec` under the mapping `Visible`: a placement
between its market read and its commit is a quote; everything else is the
committed tables.

### MatchSettlement

Extends `Book` with the matches its markets belong to. `CreateMarket` inserts a
draft whose selections are mapped to the sides of the match (`KeyOf`);
`EarlierMarkets` were made before that was required. `RecordAdminResult` stores
the verdict and its event in one transaction. A delivery (`Deliver`) lists the
markets of the match that can be settled and then takes them one transaction at
a time (`CloseFirst`, `SettleOne`, `SkipOne`); it ends with `Return`, with an
error at any market (`HandleFailure`), or with the process (`Crash`). The
event's row is that of `Outbox`, a state at a time: a claim counts the attempt, an
error puts the row back or, once the attempt this worker claimed is the last
one, fails it for good, and a lease that runs out (`ReleaseStale`, or `Overrun`
while the worker is still at it) offers the row to another dispatcher. An error
may come every time: a settlement whose parlay cannot be priced
(`SettlementCanGrade` in `Parlay`) is refused at each attempt, and then the
stakes stay where they are. `StakesReturn` names this outcome: a stake is left
behind only with its event failed. Meanwhile administrators open, close,
settle and void the same markets, and members' wagers are placed, accepted,
rejected, voided and reduced. `OnlyBookSteps` says that every step is a step of
`Book` or leaves its state alone.

### StakeLimits

One market. A placement is a step per statement, because each check reads with
a statement of its own: read the market and its limit, the restrictions, lock
the side, three sums, insert (waiting for a limit change that has the market
row, and for a request inserting the same key), commit; then the handler reads
the member's approval limit and approves in a second transaction. A request is
one POST; two requests of one form carry the same key. `Scenarios` in
`MCStakeLimits` fix which requests are made and which settings change, so that
one run covers several situations without multiplying them.

### Parlay

A settlement of a market marks its legs (`ResolveLegs`), then locks each
affected parlay and looks at all its legs (`SettleParlayIfComplete`), and
makes all of it visible at once (`CommitSettlement`). An acceptance locks the
parlay, reads the markets without a lock (`AcceptCheck`) and commits later
(`AcceptParlay`). The funds check is a free choice (`AcceptFails`). Markets
that are open or closed are both "open" here: a settlement takes either.
Prices are exact fractions, floats in the code; the difference can only show
in a line that lies within float error of a half.

### Outbox

A row is pending, processing, completed or failed; `clock` says whether its
lease or backoff is still running, so no time appears. A worker is a
dispatcher with its claimed batch, its event and the consumer it is at.
`Crash` loses all of it. `MarkFails` and `ReleaseFails` are updates that fail
and are only logged; `Overrun` is a lease that ends while its worker is still
at the event, and `overrun` remembers for which events that happened. `effects`
is the consumer's own committed work, which an error may hide.

### MatchResult and Tournament

`MatchResult` is the aggregate `competition.Match`: one action per command,
under its mutex, with the identifiers that make commands repeatable. A refused
or repeated command stutters. The running application records results through
`RecordAdminResult` of the store (in `Tournament` and `MatchSettlement`); the
aggregate is exercised by the repository's tests.

`Tournament` is the tables of one event. Its SERIALIZABLE transactions read the
snapshot of their first statement (`tx`) and take effect at `Commit`; they
behave among themselves as if run one at a time, so one is in flight.
READ COMMITTED inserts (matches, markets, links) happen meanwhile; foreign keys
and the row locks they take are what orders them against deletions. The
statistics projection may be delivered any number of times.

`Init` is a fresh database or one upgraded by migration 000009, which fills the
rosters from the matches played so far with nobody as captain; `Histories` are
the matches it may find. `SetTeamMember` makes the next golfer captain of such a
team whatever was asked for, `CreateMatch` refuses it until then. That a staffed
team has a captain is therefore not an invariant; `CaptainsKept` is what the
code keeps: no step takes the last captain of a team that stays staffed, and a
golfer who joins leaves the team with a captain.

### Identity

Browsers hold three cookies; a sign-in is `StartGoogle`, `Callback` (the
attempt is consumed) and `CompleteSignIn` or `CompleteSignInWithInvitation`. The
OIDC exchange is external: it answers with a pair of subject and e-mail from
`Idents`, or fails (`SignInRefused`). Issuing and revoking an invitation check the
actor's role in one step and write in another, as the handlers do. The
operator's `Bootstrap` command can grant roles and replace them, the last
owner's too. `rank` is a history of the highest role each user has held.

Role changes and revocations are SERIALIZABLE, the operator's command is READ
COMMITTED under an advisory lock of its own, so PostgreSQL does not order them. A
change is therefore two steps, its snapshot (`BeginChange`: the actor is an owner,
the target is not the last one) and its commit, with the target's membership
locked in between and the command free to replace anybody else's role;
`overtaken` remembers that it replaced an owner's. The command for an owner is
two steps as well, `BootstrapCheck` and `Bootstrap`.

### SettleUp, LegacyImport, Accounts

`ShowForm` is the settle-up page as rendered, with the direction and amount that
clear the balance shown, which is the member's cash; free play is an account
of its own (`AccountTypes`). `SubmitSettlement` draws an identifier per request;
recording and reversing are transactions of their own. `LegacyImport` follows
the command: reconcile a snapshot, approve its version, promote it in one
SERIALIZABLE transaction after the batch row was written in another; the
archive may be corrected and roles changed in between. `Accounts` runs both
over one ledger.

## 3. Runs

| Run | Properties | Bounds | States |
|---|---|---|---|
| `odds` | `ProfitExact`, `GradingPays`, `NoArbitrage`, `LineSound`, `LineSettles` | every price six boards can reach and the extremes, stakes 1 to 120 cents, up to 4 tied winners, `MaxInt` 10,000; three wagers and one refund on two boards, two wagers and four refunds on the others, two of these with one line set by hand | 417,594 |
| `book` | `MoneyHeld`, `KeysSound`, `PaidAsGraded`, `NothingStranded`, `DecisionsStay` | two fresh wagers on one market, one stranded on a legacy market, two regrades in flight | 407,184 |
| `book_tx` | `TxSound`, `NoRowDeadlock`, `ImplementsBook` | two connections, one market, two wagers, credit for one of them | 220,052 |
| `stake_limits` | `AdmissionSound`, `LimitsHold`, `ApprovedWithinLimit` | three scenarios: three placements by two members on one side; one form sent twice with different stakes; an administrator placing for a member who places too; two changes of settings | 600,421 |
| `outbox` | `DeliverySound`, `OutcomeFinal`, `ReceiptStopsRedelivery`, `EventuallyDecided` | two dispatchers, two events, two consumers, two attempts, one fault | 766,772 |
| `parlay` | `ParlayMoneySound`, `LastLegSettles`, `PaidAsResolved` | two parlays over two markets | 14,707 |
| `match_result` | `ResultsSound`, `TwoPartyRule`, `ResultsAppendOnly` | a singles match, five actors (one player with two accounts, an administrator who is a captain), two submissions, three verified versions, four commands | 4,768 |
| `tournament` | `ReferencesHold`, `CaptainsKept`, `StandingsMatchResults` | two teams, three golfers, one member, one match; a fresh database, or one upgraded with that match between any golfers | 21,596 |
| `match_settlement` | `ConsumerPaysTheResult`, `DecisionStands`, `StakesReturn`, `OnlyBookSteps` | one match, two markets (one unmapped), two wagers, reductions, two dispatchers, two attempts, one crash, lost update or overrun lease | 228,585 |
| `identity` | `RolesSound`, `OneLiveSessionPerSignIn`, `SignInSound`, `OwnerKept` | two users, two subjects of which one presents both e-mails, two browsers, two attempts, one invitation addressed to one of the users, two sessions, two bootstrap commands, one role change in flight | 1,185,517 |
| `accounts` | `SettlementsSound`, `ImportSound`, `ShownIsSettled` | two members, one form submitted twice, three requests, two import commands over seven sources, one edit, one role change | 576,016 |
| `settle_up_twice` | `FormRecordedOnce`, violated | as `accounts` | |

What the names stand for is said above each definition; the ones that are
conjunctions have a named part per idea. The part a reader may look for:
escrow, ledger and types in `MoneyHeld`; single release and fresh keys in
`KeysSound`; overspending in `TxSound`; completion, receipts and failures in
`DeliverySound`; chain of versions, submissions and repeated commands in
`ResultsSound`; browser binding, links and invitations in `SignInSound`;
zero start, single opening and completeness in `ImportSound`.

Why the bounds are enough: every guard and lock relates at most two
transactions, two wagers of one member, two markets of one parlay or two
deliveries of one event, and each instance has these and a third party that can
get in between. The proofs of section 5 remove the bounds for every safety
property in the table except the two about the line. Symmetry is used only for
identifiers that no definition tells apart, and never together with a liveness
property.

`CHECK_DEADLOCK FALSE` is set where the system comes to rest: all wagers and
markets are final, or all identifiers are used up. The outbox polls for ever and
is checked for deadlock.

### Fairness

* `Outbox`: a dispatcher that is up keeps going (`WF Run(p)`: `Dispatcher.Run`
  loops on a ticker and every branch of `tick` returns), and leases and backoffs
  end (`WF Elapse(e)`: they are timestamps). Faults are bounded by `MaxFaults`;
  no fairness is put on faults, handlers' success or publishing.
* `Line`: `WF HandleAccepted(w)`. An acceptance's event is handled or given up
  in the end (`EventuallyDecided`); giving it up (`EventFailed`) is possible at any
  time before, and `LineSettles` then asks only for what `stale` leaves.
* `MatchSettlement`: `WF WorkerStep(k)` and `WF ReleaseStale(g)`: a dispatcher that
  has work goes on with it, be it to fail, and a lease that nobody holds ends.
  No fairness on a handler's success, on administrators or on members.

## 4. Disagreements met

The code does not keep these lines of its own comments. The first is a run and
a finding in `PROJECT.json`; the others have a property in the module named,
which is in no configuration. To see one fail, add it to the configuration
given (INVARIANT, or PROPERTY for the marked ones).

* `FormRecordedOnce` (`SettleUp`, run `settle_up_twice`): a settle-up form sent
  twice is posted twice, because the identifier that makes up the key is drawn
  per request (`bettingweb/settleup.go:120-122`). The member-book page draws
  identifiers the same way under the comment "a resubmitted page cannot place
  the same bet twice" (`bettingweb/memberbook.go:132-133`).
* `LastOwnerKept` (`Identity`, PROPERTY): "the last owner cannot be
  demoted" (`identitypg/membership.go:293-294`), nor "revoked" (353). Owners u1 and
  u2; the operator replaces u1's role, uncommitted; u1's demotion of u2 counts two
  owners; both commit, and there is none. The change is SERIALIZABLE, but the
  operator's command is not, and the change locks the target's row only.
  `OwnerKept` is what is left: without the operator in between, no order of
  changes takes the last owner. `MCIdentity.cfg`.
* `NoActionMeansNoWagers` (`Book`): a market retired as "without a single wager"
  can get one from a placement that read it earlier (`noaction.go:34-36`).
  `MCBookTx.cfg`.
* `MemberStopsAtMarketLimit` (`StakeLimits`, PROPERTY): two placements on
  different sides of one market get around a member's limit on the market
  (`betting/place.go:122-123`). `MCStakeLimits.cfg` with `Sides = {a, b}` and
  `Scenarios <- Spread`.
* `AttemptsWithinMax` (`Outbox`): an event whose process dies in the last
  attempt is handled again (`events/dispatcher.go:26-28`). `MCOutbox.cfg`, also
  with one event (`Handles <- OneEvent`) and one worker.
* `NoLegOnFinishedMarket` (`Parlay`): a parlay accepted while a leg's market
  settles keeps that leg open for good (`bettingpg/parlay.go:355-356`).
  `MCParlay.cfg`.
* `SettlementCanGrade` (`Parlay`): a push can leave legs with no price, and the
  market's settlement then fails (`betting/parlay.go:207-208`). `MCParlay.cfg`
  with three markets, one parlay and `Legs <- ThreeLegs`.
* `OpenMarketsSettle` (`MatchSettlement`, PROPERTY): a market created or opened
  after the delivery listed the markets of its match is never settled by it.
  `MCMatchSettlement.cfg`.
* `RemovalKeepsHistory` (`Tournament`, PROPERTY): a golfer can leave a roster
  while a match that names them is created, since the check reads a snapshot.
  `MCTournament.cfg`.

Seen while modelling and without a property: a market that is marked open but
whose closing time is over can be given a later one, although the comment says
"reopening it by moving the time would let money in against a result people may
already know" (`bettingpg/closetime.go:23-25`; only the state is asked). With no
stake anywhere `Reprice` returns the opening line "exactly"
(`pricing/pricing.go:66-67`) unless a price lies beyond its clamp of 10,000.

## 5. Proofs

Every theorem holds for all values of the constants, from the named assumptions
of its modules only. These say what the tables and the code around them
guarantee, and TLC evaluates them on every run of the module: stakes are
positive and prices valid (`BookAssumption`, `GradingAssumption`), sets of rows
are finite (`UsersAssumption`, `StakeLimitsAssumption`), a marker such as `None`
is not a row, rows of different tables are different, a snapshot of the archive
has rows of the archive's columns (`ImportAssumption`), season results are
integers (`ResultsAssumption`), a player appeared for one team of the event before
the rosters existed, which the migration checks (`HistoryAssumption`).

| Proof module | Properties of runs it proves | Others |
|---|---|---|
| `SumProofs` | | sums over finite sets |
| `BookProofs` | `ProfitExact`, `GradingPays` (`Grading`); `MoneyHeld`, `KeysSound`, `PaidAsGraded`, `NothingStranded`, `DecisionsStay` (`Book`); `OnlyBookSteps`, `DecisionStands`, `ConsumerPaysTheResult` (`MatchSettlement`) | types, each conjunct by itself; `Book`'s invariant holds of `MatchSettlement` |
| `BookTxProofs` | `ImplementsBook`, `TxSound`, `NoRowDeadlock` | `TxInvariance` |
| `OutboxProofs` | `DeliverySound`, `OutcomeFinal`, `ReceiptStopsRedelivery` | types |
| `PlacementProofs` | `ParlayMoneySound`, `LastLegSettles`, `PaidAsResolved` (`Parlay`); `AdmissionSound`, `LimitsHold`, `ApprovedWithinLimit` (`StakeLimits`) | |
| `CompetitionProofs` | `ResultsSound`, `TwoPartyRule`, `ResultsAppendOnly` (`MatchResult`); `ReferencesHold`, `CaptainsKept`, `StandingsMatchResults` (`Tournament`) | |
| `IdentityProofs` | `RolesSound`, `OneLiveSessionPerSignIn`, `SignInSound`, `OwnerKept` | |
| `AccountsProofs` | `SettlementsSound`, `ShownIsSettled` (`SettleUp`), `ImportSound` (`LegacyImport`), all over the ledger they share | |

**`SumProofs`.** `SumFunction` is a fold over an arbitrary finite set, and
induction over data is not available. The facts needed of it are proved from the
well-foundedness of strict inclusion on finite sets: take a smallest set on
which the fact fails. The sum of integers is one, is monotone, changes by as
much as a summand does, ignores zeros, and is zero when its summands can be
paired off with their opposites (`SumCancels`).

**Arithmetic (`BookProofs` about `Grading`).** The price is a fraction with a
positive denominator (`PriceFraction`). `RoundedNearest` is about any quotient:
adding one when twice the remainder reaches the denominator gives the nearest
integer, and comparing with half the denominator rounded up, as the code does,
is the same comparison for odd denominators too. `GuardFits` shows that a
product that passed the guard fits, and so does the return. For tied winners,
`PartsShareProfit` compares n rounded parts with the rounded whole: each
rounding is off by half a cent at most, hence the slack in
`TiedWinnersShareOnePayout`.

**The book (`BookProofs` about `Book`).** The inductive invariant `IInv` adds to the checked ones what
they silently rely on: a settlement key on a wager is never newer than its
market's version; reduction keys on an accepted wager are at or above its
current stake (so a smaller stake is always a new key); a wager that is not
accepted has no money in escrow, and one that never was has no keys; a settled
market's outcome is a real outcome and a regrade request exists only for a
settled market, whose outcome can no longer change. `Lines` balances by case
analysis on the result; the rounding inside `Profit` cancels out of it.

**`BookTxProofs`.** A rely and guarantee argument. `Shape(p)` says, statement by
statement, which rows worker p holds and what it has read under them: that a
settlement has seen every wager of its market and holds those it has passed,
that an acceptance found its wager pending, its market undecided and the
balance sufficient. `Guarantee(p)` says what any step may write: rows its worker
holds, money of members whose account it holds, new wagers only on markets it
shares, a decision only over wagers it holds. Locks exclude each other
(`Exclusive`), so what others may write is never what p has read
(`LocksProtect`, `ShapeStable`). Every step then either writes nothing (`Moves`)
or is an operation of `Book` on the committed tables (`Commits`), which gives
the refinement. The delicate case is an acceptance that read the market without
a lock: the market cannot be decided meanwhile, because a settlement needs the
wager row that the acceptance holds.

No deadlock: whoever waits for a market or wager row while others can wait for
them is a settlement collecting wagers or a placement with its key. A
settlement waits only for wagers; placements wait for a market and are never
waited for by a settlement, since their wager is not visible yet. Two
settlements hold different markets and so want different wagers.

`NoOverspend` is about a sum over all of a member's wagers. Only an acceptance
lowers a balance, by a stake it has seen covered under the owner's account lock;
grading never does, because profits are not negative.

**Match settlement (`BookProofs`).** Every step is a step of `Book`, so `IInv` carries
over. `Sourced` ties a market the consumer settled to the verdict of its match
and the outcome computed from it; `WagerHistory` remembers that only reductions
change a stake and that what was placed wins at least a cent, which is why a
winner gets more than was riding unless the stake was reduced.

**`OutboxProofs`.** `WorkerInv` says what a dispatcher's place in the code
means: all consumers it has passed have a receipt, the work it is about to
record has committed, and its claim never runs ahead of the row's attempt
count. Since receipts and effects only grow, a worker that lost its claim keeps
its invariant, which is why overlapping claims are harmless to `DeliverySound`.
`LeaseInv` adds, for events whose lease never ran out under a worker, that the
row is processing with its clock running while somebody has it, that nobody
else has it, and that the consumer about to be called has no receipt.

**Parlays (`PlacementProofs`).** A settlement's marks and locks belong together (`Marked`);
nobody else writes the leg it marked (`OwnLeg`); and what it read of a parlay
it holds is still true, so that it pays the parlay exactly if the parlay is
complete (`Looked`). The row lock on the parlay is what makes the second of two
settlements see the first one's leg.

**Stake limits (`PlacementProofs`).** The invariant `LimitsInv` is about what a
placement knows at each statement. `OneOnSide`: one placement at a time holds
the row of a side. `ReadUnderLock`: while it does, the side's limits are those
it read and the sums it read still bound what rides, because whoever else adds
to the side or changes its limits needs that row, and refunds only make the
sums smaller. `Checked`: what is about to commit fitted under them. So the
commit, the only step that adds to a sum, cannot pass a cap (`LimitsHold`),
although each sum was read by a statement of its own. `OneInsert` and
`StoredFits` are about one form sent twice with different stakes: the unique key
leaves one row, a second request goes on only if that row has its stake, and
from then on the stake can only be reduced. With `LimitsGranted`, the record of the limits a member
has had, an automatic approval is within one of them (`ApprovedWithinLimit`).

**The tournament (`CompetitionProofs`).** `SnapshotHolds` says that what the transaction in flight
saw is still so: inserts by others can only add to it. A deletion decided on a
snapshot is therefore stopped by the foreign keys alone, which is where the
proof of `NothingDangles` uses them. The standings are cardinalities; delivering
a result adds one match to each set it belongs to, and `SidesApart` keeps a
player from being counted on both sides.
`CaptainsKept` needs only the types: rosters are written by the one transaction in
flight, so the captains it counts are those of the table when it commits, whatever
rosters `HistoryAssumption` allowed at the start.

**Match results (`CompetitionProofs`).** The checked properties are inductive together.

**`IdentityProofs`.** The invariant ties the pieces of a sign-in together: an
attempt cookie is in the browser that started the attempt, a session comes from
a spent attempt, an open invitation and a request about to write one were made
by somebody who was entitled to at the time (`rank` is what makes "was" a
state predicate). For `OwnerKept`, `ChangeInv` says of the role change in flight
that, unless the operator replaced an owner's role since its snapshot, somebody
besides its target still is an owner: sign-ins only add roles, and nothing else
takes one.

**`AccountsProofs`.** The settle-up page and the import write the same ledger, so
`AccountsInv` is about both and every action is shown to keep both halves. For
the page: a request about to record has a form, one about to reverse has found
its settlement (`RequestsGrounded`), a form's direction and amount clear the
balance it shows (`OffersClear`), and a reversal takes back exactly the
settlement of its key (`ReversalsMatch`). For the import: only reports without an
issue are on their way to the ledger (`ReportsSound`), and the entries it made
are exactly those of the promoted versions (`EntriesImported`), which is what
makes a second promotion of anything add nothing. That imported members start
from zero is a sum: a member's opening and season entries pair off by key with
opposite amounts, and `SumCancels` adds them up, for each account by itself. `ShownIsSettled`
adds one entry to the cash of one member (`SumAdd`).

Only model-checked:

* Liveness (`EventuallyDecided`, `LineSettles`, `StakesReturn`): out of the
  prover's reach.
* `NoArbitrage` and `LineSound`. They are about `Reprice` as a whole: powers, the
  floors' iteration to a fixed point, a walk of 32 steps. They are claims about
  boards with a margin and not about all: in parts per 10,000 the line -540/+540
  is posted at 8438 and 1563, one part above even money, and its floors round to
  8437 and 1563, which is even money. So there is no theorem for every value of
  the constants to prove.

## 6. Not modelled

* Display queries, rendering, form parsing and templates: they change no state.
* Currencies (one is in use), names, slugs, numbering, media links.
* The OIDC exchange and hashing of tokens: names stand for secrets.
* `SetCreditLimit`: credit is a constant in `BookTx`.
* The joining of parlay payouts to `Book`'s ledger: a parlay has its own escrow
  entries, and `Parlay` checks them by themselves.
* The schema runner, the snapshot and seed commands, configuration and process
  wiring: each runs alone, once, with nothing beside it.

## 7. Plan

Done: the models, and the proofs of every safety property that a run checks
except the line's. What could still be added:

1. The line in exact fractions instead of parts per 10,000. `NoArbitrage` would
   then follow from the floors alone: each side's price stays at or above a floor
   and the floors sum to more than even money.
2. Parlay payouts joined to `Book`'s ledger, so that `NoOverspend` counts parlay
   stakes too.
3. `SetCreditLimit` as an action of `BookTx`.
4. Several role changes in flight at once, with PostgreSQL's serializable
   conflicts among them made explicit.
