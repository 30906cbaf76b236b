----------------------------- MODULE LedgerStore -----------------------------
(***************************************************************************)
(* The ledger as the settle-up page and the legacy import use it: every    *)
(* transaction has two postings, one on a member's account and its inverse *)
(* on a system account (house clearing or migration equity), so an entry   *)
(* here is the member's posting.  Idempotency keys are unique.             *)
(***************************************************************************)
EXTENDS Integers, FiniteSets, Functions

CONSTANT Users    \* members, by user id

ASSUME UsersAssumption == IsFiniteSet(Users)

VARIABLE ledger   \* ledger_transactions: [kind, key, user, account, amount]

\* The accounts a member may have: user_cash and user_free_play.
AccountTypes == {"cash", "free"}

Total(entries) == SumFunction([t \in entries |-> t.amount])

EntriesOf(u, a) == {t \in ledger : t.user = u /\ t.account = a}

\* memberBalancesSQL: the member's cash, which the book owes; free play is not
\* settled up.
Balance(u) == Total(EntriesOf(u, "cash"))

KeyTaken(kind, key) == \E t \in ledger : t.kind = kind /\ t.key = key

Entry(kind, key, u, a, amount) ==
    [kind |-> kind, key |-> key, user |-> u, account |-> a, amount |-> amount]
=============================================================================
