---------------------------- MODULE LegacyImport ----------------------------
(***************************************************************************)
(* Importing the archived book (internal/migration/legacybook and          *)
(* cmd/cabot/legacy.go): the command reconciles a snapshot of the source,  *)
(* the operator approves the version it prints, and a later run of the     *)
(* command promotes a source of exactly that version in one SERIALIZABLE   *)
(* transaction under an advisory lock.                                     *)
(*                                                                         *)
(* A source is [users, txns, wagers].  A field that does not parse (an     *)
(* amount, a role, odds, a result) is Bad; an amount that parses is its    *)
(* cents.  The version of a source, the hash of its report, is the source  *)
(* itself.  Legacy users map to accounts by e-mail, here the user's name.  *)
(***************************************************************************)
EXTENDS LedgerStore

CONSTANTS Sources,     \* contents the archived tables may have
          Commands,    \* runs of the promote command
          MaxEdits, MaxRoleChanges,   \* bounds on outside changes
          Bad, NoSource

ASSUME ImportAssumption ==
    /\ MaxEdits \in Nat /\ MaxRoleChanges \in Nat
    /\ NoSource \notin Sources
    /\ \A s \in Sources, u \in Users : NoSource # [batch |-> s, user |-> u]
    /\ \A s \in Sources :
           /\ IsFiniteSet(s.users)
           /\ \A u \in s.users : /\ u.email \in Users /\ u.role \in {"member", "admin", Bad}
                                 /\ {u.cash, u.free} \subseteq Int \cup {Bad}

VARIABLES source,     \* the archived tables
          approved,   \* the version the operator approves
          command,    \* every command: where it is and the snapshot it read
          batch,      \* migration_batches: state by source version
          mapping,    \* legacy_book_user_mappings: the batch and user of a legacy user
          history,    \* legacy_book_transactions and legacy_book_wagers
          membership, \* role of the active membership, "none" without one
          edits, changes

importVars == <<source, approved, command, batch, mapping, history, membership,
                edits, changes>>

LegacyIds == UNION {{u.id : u \in s.users} : s \in Sources}
Closing(u, acct) == IF acct = "cash" THEN u.cash ELSE u.free

ImportInit ==
    /\ source \in Sources
    /\ approved = NoSource
    /\ command = [c \in Commands |-> [state |-> "idle", report |-> NoSource]]
    /\ batch = [s \in Sources |-> "none"]
    /\ mapping = [i \in LegacyIds |-> NoSource]
    /\ history = {}
    /\ membership = [u \in Users |-> "none"]
    /\ edits = 0 /\ changes = 0

(***************************************************************************)
(* Reconcile: a row with an issue is skipped and blocks the promotion.     *)
(***************************************************************************)
UserSound(s, u) ==
    /\ u.role # Bad /\ u.cash # Bad /\ u.free # Bad
    /\ \A v \in s.users : v.id = u.id => v = u

Known(s, row) == \E u \in s.users : u.id = row.user

SignFits(t) == (t.type = "credit" /\ t.amount > 0) \/ (t.type = "debit" /\ t.amount < 0)

TxnSound(s, t) ==
    /\ Known(s, t)
    /\ \A x \in s.txns : x.id = t.id => x = t
    /\ t.amount # Bad /\ SignFits(t)

WagerSound(s, w) ==
    /\ Known(s, w)
    /\ \A x \in s.wagers : x.id = w.id => x = w
    /\ w.stake # Bad /\ w.odds # Bad /\ w.result # Bad
    /\ w.stake > 0

Promotable(s) ==
    /\ \A u \in s.users : UserSound(s, u)
    /\ \A t \in s.txns : TxnSound(s, t)
    /\ \A w \in s.wagers : WagerSound(s, w)

\* The records of the report.
KeptTxns(s) == {t \in s.txns : TxnSound(s, t)}
KeptWagers(s) == {w \in s.wagers : WagerSound(s, w)}

\* validatePromotionReport: the counts of the source and of the records agree,
\* and every record's user is in the report.
ReportAdds(s) ==
    /\ Cardinality(s.txns) = Cardinality(KeptTxns(s))
    /\ Cardinality(s.wagers) = Cardinality(KeptWagers(s))
    /\ \A row \in KeptTxns(s) \cup KeptWagers(s) : Known(s, row)

(***************************************************************************)
(* The commands.                                                           *)
(***************************************************************************)

\* legacy-book-report, and the operator's approval of the version printed.
ApproveReport ==
    /\ approved # source
    /\ approved' = source
    /\ UNCHANGED <<ledger, source, command, batch, mapping, history, membership,
                   edits, changes>>

\* The promote command: a read-only snapshot of the source is reconciled.
StartPromotion(c) ==
    /\ command[c].state = "idle"
    /\ Promotable(source)
    /\ approved = source
    /\ command' = [command EXCEPT ![c] = [state |-> "reconciled", report |-> source]]
    /\ UNCHANGED <<ledger, source, approved, batch, mapping, history, membership,
                   edits, changes>>

\* ensureLegacyMigrationBatch, a statement of its own.
EnsureBatch(c) ==
    /\ command[c].state = "reconciled"
    /\ command' = [command EXCEPT ![c].state = "batched"]
    /\ batch' = [batch EXCEPT ![command[c].report] =
                     IF @ = "promoted" THEN @ ELSE "validated"]
    /\ UNCHANGED <<ledger, source, approved, mapping, history, membership, edits, changes>>

\* Mutant: a mapping of another batch is taken as this one's.
MayMapAny(s, u) == membership[u.email] \in {"none", u.role}

\* EnsureApprovedUser: an existing membership has the role wanted, the legacy
\* user is not mapped by another batch, and no other legacy user has the account.
MayMap(s, u) ==
    /\ membership[u.email] \in {"none", u.role}
    /\ mapping[u.id] \in {NoSource, [batch |-> s, user |-> u.email]}
    /\ \A i \in LegacyIds \ {u.id} : mapping[i] # NoSource => mapping[i].user # u.email
    /\ \A v \in s.users : v.email = u.email => v = u

\* EnsureOpeningBalance and EnsureSeasonSettlement: nothing for a zero balance.
Openings(s) ==
    {t \in {Entry("opening", <<s, u.id, a>>, u.email, a, Closing(u, a)) :
               u \in s.users, a \in AccountTypes} : t.amount # 0}

\* Mutant: only the cash balance is settled.
CashSettlements(s) ==
    {Entry("season", <<s, u.id, "cash">>, u.email, "cash", -u.cash) : u \in {v \in s.users : v.cash # 0}}

\* Mutant: both balances are settled on the cash account.
SettledOnCash(s) ==
    {t \in {Entry("season", <<s, u.id, a>>, u.email, "cash", -Closing(u, a)) :
               u \in s.users, a \in AccountTypes} : t.amount # 0}

SeasonSettlements(s) ==
    {t \in {Entry("season", <<s, u.id, a>>, u.email, a, -Closing(u, a)) :
               u \in s.users, a \in AccountTypes} : t.amount # 0}

\* Mutant: the wagers are forgotten.
TransactionRecords(s) == {[batch |-> s, row |-> r] : r \in KeptTxns(s)}

Records(s) == {[batch |-> s, row |-> r] : r \in KeptTxns(s) \cup KeptWagers(s)}

\* No record of this batch collides with one of another batch.
HistoryFree(s) ==
    /\ \A t \in KeptTxns(s) : \A h \in history :
           "type" \in DOMAIN h.row /\ h.row.id = t.id => h.batch = s
    /\ \A w \in KeptWagers(s) : \A h \in history :
           "stake" \in DOMAIN h.row /\ h.row.id = w.id => h.batch = s

\* Promote: all of it or nothing.  On a batch already promoted every entry is
\* there and is verified, but a membership revoked since is granted again.
Promote(c) ==
    LET s == command[c].report
    IN  /\ command[c].state = "batched"
        /\ ReportAdds(s)
        /\ \A u \in s.users : MayMap(s, u)
        /\ HistoryFree(s)
        /\ ledger' = ledger \cup Openings(s) \cup SeasonSettlements(s)
        /\ mapping' = [i \in LegacyIds |->
                          IF \E u \in s.users : u.id = i
                          THEN [batch |-> s, user |-> (CHOOSE u \in s.users : u.id = i).email]
                          ELSE mapping[i]]
        /\ history' = history \cup Records(s)
        /\ membership' = [m \in Users |-> IF \E u \in s.users : u.email = m
                                          THEN (CHOOSE u \in s.users : u.email = m).role
                                          ELSE membership[m]]
        /\ batch' = [batch EXCEPT ![s] = "promoted"]
        /\ command' = [command EXCEPT ![c] = [state |-> "idle", report |-> NoSource]]
        /\ UNCHANGED <<source, approved, edits, changes>>

\* The transaction is refused or rolled back, or the command dies: the batch
\* row stays.
PromotionFails(c) ==
    /\ command[c].state # "idle"
    /\ command' = [command EXCEPT ![c] = [state |-> "idle", report |-> NoSource]]
    /\ UNCHANGED <<ledger, source, approved, batch, mapping, history, membership,
                   edits, changes>>

\* Outside the import: the archived tables are corrected; an owner changes a
\* role or revokes it, an invited user becomes a member.
EditSource(s) ==
    /\ edits < MaxEdits
    /\ source # s
    /\ source' = s
    /\ edits' = edits + 1
    /\ UNCHANGED <<ledger, approved, command, batch, mapping, history, membership, changes>>

ChangeRole(m, r) ==
    /\ changes < MaxRoleChanges
    /\ membership[m] # r
    /\ membership' = [membership EXCEPT ![m] = r]
    /\ changes' = changes + 1
    /\ UNCHANGED <<ledger, source, approved, command, batch, mapping, history, edits>>

ImportNext ==
    \/ ApproveReport
    \/ \E c \in Commands : \/ StartPromotion(c) \/ EnsureBatch(c)
                           \/ Promote(c) \/ PromotionFails(c)
    \/ \E s \in Sources : EditSource(s)
    \/ \E m \in Users, r \in {"none", "member", "admin"} : ChangeRole(m, r)

-----------------------------------------------------------------------------
\* Every imported account starts the new season at zero: the entries of the
\* import cancel on each account of a member, in every order of runs and edits.
SeasonStartsAtZero ==
    \A u \in Users, a \in AccountTypes :
        Total({t \in EntriesOf(u, a) : t.kind \in {"opening", "season"}}) = 0

\* A legacy user's closing balance is opened once, whatever versions of the
\* source were promoted, and by the batch the user is mapped to.
OpenedOnce ==
    \A i \in LegacyIds, a \in AccountTypes :
        LET opened == {t \in ledger : t.kind = "opening" /\ t.key[2] = i /\ t.key[3] = a}
        IN  /\ Cardinality(opened) <= 1
            /\ \A t \in opened : mapping[i] # NoSource /\ mapping[i].batch = t.key[1]

\* A promoted version brought every row of its source into the history and
\* mapped every user: no row is dropped on the way.
NothingDropped ==
    \A s \in Sources : batch[s] = "promoted" =>
        /\ \A row \in s.txns \cup s.wagers : [batch |-> s, row |-> row] \in history
        /\ \A u \in s.users : mapping[u.id] = [batch |-> s, user |-> u.email]

\* The import, repeated and raced, opens every balance once, closes it to
\* zero, and drops no row.
ImportSound == SeasonStartsAtZero /\ OpenedOnce /\ NothingDropped
=============================================================================
