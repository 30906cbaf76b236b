------------------------------ MODULE Accounts ------------------------------
(***************************************************************************)
(* The settle-up page and the legacy import over one ledger: members who   *)
(* already have betting results settle up while the archive is imported    *)
(* into the same accounts.                                                 *)
(***************************************************************************)
EXTENDS SettleUp, LegacyImport

CONSTANT Results    \* betting results the members may bring to the page

ASSUME ResultsAssumption == \A results \in Results : results \in [Users -> Int]

vars == <<ledger, settleVars, importVars>>

\* The wager postings on a member's cash so far, summed to one entry.
WagerEntries(results) ==
    {Entry("wager", u, u, "cash", results[u]) : u \in {v \in Users : results[v] # 0}}

Init ==
    /\ SettleInit
    /\ ImportInit
    /\ \E results \in Results : ledger = WagerEntries(results)

Next ==
    \/ SettleNext /\ UNCHANGED importVars
    \/ ImportNext /\ UNCHANGED settleVars

Spec == Init /\ [][Next]_vars

-----------------------------------------------------------------------------
\* Every variable has its type, and only entries with a distinct key of their
\* kind are in the ledger.
TypeOK ==
    /\ \A t \in ledger : /\ t.kind \in {"wager", "settlement", "reversal", "opening", "season"}
                         /\ t.user \in Users /\ t.account \in AccountTypes
                         /\ t.amount \in Int \ {0}
    /\ \A t, x \in ledger : t.kind = x.kind /\ t.key = x.key => t = x
    /\ form \in [Forms -> Offer \cup {NoForm}]
    /\ request \in [Requests -> [state : {"none", "record", "reverse", "done"},
                                 form : Forms \cup {None}, of : Requests \cup {None}]]
    /\ source \in Sources /\ approved \in Sources \cup {NoSource}
    /\ command \in [Commands -> [state : {"idle", "reconciled", "batched"},
                                 report : Sources \cup {NoSource}]]
    /\ batch \in [Sources -> {"none", "validated", "promoted"}]
    /\ membership \in [Users -> {"none", "member", "admin"}]
    /\ edits \in 0 .. MaxEdits /\ changes \in 0 .. MaxRoleChanges

\* recordSettlement and reverseSettlement: entries have distinct keys, and
\* what was reversed is gone exactly.
SettlementsSound == TypeOK /\ ReversedExactly
=============================================================================
