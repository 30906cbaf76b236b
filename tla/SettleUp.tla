------------------------------ MODULE SettleUp ------------------------------
(***************************************************************************)
(* Settling up: an admin records money that changed hands outside the      *)
(* application, or reverses such a record (internal/betting/adjust.go,     *)
(* internal/bettingpg/adjust.go, internal/bettingweb/settleup.go).         *)
(*                                                                         *)
(* A form is one row of the page: a member with the direction and amount   *)
(* that would clear the balance shown.  A request is one POST of it; the   *)
(* browser may send a form more than once.  The store's transactions are   *)
(* READ COMMITTED: the look for an earlier entry and the insert are two    *)
(* steps, and the insert fails on a taken key.                             *)
(***************************************************************************)
EXTENDS LedgerStore

CONSTANTS Forms, Requests, MaxSubmits, None

ASSUME SettleUpAssumption ==
    MaxSubmits \in Nat /\ None \notin Forms \cup Requests \cup Users

VARIABLES form,      \* the rows of the pages shown
          request    \* requests in progress, each with its own adjustment id

settleVars == <<form, request>>

Directions == {"payment_received", "payout_sent"}

Offer == [user : Users, shown : Int, direction : Directions, amount : Nat \ {0}]
NoForm == [user |-> None, shown |-> 0, direction |-> "payment_received", amount |-> 0]
NoRequest == [state |-> "none", form |-> None, of |-> None]

SettleInit ==
    /\ form = [f \in Forms |-> NoForm]
    /\ request = [r \in Requests |-> NoRequest]

Abs(n) == IF n < 0 THEN -n ELSE n

\* Mutant: the direction that would double the balance.
ViewSwapped(b) ==
    [direction |-> IF b < 0 THEN "payout_sent" ELSE "payment_received", amount |-> Abs(b)]

\* The direction and amount offered for a balance: paying in clears a debt.
SettleUpView(b) ==
    [direction |-> IF b < 0 THEN "payment_received" ELSE "payout_sent", amount |-> Abs(b)]

\* The member's posting: money paid in credits the member.
MemberAmount(direction, amount) ==
    IF direction = "payment_received" THEN amount ELSE -amount

\* Mutant: the page lists every member.
ShowAnyForm(f, u) ==
    /\ form[f] = NoForm
    /\ form' = [form EXCEPT ![f] = [user |-> u, shown |-> Balance(u),
                                    direction |-> SettleUpView(Balance(u)).direction,
                                    amount |-> SettleUpView(Balance(u)).amount]]
    /\ UNCHANGED <<ledger, request>>

\* The page lists the members who are not square.
ShowForm(f, u) ==
    /\ form[f] = NoForm
    /\ Balance(u) # 0
    /\ form' = [form EXCEPT ![f] = [user |-> u, shown |-> Balance(u),
                                    direction |-> SettleUpView(Balance(u)).direction,
                                    amount |-> SettleUpView(Balance(u)).amount]]
    /\ UNCHANGED <<ledger, request>>

Submitted(f) == {r \in Requests : request[r].form = f}

\* The handler draws a fresh adjustment id, the request's own name, and the
\* store looks for a settlement recorded under it.
SubmitSettlement(r, f) ==
    /\ request[r].state = "none"
    /\ form[f] # NoForm
    /\ Cardinality(Submitted(f)) < MaxSubmits
    /\ request' = [request EXCEPT ![r] = [state |-> IF KeyTaken("settlement", r)
                                                    THEN "done" ELSE "record",
                                          form |-> f, of |-> None]]
    /\ UNCHANGED <<ledger, form>>

RecordSettlement(r) ==
    LET f == form[request[r].form]
    IN  /\ request[r].state = "record"
        /\ ledger' = IF KeyTaken("settlement", r) THEN ledger
                     ELSE ledger \cup {Entry("settlement", r, f.user, "cash",
                                             MemberAmount(f.direction, f.amount))}
        /\ request' = [request EXCEPT ![r].state = "done"]
        /\ UNCHANGED form

\* Any recorded settlement a can be reversed; one already reversed is refused.
SubmitReversal(r, a) ==
    /\ request[r].state = "none"
    /\ KeyTaken("settlement", a)
    /\ request' = [request EXCEPT ![r] = [state |-> IF KeyTaken("reversal", a)
                                                    THEN "done" ELSE "reverse",
                                          form |-> None, of |-> a]]
    /\ UNCHANGED <<ledger, form>>

\* Mutant: the reversal has a key of its own.
ReverseByRequest(r) ==
    LET original == CHOOSE t \in ledger : t.kind = "settlement" /\ t.key = request[r].of
    IN  /\ request[r].state = "reverse"
        /\ ledger' = ledger \cup {Entry("reversal", r, original.user, original.account,
                                          -original.amount)}
        /\ request' = [request EXCEPT ![r].state = "done"]
        /\ UNCHANGED form

\* The reversal is keyed by what it reverses, and reversal_of is unique too.
ReverseSettlement(r) ==
    LET a == request[r].of
        original == CHOOSE t \in ledger : t.kind = "settlement" /\ t.key = a
    IN  /\ request[r].state = "reverse"
        /\ ledger' = IF KeyTaken("reversal", a) THEN ledger
                     ELSE ledger \cup {Entry("reversal", a, original.user, original.account,
                                             -original.amount)}
        /\ request' = [request EXCEPT ![r].state = "done"]
        /\ UNCHANGED form

\* The client gives up or the database refuses: the transaction is rolled back.
RequestFails(r) ==
    /\ request[r].state \in {"record", "reverse"}
    /\ request' = [request EXCEPT ![r].state = "done"]
    /\ UNCHANGED <<ledger, form>>

SettleNext ==
    \/ \E f \in Forms, u \in Users : ShowForm(f, u)
    \/ \E r \in Requests, f \in Forms : SubmitSettlement(r, f)
    \/ \E r, a \in Requests : SubmitReversal(r, a)
    \/ \E r \in Requests : RecordSettlement(r) \/ ReverseSettlement(r) \/ RequestFails(r)

-----------------------------------------------------------------------------
\* Reversals, however many are submitted and however they interleave, return
\* the balance exactly to where it was and never past it: what is left of a
\* member's settlements is the sum of those not reversed.
ReversedExactly ==
    \A u \in Users, a \in AccountTypes :
        Total({t \in EntriesOf(u, a) : t.kind \in {"settlement", "reversal"}}) =
        Total({t \in EntriesOf(u, a) : t.kind = "settlement" /\ ~KeyTaken("reversal", t.key)})

\* Recording a form takes from its member's balance exactly the balance that the
\* page showed, and leaves everybody else's.  So a member whose balance has not
\* moved since is square, and of one whose balance has - another settlement, a
\* reversal or an import came first - precisely what came in between is left.
ShownIsSettled ==
    [][\A r \in Requests :
           LET f == form[request[r].form]
           IN  (request[r].state = "record" /\ ledger' # ledger /\ request'[r].state = "done")
                   => \A u \in Users :
                          Balance(u)' = Balance(u) - (IF u = f.user THEN f.shown ELSE 0)
      ]_<<ledger, form, request>>

\* A form sent twice is recorded once, as the handler's comment says.
FormRecordedOnce ==
    \A f \in Forms :
        Cardinality({r \in Submitted(f) : KeyTaken("settlement", r)}) <= 1
=============================================================================
