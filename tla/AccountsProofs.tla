--------------------------- MODULE AccountsProofs ---------------------------
(***************************************************************************)
(* Proofs about the ledger under the settle-up page and the legacy import: *)
(* keys are distinct, reversals take back exactly what they reverse, a     *)
(* form settles exactly what it showed, and imports, repeated and raced,   *)
(* open every balance once, close it to zero and drop no row.              *)
(***************************************************************************)
EXTENDS Accounts, SumProofs

-----------------------------------------------------------------------------
(* The inductive invariant *)

(* A request about to record a form has one to record; a request about to  *)
(* reverse a settlement has found it.                                      *)
RequestsGrounded ==
  \A r \in Requests :
    /\ request[r].state = "record" => request[r].form \in Forms /\ form[request[r].form] # NoForm
    /\ request[r].state = "reverse" => KeyTaken("settlement", request[r].of)

(* settleup.go offers the direction and the amount that clear the balance  *)
(* it shows.                                                               *)
OffersClear ==
  \A f \in Forms : form[f] # NoForm =>
    MemberAmount(form[f].direction, form[f].amount) = -form[f].shown

(* x takes back what t posted.                                             *)
TakesBack(x, t) ==
  x.key = t.key /\ x.user = t.user /\ x.account = t.account /\ x.amount = -t.amount

(* Every reversal takes back a settlement of the ledger.                   *)
ReversalsMatch ==
  \A x \in ledger : x.kind = "reversal" => \E t \in ledger : t.kind = "settlement" /\ TakesBack(x, t)

(* Only reports without an issue are on their way to the ledger or there.  *)
ReportsSound ==
  /\ \A c \in Commands : command[c].state # "idle" =>
       command[c].report \in Sources /\ Promotable(command[c].report)
  /\ \A s \in Sources : batch[s] = "promoted" => Promotable(s)

(* The import's entries are those of the promoted versions, all of them.   *)
EntriesImported ==
  /\ \A t \in ledger :
       /\ t.kind = "opening" => \E s \in Sources : batch[s] = "promoted" /\ t \in Openings(s)
       /\ t.kind = "season" => \E s \in Sources : batch[s] = "promoted" /\ t \in SeasonSettlements(s)
  /\ \A s \in Sources : batch[s] = "promoted" => Openings(s) \cup SeasonSettlements(s) \subseteq ledger

(* legacy_book_user_mappings, row by row.                                  *)
MappingTyped == mapping \in [LegacyIds -> [batch : Sources, user : Users] \cup {NoSource}]

AccountsInv ==
  /\ TypeOK
  /\ IsFiniteSet(ledger)
  /\ RequestsGrounded
  /\ OffersClear
  /\ ReversalsMatch
  /\ ReportsSound
  /\ EntriesImported
  /\ MappingTyped
  /\ NothingDropped

-----------------------------------------------------------------------------
(* The operators *)

(* The direction offered for a balance is the one that clears it.          *)
LEMMA ViewClears ==
  ASSUME NEW b \in Int, b # 0
  PROVE  /\ SettleUpView(b).direction \in Directions
         /\ SettleUpView(b).amount \in Nat \ {0}
         /\ MemberAmount(SettleUpView(b).direction, SettleUpView(b).amount) = -b
BY DEF SettleUpView, MemberAmount, Directions, Abs

(* What is posted for a member is never nothing.                           *)
LEMMA PostedNonzero ==
  ASSUME NEW d \in Directions, NEW n \in Nat \ {0}
  PROVE  MemberAmount(d, n) \in Int \ {0}
BY DEF MemberAmount, Directions

(* The total of finitely many entries is an amount ...                     *)
LEMMA TotalType ==
  ASSUME NEW E, IsFiniteSet(E), \A t \in E : t.amount \in Int
  PROVE  Total(E) \in Int
<1>1. [t \in E |-> t.amount] \in [E -> Int]
  OBVIOUS
<1>2. QED
  BY <1>1, SumType DEF Total

(* ... and one entry more adds what it posts.                              *)
LEMMA TotalAdd ==
  ASSUME NEW E, IsFiniteSet(E), \A t \in E : t.amount \in Int,
         NEW x, x \notin E, x.amount \in Int
  PROVE  Total(E \cup {x}) = Total(E) + x.amount
<1> DEFINE f == [t \in E \cup {x} |-> t.amount]
           h == [t \in E |-> t.amount]
<1>1. f \in [E \cup {x} -> Int] /\ h \in [E -> Int] /\ (\A y \in E : h[y] = f[y]) /\ f[x] = x.amount
  OBVIOUS
<1> HIDE DEF f, h
<1>2. SumFunction(f) = SumFunction(h) + f[x]
  BY <1>1, SumAdd
<1>3. QED
  BY <1>1, <1>2 DEF Total, f, h

(* p pairs the entries of D, and one of a pair takes back the other.       *)
Undoing(p, D) == \A t \in D : p[t] \in D /\ p[p[t]] = t /\ p[t].amount = -t.amount

(* Entries outside R that take each other back leave the total of R.       *)
LEMMA TotalCancels ==
  ASSUME NEW E, IsFiniteSet(E), \A t \in E : t.amount \in Int,
         NEW R \in SUBSET E, NEW p, Undoing(p, E \ R)
  PROVE  Total(E) = Total(R)
<1>1. PICK f : f = [t \in E |-> t.amount]
  OBVIOUS
<1>2. PICK h : h = [t \in R |-> t.amount]
  OBVIOUS
<1>3. f \in [E -> Int] /\ h \in [R -> Int]
  BY <1>1, <1>2
<1>4. \A x \in R : h[x] = f[x]
  BY <1>1, <1>2
<1>5. Cancelling(p, f, E \ R)
  BY <1>1 DEF Cancelling, Undoing
<1>6. SumFunction(f) = SumFunction(h)
  BY ONLY IsFiniteSet(E), R \in SUBSET E, <1>3, <1>4, <1>5, SumCancels
<1>7. QED
  BY <1>1, <1>2, <1>6 DEF Total

(* Nothing adds up to nothing.                                             *)
LEMMA TotalEmpty == ASSUME NEW E, E = {} PROVE Total(E) = 0
<1> DEFINE f == [t \in E |-> t.amount]
<1>1. IsFiniteSet(E) /\ f \in [E -> Int] /\ \A t \in E : f[t] = 0
  BY FS_EmptySet
<1> HIDE DEF f
<1>2. SumFunction(f) = 0
  BY <1>1, SumZero
<1>3. QED
  BY <1>2 DEF Total, f

(* A legacy user of a report without issues is the only one of its id, and *)
(* has a role and balances.                                                *)
LEMMA UserParsed ==
  ASSUME NEW s \in Sources, Promotable(s), NEW u \in s.users
  PROVE  /\ u.email \in Users /\ u.role \in {"member", "admin"}
         /\ \A a \in AccountTypes : Closing(u, a) \in Int
         /\ \A v \in s.users : v.id = u.id => v = u
         /\ u.id \in LegacyIds
<1>1. UserSound(s, u)
  BY DEF Promotable
<1>2. u.id \in LegacyIds
  BY DEF LegacyIds
<1>3. QED
  BY <1>1, <1>2, ImportAssumption DEF UserSound, Closing

(* What EnsureOpeningBalance and EnsureSeasonSettlement post, entry by     *)
(* entry.                                                                  *)
LEMMA PostingIs ==
  ASSUME NEW s, NEW t
  PROVE  /\ t \in Openings(s) <=>
              /\ \E u \in s.users, a \in AccountTypes :
                   t = Entry("opening", <<s, u.id, a>>, u.email, a, Closing(u, a))
              /\ t.amount # 0
         /\ t \in SeasonSettlements(s) <=>
              /\ \E u \in s.users, a \in AccountTypes :
                   t = Entry("season", <<s, u.id, a>>, u.email, a, -Closing(u, a))
              /\ t.amount # 0
BY DEF Openings, SeasonSettlements

(* An opening of a report without issues: its type, its key, and that the  *)
(* key determines it.                                                      *)
LEMMA OpeningTyped ==
  ASSUME NEW s \in Sources, Promotable(s), NEW t \in Openings(s)
  PROVE  /\ t.kind = "opening" /\ t.user \in Users /\ t.account \in AccountTypes /\ t.amount \in Int \ {0}
         /\ \E u \in s.users, a \in AccountTypes :
              t.key = <<s, u.id, a>> /\ t.user = u.email /\ t.account = a /\ t.amount = Closing(u, a)
         /\ \A x \in Openings(s) : t.key = x.key => t = x
         /\ \E x \in SeasonSettlements(s) : TakesBack(x, t)
<1>1. PICK u \in s.users, a \in AccountTypes :
        t = Entry("opening", <<s, u.id, a>>, u.email, a, Closing(u, a))
  BY PostingIs
<1>2. u.email \in Users /\ Closing(u, a) \in Int /\ t.amount # 0
  BY UserParsed, PostingIs
<1>3. t.kind = "opening" /\ t.key = <<s, u.id, a>> /\ t.user = u.email /\ t.account = a /\ t.amount = Closing(u, a)
  BY <1>1 DEF Entry
<1>4. ASSUME NEW x \in Openings(s), t.key = x.key PROVE t = x
  <2>1. PICK v \in s.users, b \in AccountTypes :
          x = Entry("opening", <<s, v.id, b>>, v.email, b, Closing(v, b))
    BY PostingIs
  <2>2. x.key = <<s, v.id, b>>
    BY <2>1 DEF Entry
  <2>3. v.id = u.id /\ a = b
    BY <1>3, <1>4, <2>2
  <2>4. v = u
    BY <2>3, UserParsed
  <2>5. QED
    BY <1>1, <2>1, <2>3, <2>4
<1>5. \E x \in SeasonSettlements(s) : TakesBack(x, t)
  <2>1. PICK x : x = Entry("season", <<s, u.id, a>>, u.email, a, -Closing(u, a))
    OBVIOUS
  <2>2. x.key = <<s, u.id, a>> /\ x.user = u.email /\ x.account = a /\ x.amount = -Closing(u, a)
    BY <2>1 DEF Entry
  <2>3. x.amount # 0
    BY <1>2, <1>3, <2>2
  <2>4. x \in SeasonSettlements(s)
    BY <2>1, <2>3, PostingIs
  <2>5. QED
    BY <1>3, <2>2, <2>4 DEF TakesBack
<1>6. QED
  BY <1>2, <1>3, <1>4, <1>5

(* The same for the settlement of the season, which takes back an opening. *)
LEMMA SeasonTyped ==
  ASSUME NEW s \in Sources, Promotable(s), NEW t \in SeasonSettlements(s)
  PROVE  /\ t.kind = "season" /\ t.user \in Users /\ t.account \in AccountTypes /\ t.amount \in Int \ {0}
         /\ \E u \in s.users, a \in AccountTypes :
              t.key = <<s, u.id, a>> /\ t.user = u.email /\ t.account = a /\ t.amount = -Closing(u, a)
         /\ \A x \in SeasonSettlements(s) : t.key = x.key => t = x
         /\ \E x \in Openings(s) : TakesBack(t, x)
<1>1. PICK u \in s.users, a \in AccountTypes :
        t = Entry("season", <<s, u.id, a>>, u.email, a, -Closing(u, a))
  BY PostingIs
<1>2. u.email \in Users /\ Closing(u, a) \in Int /\ t.amount # 0
  BY UserParsed, PostingIs
<1>3. t.kind = "season" /\ t.key = <<s, u.id, a>> /\ t.user = u.email /\ t.account = a /\ t.amount = -Closing(u, a)
  BY <1>1 DEF Entry
<1>4. ASSUME NEW x \in SeasonSettlements(s), t.key = x.key PROVE t = x
  <2>1. PICK v \in s.users, b \in AccountTypes :
          x = Entry("season", <<s, v.id, b>>, v.email, b, -Closing(v, b))
    BY PostingIs
  <2>2. x.key = <<s, v.id, b>>
    BY <2>1 DEF Entry
  <2>3. v.id = u.id /\ a = b
    BY <1>3, <1>4, <2>2
  <2>4. v = u
    BY <2>3, UserParsed
  <2>5. QED
    BY <1>1, <2>1, <2>3, <2>4
<1>5. \E x \in Openings(s) : TakesBack(t, x)
  <2>1. PICK x : x = Entry("opening", <<s, u.id, a>>, u.email, a, Closing(u, a))
    OBVIOUS
  <2>2. x.key = <<s, u.id, a>> /\ x.user = u.email /\ x.account = a /\ x.amount = Closing(u, a)
    BY <2>1 DEF Entry
  <2>3. x.amount # 0
    BY <1>2, <1>3, <2>2
  <2>4. x \in Openings(s)
    BY <2>1, <2>3, PostingIs
  <2>5. QED
    BY <1>3, <2>2, <2>4 DEF TakesBack
<1>6. QED
  BY <1>2, <1>3, <1>4, <1>5

(* A promotion posts finitely many entries.                                *)
LEMMA PostingsFinite ==
  ASSUME NEW s \in Sources
  PROVE  IsFiniteSet(Openings(s)) /\ IsFiniteSet(SeasonSettlements(s))
<1>1. IsFiniteSet(AccountTypes)
  <2>1. IsFiniteSet({"cash"})
    BY FS_Singleton
  <2>2. IsFiniteSet({"cash"} \cup {"free"})
    BY <2>1, FS_AddElement
  <2>3. AccountTypes = {"cash"} \cup {"free"}
    BY DEF AccountTypes
  <2>4. QED
    BY <2>2, <2>3
<1>2. IsFiniteSet(s.users \X AccountTypes)
  BY <1>1, ImportAssumption, FS_Product
<1> DEFINE P == s.users \X AccountTypes
<1>3. IsFiniteSet(Openings(s))
  <2> DEFINE f == [x \in P |-> Entry("opening", <<s, x[1].id, x[2]>>, x[1].email, x[2], Closing(x[1], x[2]))]
             I == {f[x] : x \in P}
  <2>1. f \in Surjection(P, I)
    BY DEF Surjection
  <2>2. Openings(s) \subseteq I
    <3> SUFFICES ASSUME NEW t \in Openings(s) PROVE t \in I
      OBVIOUS
    <3>1. PICK u \in s.users, a \in AccountTypes :
            t = Entry("opening", <<s, u.id, a>>, u.email, a, Closing(u, a))
      BY PostingIs
    <3>2. <<u, a>> \in P /\ t = f[<<u, a>>]
      BY <3>1
    <3>3. QED
      BY <3>2
  <2> HIDE DEF f, I, P
  <2>3. IsFiniteSet(I)
    BY <1>2, <2>1, FS_Surjection DEF P
  <2>4. QED
    BY <2>2, <2>3, FS_Subset
<1>4. IsFiniteSet(SeasonSettlements(s))
  <2> DEFINE f == [x \in P |-> Entry("season", <<s, x[1].id, x[2]>>, x[1].email, x[2], -Closing(x[1], x[2]))]
             I == {f[x] : x \in P}
  <2>1. f \in Surjection(P, I)
    BY DEF Surjection
  <2>2. SeasonSettlements(s) \subseteq I
    <3> SUFFICES ASSUME NEW t \in SeasonSettlements(s) PROVE t \in I
      OBVIOUS
    <3>1. PICK u \in s.users, a \in AccountTypes :
            t = Entry("season", <<s, u.id, a>>, u.email, a, -Closing(u, a))
      BY PostingIs
    <3>2. <<u, a>> \in P /\ t = f[<<u, a>>]
      BY <3>1
    <3>3. QED
      BY <3>2
  <2> HIDE DEF f, I, P
  <2>3. IsFiniteSet(I)
    BY <1>2, <2>1, FS_Surjection DEF P
  <2>4. QED
    BY <2>2, <2>3, FS_Subset
<1>5. QED
  BY <1>3, <1>4

(* In a report without issues no row is left out.                          *)
LEMMA RecordsComplete ==
  ASSUME NEW s \in Sources, Promotable(s)
  PROVE  \A row \in s.txns \cup s.wagers : [batch |-> s, row |-> row] \in Records(s)
BY DEF Promotable, Records, KeptTxns, KeptWagers

-----------------------------------------------------------------------------
(* The invariant in three parts: the ledger, the page and the import *)

LedgerTyped ==
  /\ \A t \in ledger : /\ t.kind \in {"wager", "settlement", "reversal", "opening", "season"}
                       /\ t.user \in Users /\ t.account \in AccountTypes /\ t.amount \in Int \ {0}
  /\ \A t, x \in ledger : t.kind = x.kind /\ t.key = x.key => t = x

PageTyped ==
  /\ form \in [Forms -> Offer \cup {NoForm}]
  /\ request \in [Requests -> [state : {"none", "record", "reverse", "done"},
                               form : Forms \cup {None}, of : Requests \cup {None}]]

ImportTyped ==
  /\ source \in Sources /\ approved \in Sources \cup {NoSource}
  /\ command \in [Commands -> [state : {"idle", "reconciled", "batched"},
                               report : Sources \cup {NoSource}]]
  /\ batch \in [Sources -> {"none", "validated", "promoted"}]
  /\ membership \in [Users -> {"none", "member", "admin"}]
  /\ edits \in 0 .. MaxEdits /\ changes \in 0 .. MaxRoleChanges

LedgerInv == LedgerTyped /\ IsFiniteSet(ledger) /\ ReversalsMatch
PageInv == PageTyped /\ RequestsGrounded /\ OffersClear
ImportInv == ImportTyped /\ ReportsSound /\ EntriesImported /\ MappingTyped /\ NothingDropped

(* The three parts are the whole.                                          *)
LEMMA Parts == AccountsInv <=> LedgerInv /\ PageInv /\ ImportInv
BY DEF AccountsInv, TypeOK, LedgerInv, LedgerTyped, PageInv, PageTyped, ImportInv, ImportTyped

(* The same after a step.                                                  *)
LEMMA PartsNext == AccountsInv' <=> LedgerInv' /\ PageInv' /\ ImportInv'
BY DEF AccountsInv, TypeOK, LedgerInv, LedgerTyped, PageInv, PageTyped, ImportInv, ImportTyped

-----------------------------------------------------------------------------
(* The start *)

(* The betting results make finitely many entries with keys of their own.  *)
LEMMA WagersTyped ==
  ASSUME NEW results \in Results
  PROVE  /\ IsFiniteSet(WagerEntries(results))
         /\ \A t \in WagerEntries(results) :
              t.kind = "wager" /\ t.user \in Users /\ t.account \in AccountTypes /\ t.amount \in Int \ {0}
         /\ \A t, x \in WagerEntries(results) : t.key = x.key => t = x
<1> DEFINE D == {v \in Users : results[v] # 0}
           f == [u \in D |-> Entry("wager", u, u, "cash", results[u])]
<1>1. WagerEntries(results) = {f[u] : u \in D}
  BY DEF WagerEntries
<1>2. f \in Surjection(D, WagerEntries(results))
  BY <1>1 DEF Surjection
<1>3. IsFiniteSet(D)
  BY UsersAssumption, FS_Subset
<1>4. IsFiniteSet(WagerEntries(results))
  <2> HIDE DEF f, D
  <2>1. QED
    BY <1>2, <1>3, FS_Surjection
<1>5. \A t \in WagerEntries(results) : \E u \in D : t = Entry("wager", u, u, "cash", results[u])
  BY DEF WagerEntries
<1>6. \A u \in D : u \in Users /\ results[u] \in Int \ {0}
  BY ResultsAssumption
<1> HIDE DEF f, D
<1>7. \A t \in WagerEntries(results) :
        t.kind = "wager" /\ t.user \in Users /\ t.account \in AccountTypes /\ t.amount \in Int \ {0}
  BY <1>5, <1>6 DEF Entry, AccountTypes
<1>8. \A t, x \in WagerEntries(results) : t.key = x.key => t = x
  BY <1>5 DEF Entry
<1>9. QED
  BY <1>4, <1>7, <1>8

(* The invariant holds at the start: only betting results are there.       *)
LEMMA AccountsInitInv == Init => AccountsInv
<1> SUFFICES ASSUME Init PROVE AccountsInv
  OBVIOUS
<1>1. PICK results \in Results : ledger = WagerEntries(results)
  BY DEF Init
<1>2. \A t \in ledger : t.kind = "wager" /\ t.user \in Users /\ t.account \in AccountTypes /\ t.amount \in Int \ {0}
  BY <1>1, WagersTyped
<1>3. LedgerInv
  <2>1. IsFiniteSet(ledger) /\ \A t, x \in ledger : t.key = x.key => t = x
    BY <1>1, WagersTyped
  <2>2. QED
    BY <1>2, <2>1 DEF LedgerInv, LedgerTyped, ReversalsMatch
<1>4. PageInv
  <2>1. form = [f \in Forms |-> NoForm] /\ request = [r \in Requests |-> NoRequest]
    BY DEF Init, SettleInit
  <2>2. QED
    BY <2>1 DEF PageInv, PageTyped, RequestsGrounded, OffersClear, NoRequest
<1>5. ImportInv
  <2>1. ImportInit
    BY DEF Init
  <2>2. \A s \in Sources : batch[s] # "promoted"
    BY <2>1 DEF ImportInit
  <2>3. ImportTyped
    BY <2>1, ImportAssumption DEF ImportInit, ImportTyped
  <2>4. ReportsSound
    BY <2>1, <2>2 DEF ImportInit, ReportsSound
  <2>5. EntriesImported
    BY <1>2, <2>2 DEF EntriesImported
  <2>6. MappingTyped
    BY <2>1 DEF ImportInit, MappingTyped
  <2>7. NothingDropped
    BY <2>2 DEF NothingDropped
  <2>8. QED
    BY <2>3, <2>4, <2>5, <2>6, <2>7 DEF ImportInv
<1>6. QED
  BY <1>3, <1>4, <1>5, Parts

-----------------------------------------------------------------------------
(* The ledger *)

(* A settlement or a reversal under a key of its own keeps the ledger's    *)
(* part.                                                                   *)
LEMMA AddEntry ==
  ASSUME LedgerInv, NEW x, ledger' = ledger \cup {x},
         x.kind \in {"settlement", "reversal"}, x.user \in Users, x.account \in AccountTypes, x.amount \in Int \ {0},
         ~ KeyTaken(x.kind, x.key),
         x.kind = "reversal" => \E t \in ledger : t.kind = "settlement" /\ TakesBack(x, t)
  PROVE  LedgerInv'
<1>1. IsFiniteSet(ledger')
  BY FS_AddElement DEF LedgerInv
<1>2. LedgerTyped'
  <2>1. \A t \in ledger' : /\ t.kind \in {"wager", "settlement", "reversal", "opening", "season"}
                           /\ t.user \in Users /\ t.account \in AccountTypes /\ t.amount \in Int \ {0}
    BY DEF LedgerInv, LedgerTyped
  <2>2. \A t \in ledger : ~ (t.kind = x.kind /\ t.key = x.key)
    BY DEF KeyTaken
  <2>3. \A t, y \in ledger' : t.kind = y.kind /\ t.key = y.key => t = y
    BY <2>2 DEF LedgerInv, LedgerTyped
  <2>4. QED
    BY <2>1, <2>3 DEF LedgerTyped
<1>3. ReversalsMatch'
  <2> SUFFICES ASSUME NEW y \in ledger', y.kind = "reversal"
               PROVE  \E t \in ledger' : t.kind = "settlement" /\ TakesBack(y, t)
    BY DEF ReversalsMatch, TakesBack
  <2>1. \E t \in ledger : t.kind = "settlement" /\ TakesBack(y, t)
    BY DEF LedgerInv, ReversalsMatch
  <2>2. QED
    BY <2>1
<1>4. QED
  BY <1>1, <1>2, <1>3 DEF LedgerInv

(* A ledger that does not change keeps its part, and so does the import    *)
(* when only the page's entries are added.                                 *)
LEMMA LedgerSame == ASSUME LedgerInv, ledger' = ledger PROVE LedgerInv'
BY DEF LedgerInv, LedgerTyped, ReversalsMatch, TakesBack

(* Entries of the page are not the import's.                               *)
LEMMA ImportSame ==
  ASSUME ImportInv, UNCHANGED importVars, ledger \subseteq ledger',
         \A t \in ledger' \ ledger : t.kind \notin {"opening", "season"}
  PROVE  ImportInv'
<1>1. /\ source' = source /\ approved' = approved /\ command' = command /\ batch' = batch
      /\ mapping' = mapping /\ history' = history /\ membership' = membership
      /\ edits' = edits /\ changes' = changes
  BY DEF importVars
<1>2. ImportTyped' /\ ReportsSound' /\ MappingTyped' /\ NothingDropped'
  BY <1>1 DEF ImportInv, ImportTyped, ReportsSound, MappingTyped, NothingDropped
<1>3. EntriesImported'
  BY <1>1 DEF ImportInv, EntriesImported
<1>4. QED
  BY <1>2, <1>3 DEF ImportInv

(* Keys stay taken.                                                        *)
LEMMA TakenStays ==
  ASSUME ledger \subseteq ledger', NEW kind, NEW key, KeyTaken(kind, key)
  PROVE  KeyTaken(kind, key)'
BY DEF KeyTaken

-----------------------------------------------------------------------------
(* The page *)

(* A page is shown: the form offers what clears the balance.               *)
LEMMA ShowFormInv ==
  ASSUME AccountsInv, NEW f \in Forms, NEW u \in Users, ShowForm(f, u), UNCHANGED importVars
  PROVE  AccountsInv'
<1>0. LedgerInv /\ PageInv /\ ImportInv /\ ledger' = ledger /\ request' = request
  BY Parts DEF ShowForm
<1>1. PICK b : b = Balance(u)
  OBVIOUS
<1>2. b \in Int /\ b # 0
  <2>1. EntriesOf(u, "cash") \subseteq ledger
    BY DEF EntriesOf
  <2>2. IsFiniteSet(EntriesOf(u, "cash")) /\ \A t \in EntriesOf(u, "cash") : t.amount \in Int
    BY <1>0, <2>1, FS_Subset DEF LedgerInv, LedgerTyped
  <2>3. Balance(u) \in Int
    BY <2>2, TotalType DEF Balance
  <2>4. QED
    BY <1>1, <2>3 DEF ShowForm
<1>3. PICK d : d = SettleUpView(b).direction
  OBVIOUS
<1>4. PICK n : n = SettleUpView(b).amount
  OBVIOUS
<1>5. d \in Directions /\ n \in Nat \ {0} /\ MemberAmount(d, n) = -b
  BY <1>2, <1>3, <1>4, ViewClears
<1>6. PICK o : o = [user |-> u, shown |-> b, direction |-> d, amount |-> n]
  OBVIOUS
<1>7. form' = [form EXCEPT ![f] = o] /\ form[f] = NoForm
  BY <1>1, <1>3, <1>4, <1>6 DEF ShowForm
<1>8. o \in Offer /\ o.shown = b /\ o.direction = d /\ o.amount = n /\ o # NoForm
  BY <1>2, <1>5, <1>6, SettleUpAssumption DEF Offer, NoForm
<1>9. form \in [Forms -> Offer \cup {NoForm}]
  BY <1>0 DEF PageInv, PageTyped
<1>10. form'[f] = o /\ \A g \in Forms \ {f} : form'[g] = form[g]
  BY <1>7, <1>9
<1>11. PageTyped'
  BY <1>0, <1>7, <1>8, <1>9 DEF PageInv, PageTyped
<1>12. RequestsGrounded'
  BY <1>0, <1>7, <1>10 DEF PageInv, RequestsGrounded, KeyTaken
<1>13. OffersClear'
  <2> SUFFICES ASSUME NEW g \in Forms, form'[g] # NoForm
               PROVE  MemberAmount(form'[g].direction, form'[g].amount) = -form'[g].shown
    BY DEF OffersClear, MemberAmount
  <2>1. CASE g = f
    BY <1>5, <1>8, <1>10, <2>1
  <2>2. CASE g # f
    BY <1>0, <1>10, <2>2 DEF PageInv, OffersClear
  <2>3. QED
    BY <2>1, <2>2
<1>14. QED
  BY <1>0, <1>11, <1>12, <1>13, LedgerSame, ImportSame, PartsNext DEF PageInv

(* A request moves on, and nothing else does.                              *)
LEMMA RequestInv ==
  ASSUME PageInv, NEW r \in Requests, NEW q, request' = [request EXCEPT ![r] = q],
         q \in [state : {"none", "record", "reverse", "done"},
                form : Forms \cup {None}, of : Requests \cup {None}],
         form' = form, ledger \subseteq ledger',
         q.state = "record" => q.form \in Forms /\ form[q.form] # NoForm,
         q.state = "reverse" => KeyTaken("settlement", q.of)
  PROVE  PageInv'
<1>1. PageTyped'
  BY DEF PageInv, PageTyped
<1>2. OffersClear'
  BY DEF PageInv, OffersClear, MemberAmount
<1>3. request \in [Requests -> [state : {"none", "record", "reverse", "done"},
                               form : Forms \cup {None}, of : Requests \cup {None}]]
  BY DEF PageInv, PageTyped
<1>4. RequestsGrounded'
  <2> SUFFICES ASSUME NEW p \in Requests
               PROVE  /\ request'[p].state = "record" =>
                           request'[p].form \in Forms /\ form'[request'[p].form] # NoForm
                      /\ request'[p].state = "reverse" =>
                           \E t \in ledger' : t.kind = "settlement" /\ t.key = request'[p].of
    BY DEF RequestsGrounded, KeyTaken
  <2>1. request'[p] = q \/ request'[p] = request[p]
    BY <1>3
  <2>2. PICK k : k = request'[p].of
    OBVIOUS
  <2>3. request'[p].state = "reverse" => KeyTaken("settlement", k)
    BY <2>1, <2>2 DEF PageInv, RequestsGrounded
  <2>4. request'[p].state = "reverse" => KeyTaken("settlement", k)'
    BY <2>3, TakenStays
  <2>5. request'[p].state = "reverse" =>
          \E t \in ledger' : t.kind = "settlement" /\ t.key = request'[p].of
    BY <2>2, <2>4 DEF KeyTaken
  <2>6. request'[p].state = "record" =>
          request'[p].form \in Forms /\ form'[request'[p].form] # NoForm
    BY <2>1 DEF PageInv, RequestsGrounded
  <2>7. QED
    BY <2>5, <2>6
<1>5. QED
  BY <1>1, <1>2, <1>4 DEF PageInv

(* SubmitSettlement, SubmitReversal and RequestFails move a request and    *)
(* leave the ledger.                                                       *)
LEMMA SubmitInv ==
  ASSUME AccountsInv, NEW r \in Requests,
         \/ \E f \in Forms : SubmitSettlement(r, f)
         \/ \E a \in Requests : SubmitReversal(r, a)
         \/ RequestFails(r),
         UNCHANGED importVars
  PROVE  AccountsInv'
<1>0. LedgerInv /\ PageInv /\ ImportInv
  BY Parts
<1>1. ledger' = ledger /\ form' = form
  BY DEF SubmitSettlement, SubmitReversal, RequestFails
<1> DEFINE Q == [state : {"none", "record", "reverse", "done"},
                 form : Forms \cup {None}, of : Requests \cup {None}]
<1>2. request \in [Requests -> Q]
  BY <1>0 DEF PageInv, PageTyped
<1>3. \E q \in Q : /\ request' = [request EXCEPT ![r] = q]
                   /\ q.state = "record" => q.form \in Forms /\ form[q.form] # NoForm
                   /\ q.state = "reverse" => KeyTaken("settlement", q.of)
  <2>1. ASSUME NEW f \in Forms, SubmitSettlement(r, f)
        PROVE  \E q \in Q : /\ request' = [request EXCEPT ![r] = q]
                            /\ q.state = "record" => q.form \in Forms /\ form[q.form] # NoForm
                            /\ q.state = "reverse" => KeyTaken("settlement", q.of)
    <3>1. PICK x \in {"done", "record"} :
            request' = [request EXCEPT ![r] = [state |-> x, form |-> f, of |-> None]]
      BY <2>1 DEF SubmitSettlement
    <3>2. form[f] # NoForm
      BY <2>1 DEF SubmitSettlement
    <3>3. WITNESS [state |-> x, form |-> f, of |-> None] \in Q
    <3>4. QED
      BY <3>1, <3>2
  <2>2. ASSUME NEW a \in Requests, SubmitReversal(r, a)
        PROVE  \E q \in Q : /\ request' = [request EXCEPT ![r] = q]
                            /\ q.state = "record" => q.form \in Forms /\ form[q.form] # NoForm
                            /\ q.state = "reverse" => KeyTaken("settlement", q.of)
    <3>1. PICK x \in {"done", "reverse"} :
            request' = [request EXCEPT ![r] = [state |-> x, form |-> None, of |-> a]]
      BY <2>2 DEF SubmitReversal
    <3>2. KeyTaken("settlement", a)
      BY <2>2 DEF SubmitReversal
    <3>3. WITNESS [state |-> x, form |-> None, of |-> a] \in Q
    <3>4. QED
      BY <3>1, <3>2
  <2>3. ASSUME RequestFails(r)
        PROVE  \E q \in Q : /\ request' = [request EXCEPT ![r] = q]
                            /\ q.state = "record" => q.form \in Forms /\ form[q.form] # NoForm
                            /\ q.state = "reverse" => KeyTaken("settlement", q.of)
    <3>1. request' = [request EXCEPT ![r] = [request[r] EXCEPT !.state = "done"]]
      BY <2>3 DEF RequestFails
    <3>2. PICK q : q = [request[r] EXCEPT !.state = "done"]
      OBVIOUS
    <3>3. q \in Q /\ q.state = "done"
      BY <1>2, <3>2
    <3>4. QED
      BY <3>1, <3>2, <3>3
  <2>4. QED
    BY <2>1, <2>2, <2>3
<1>4. PageInv'
  <2>1. PICK q \in Q : /\ request' = [request EXCEPT ![r] = q]
                       /\ q.state = "record" => q.form \in Forms /\ form[q.form] # NoForm
                       /\ q.state = "reverse" => KeyTaken("settlement", q.of)
    BY <1>3
  <2>2. ledger \subseteq ledger'
    BY <1>1
  <2>3. QED
    BY <1>0, <1>1, <2>1, <2>2, RequestInv
<1>5. QED
  BY <1>0, <1>1, <1>4, LedgerSame, ImportSame, PartsNext

(* A request that is done asks nothing more.                               *)
LEMMA DoneInv ==
  ASSUME PageInv, NEW r \in Requests, request' = [request EXCEPT ![r].state = "done"],
         form' = form, ledger \subseteq ledger'
  PROVE  PageInv'
<1> DEFINE Q == [state : {"none", "record", "reverse", "done"},
                 form : Forms \cup {None}, of : Requests \cup {None}]
<1>1. request \in [Requests -> Q]
  BY DEF PageInv, PageTyped
<1>2. PICK q : q = [request[r] EXCEPT !.state = "done"]
  OBVIOUS
<1>3. q \in Q /\ q.state = "done" /\ request' = [request EXCEPT ![r] = q]
  BY <1>1, <1>2
<1>4. QED
  BY <1>3, RequestInv

(* RecordAdjustment: the settlement is entered once under its id.          *)
LEMMA RecordInv ==
  ASSUME AccountsInv, NEW r \in Requests, RecordSettlement(r), UNCHANGED importVars
  PROVE  AccountsInv'
<1>0. LedgerInv /\ PageInv /\ ImportInv
  BY Parts
<1>1. PICK o : o = form[request[r].form]
  OBVIOUS
<1>2. o \in Offer
  <2>1. request[r].form \in Forms /\ o # NoForm
    BY <1>0, <1>1 DEF PageInv, RequestsGrounded, RecordSettlement
  <2>2. QED
    BY <1>0, <1>1, <2>1 DEF PageInv, PageTyped
<1>3. PICK n : n = MemberAmount(o.direction, o.amount)
  OBVIOUS
<1>4. n \in Int \ {0} /\ o.user \in Users
  BY <1>2, <1>3, PostedNonzero DEF Offer
<1>5. PICK x : x = Entry("settlement", r, o.user, "cash", n)
  OBVIOUS
<1>6. x.kind = "settlement" /\ x.key = r /\ x.user = o.user /\ x.account \in AccountTypes /\ x.amount = n
  BY <1>5 DEF Entry, AccountTypes
<1>7. ledger' = IF KeyTaken("settlement", r) THEN ledger ELSE ledger \cup {x}
  BY <1>1, <1>3, <1>5 DEF RecordSettlement
<1>8. LedgerInv'
  <2>1. CASE KeyTaken("settlement", r)
    BY <1>0, <1>7, <2>1, LedgerSame
  <2>2. CASE ~ KeyTaken("settlement", r)
    BY <1>0, <1>4, <1>6, <1>7, <2>2, AddEntry
  <2>3. QED
    BY <2>1, <2>2
<1>9. PageInv'
  <2>1. ledger \subseteq ledger'
    BY <1>7
  <2>2. QED
    BY <1>0, <2>1, DoneInv DEF RecordSettlement
<1>10. ImportInv'
  <2>1. ledger \subseteq ledger' /\ \A t \in ledger' \ ledger : t.kind \notin {"opening", "season"}
    BY <1>6, <1>7
  <2>2. QED
    BY <1>0, <2>1, ImportSame
<1>11. QED
  BY <1>8, <1>9, <1>10, PartsNext

(* ReverseAdjustment: what was recorded is taken back, once.               *)
LEMMA ReverseInv ==
  ASSUME AccountsInv, NEW r \in Requests, ReverseSettlement(r), UNCHANGED importVars
  PROVE  AccountsInv'
<1>0. LedgerInv /\ PageInv /\ ImportInv
  BY Parts
<1>1. PICK a : a = request[r].of
  OBVIOUS
<1>2. PICK o : o = CHOOSE t \in ledger : t.kind = "settlement" /\ t.key = a
  OBVIOUS
<1>3. o \in ledger /\ o.kind = "settlement" /\ o.key = a
  <2>1. KeyTaken("settlement", a)
    BY <1>0, <1>1 DEF PageInv, RequestsGrounded, ReverseSettlement
  <2>2. \E t \in ledger : t.kind = "settlement" /\ t.key = a
    BY <2>1 DEF KeyTaken
  <2>3. QED
    BY <1>2, <2>2
<1>4. o.user \in Users /\ o.account \in AccountTypes /\ o.amount \in Int \ {0}
  BY <1>0, <1>3 DEF LedgerInv, LedgerTyped
<1>5. PICK x : x = Entry("reversal", a, o.user, o.account, -o.amount)
  OBVIOUS
<1>6. x.kind = "reversal" /\ x.key = a /\ x.user = o.user /\ x.account = o.account /\ x.amount = -o.amount
  BY <1>5 DEF Entry
<1>7. ledger' = IF KeyTaken("reversal", a) THEN ledger ELSE ledger \cup {x}
  BY <1>1, <1>2, <1>5 DEF ReverseSettlement
<1>8. LedgerInv'
  <2>1. CASE KeyTaken("reversal", a)
    BY <1>0, <1>7, <2>1, LedgerSame
  <2>2. CASE ~ KeyTaken("reversal", a)
    <3>1. TakesBack(x, o)
      BY <1>3, <1>6 DEF TakesBack
    <3>2. x.amount \in Int \ {0}
      BY <1>4, <1>6
    <3>3. QED
      BY <1>0, <1>3, <1>4, <1>6, <1>7, <2>2, <3>1, <3>2, AddEntry
  <2>3. QED
    BY <2>1, <2>2
<1>9. PageInv'
  <2>1. ledger \subseteq ledger'
    BY <1>7
  <2>2. QED
    BY <1>0, <2>1, DoneInv DEF ReverseSettlement
<1>10. ImportInv'
  <2>1. ledger \subseteq ledger' /\ \A t \in ledger' \ ledger : t.kind \notin {"opening", "season"}
    BY <1>6, <1>7
  <2>2. QED
    BY <1>0, <2>1, ImportSame
<1>11. QED
  BY <1>8, <1>9, <1>10, PartsNext

-----------------------------------------------------------------------------
(* The import *)

(* The page does not notice what the import does to the ledger.            *)
LEMMA PageSame == ASSUME PageInv, UNCHANGED settleVars, ledger \subseteq ledger' PROVE PageInv'
<1>1. form' = form /\ request' = request
  BY DEF settleVars
<1>2. PageTyped' /\ OffersClear'
  BY <1>1 DEF PageInv, PageTyped, OffersClear, MemberAmount
<1>3. RequestsGrounded'
  BY <1>1 DEF PageInv, RequestsGrounded, KeyTaken
<1>4. QED
  BY <1>2, <1>3 DEF PageInv

(* Steps of the import that leave the ledger, the mappings, the history    *)
(* and the set of promoted batches.                                        *)
LEMMA ImportFrame ==
  ASSUME ImportInv, ledger' = ledger, mapping' = mapping, history' = history,
         \A s \in Sources : batch'[s] = "promoted" <=> batch[s] = "promoted",
         ImportTyped',
         \A c \in Commands : command'[c].state # "idle" =>
           command'[c].report \in Sources /\ Promotable(command'[c].report)
  PROVE  ImportInv'
<1>1. ReportsSound'
  <2>1. \A s \in Sources : batch'[s] = "promoted" => Promotable(s)
    BY DEF ImportInv, ReportsSound
  <2>2. QED
    BY <2>1 DEF ReportsSound, Promotable, UserSound, TxnSound, WagerSound, Known, SignFits
<1>2. EntriesImported'
  BY DEF ImportInv, EntriesImported
<1>3. MappingTyped' /\ NothingDropped'
  BY DEF ImportInv, MappingTyped, NothingDropped
<1>4. QED
  BY <1>1, <1>2, <1>3 DEF ImportInv

(* Reports, approvals, edits of the source and of roles.                   *)
LEMMA OutsideInv ==
  ASSUME AccountsInv, UNCHANGED settleVars,
         \/ ApproveReport
         \/ \E s \in Sources : EditSource(s)
         \/ \E m \in Users, r \in {"none", "member", "admin"} : ChangeRole(m, r)
  PROVE  AccountsInv'
<1>0. LedgerInv /\ PageInv /\ ImportInv
  BY Parts
<1>1. /\ ledger' = ledger /\ mapping' = mapping /\ history' = history
      /\ batch' = batch /\ command' = command
  BY DEF ApproveReport, EditSource, ChangeRole
<1>2. ImportTyped'
  BY <1>0, <1>1, ImportAssumption DEF ImportInv, ImportTyped, ApproveReport, EditSource, ChangeRole
<1>3. ImportInv'
  BY <1>0, <1>1, <1>2, ImportFrame DEF ImportInv, ReportsSound
<1>4. PageInv'
  BY <1>0, <1>1, PageSame
<1>5. QED
  BY <1>0, <1>1, <1>3, <1>4, LedgerSame, PartsNext

(* The command up to its transaction, or failing at any point.             *)
LEMMA CommandInv ==
  ASSUME AccountsInv, UNCHANGED settleVars, NEW c \in Commands,
         StartPromotion(c) \/ EnsureBatch(c) \/ PromotionFails(c)
  PROVE  AccountsInv'
<1>0. LedgerInv /\ PageInv /\ ImportInv
  BY Parts
<1>1. /\ ledger' = ledger /\ mapping' = mapping /\ history' = history
      /\ source' = source /\ approved' = approved /\ membership' = membership
      /\ edits' = edits /\ changes' = changes
  BY DEF StartPromotion, EnsureBatch, PromotionFails
<1> DEFINE K == [state : {"idle", "reconciled", "batched"}, report : Sources \cup {NoSource}]
<1>2. command \in [Commands -> K] /\ batch \in [Sources -> {"none", "validated", "promoted"}]
  BY <1>0 DEF ImportInv, ImportTyped
<1>3. PICK k : /\ k \in K /\ command' = [command EXCEPT ![c] = k]
               /\ k.state # "idle" => k.report \in Sources /\ Promotable(k.report)
  <2>1. CASE StartPromotion(c)
    <3>1. PICK k : k = [state |-> "reconciled", report |-> source]
      OBVIOUS
    <3>2. k \in K /\ k.report = source /\ Promotable(source) /\ source \in Sources
      BY <1>0, <2>1, <3>1 DEF ImportInv, ImportTyped, StartPromotion
    <3>3. QED
      BY <2>1, <3>1, <3>2 DEF StartPromotion
  <2>2. CASE EnsureBatch(c)
    <3>1. PICK k : k = [command[c] EXCEPT !.state = "batched"]
      OBVIOUS
    <3>2. k \in K /\ k.report = command[c].report
      BY <1>2, <3>1
    <3>3. command' = [command EXCEPT ![c] = k]
      BY <2>2, <3>1 DEF EnsureBatch
    <3>4. command[c].report \in Sources /\ Promotable(command[c].report)
      BY <1>0, <2>2 DEF ImportInv, ReportsSound, EnsureBatch
    <3>5. QED
      BY <3>2, <3>3, <3>4
  <2>3. CASE PromotionFails(c)
    <3>1. PICK k : k = [state |-> "idle", report |-> NoSource]
      OBVIOUS
    <3>2. k \in K /\ k.state = "idle" /\ command' = [command EXCEPT ![c] = k]
      BY <2>3, <3>1 DEF PromotionFails
    <3>3. QED
      BY <3>2
  <2>4. QED
    BY <2>1, <2>2, <2>3
<1>4. \A d \in Commands : command'[d].state # "idle" =>
        command'[d].report \in Sources /\ Promotable(command'[d].report)
  <2> SUFFICES ASSUME NEW d \in Commands, command'[d].state # "idle"
               PROVE  command'[d].report \in Sources /\ Promotable(command'[d].report)
    OBVIOUS
  <2>1. CASE d = c
    BY <1>2, <1>3, <2>1
  <2>2. CASE d # c
    BY <1>0, <1>2, <1>3, <2>2 DEF ImportInv, ReportsSound
  <2>3. QED
    BY <2>1, <2>2
<1>5. /\ batch' \in [Sources -> {"none", "validated", "promoted"}]
      /\ \A s \in Sources : batch'[s] = "promoted" <=> batch[s] = "promoted"
  <2>1. CASE batch' = batch
    BY <1>2, <2>1
  <2>2. CASE EnsureBatch(c)
    <3>1. PICK s : s = command[c].report
      OBVIOUS
    <3>2. batch' = [batch EXCEPT ![s] = IF batch[s] = "promoted" THEN batch[s] ELSE "validated"]
      BY <2>2, <3>1 DEF EnsureBatch
    <3>3. QED
      BY <1>2, <3>2
  <2>3. QED
    BY <2>1, <2>2 DEF StartPromotion, PromotionFails
<1>6. ImportTyped'
  BY <1>0, <1>1, <1>2, <1>3, <1>5 DEF ImportInv, ImportTyped
<1>7. ImportInv'
  BY <1>0, <1>1, <1>4, <1>5, <1>6, ImportFrame
<1>8. QED
  BY <1>0, <1>1, <1>7, PageSame, LedgerSame, PartsNext

(* What a promotion does to the mappings: every user of the version is     *)
(* mapped by it, and nobody already mapped is mapped anew.                 *)
LEMMA MappingKept ==
  ASSUME ImportInv, NEW s \in Sources, Promotable(s), \A u \in s.users : MayMap(s, u),
         mapping' = [i \in LegacyIds |->
                       IF \E u \in s.users : u.id = i
                       THEN [batch |-> s, user |-> (CHOOSE u \in s.users : u.id = i).email]
                       ELSE mapping[i]]
  PROVE  /\ MappingTyped'
         /\ \A u \in s.users : mapping'[u.id] = [batch |-> s, user |-> u.email]
         /\ \A i \in LegacyIds : mapping[i] # NoSource => mapping'[i] = mapping[i]
<1>1. ASSUME NEW u \in s.users
      PROVE  (CHOOSE v \in s.users : v.id = u.id) = u
  BY UserParsed
<1>2. ASSUME NEW u \in s.users
      PROVE  mapping'[u.id] = [batch |-> s, user |-> u.email]
  <2>1. u.id \in LegacyIds
    BY UserParsed
  <2>2. mapping'[u.id] = [batch |-> s, user |-> (CHOOSE v \in s.users : v.id = u.id).email]
    BY <2>1
  <2>3. QED
    BY <1>1, <2>2
<1>3. \A i \in LegacyIds : ~ (\E u \in s.users : u.id = i) => mapping'[i] = mapping[i]
  OBVIOUS
<1>4. ASSUME NEW i \in LegacyIds
      PROVE  /\ mapping'[i] \in [batch : Sources, user : Users] \cup {NoSource}
             /\ mapping[i] # NoSource => mapping'[i] = mapping[i]
  <2>1. CASE \E u \in s.users : u.id = i
    <3>1. PICK u \in s.users : u.id = i
      BY <2>1
    <3>2. mapping'[i] = [batch |-> s, user |-> u.email] /\ u.email \in Users
      BY <1>2, <3>1, UserParsed
    <3>3. mapping[i] \in {NoSource, [batch |-> s, user |-> u.email]}
      BY <3>1 DEF MayMap
    <3>4. QED
      BY <3>2, <3>3
  <2>2. CASE ~ \E u \in s.users : u.id = i
    BY <1>3, <2>2 DEF ImportInv, MappingTyped
  <2>3. QED
    BY <2>1, <2>2
<1>5. MappingTyped'
  BY <1>4 DEF MappingTyped
<1>6. QED
  BY <1>2, <1>4, <1>5

(* The roles a promotion grants.                                           *)
LEMMA RolesGranted ==
  ASSUME ImportInv, NEW s \in Sources, Promotable(s),
         membership' = [m \in Users |-> IF \E u \in s.users : u.email = m
                                        THEN (CHOOSE u \in s.users : u.email = m).role
                                        ELSE membership[m]]
  PROVE  membership' \in [Users -> {"none", "member", "admin"}]
<1>1. membership \in [Users -> {"none", "member", "admin"}]
  BY DEF ImportInv, ImportTyped
<1>2. ASSUME NEW m \in Users
      PROVE  membership'[m] \in {"none", "member", "admin"}
  <2>1. CASE \E u \in s.users : u.email = m
    <3>1. PICK u : u = CHOOSE v \in s.users : v.email = m
      OBVIOUS
    <3>2. u \in s.users
      BY <2>1, <3>1
    <3>3. membership'[m] = u.role
      BY <2>1, <3>1
    <3>4. QED
      BY <3>2, <3>3, UserParsed
  <2>2. CASE ~ \E u \in s.users : u.email = m
    BY <1>1, <2>2
  <2>3. QED
    BY <2>1, <2>2
<1>3. QED
  BY <1>2

(* The entries a promotion adds keep the ledger's part: on a version       *)
(* promoted before they are the entries already there.                     *)
LEMMA PostingInv ==
  ASSUME LedgerInv, ImportInv, NEW s \in Sources, Promotable(s),
         ledger' = ledger \cup Openings(s) \cup SeasonSettlements(s)
  PROVE  LedgerInv'
<1>1. IsFiniteSet(ledger')
  BY PostingsFinite, FS_Union DEF LedgerInv
<1>2. \A t \in ledger' : \/ t \in ledger
                         \/ t.kind = "opening" /\ t \in Openings(s)
                         \/ t.kind = "season" /\ t \in SeasonSettlements(s)
  BY OpeningTyped, SeasonTyped
<1>3. ASSUME NEW t \in ledger', t.kind = "opening"
      PROVE  \E v \in Sources : Promotable(v) /\ t \in Openings(v)
  BY <1>2, <1>3 DEF ImportInv, EntriesImported, ReportsSound
<1>4. ASSUME NEW t \in ledger', t.kind = "season"
      PROVE  \E v \in Sources : Promotable(v) /\ t \in SeasonSettlements(v)
  BY <1>2, <1>4 DEF ImportInv, EntriesImported, ReportsSound
<1>5. LedgerTyped'
  <2>1. \A t \in ledger' : /\ t.kind \in {"wager", "settlement", "reversal", "opening", "season"}
                           /\ t.user \in Users /\ t.account \in AccountTypes /\ t.amount \in Int \ {0}
    BY OpeningTyped, SeasonTyped DEF LedgerInv, LedgerTyped
  <2>2. ASSUME NEW t \in ledger', NEW x \in ledger', t.kind = x.kind, t.key = x.key
        PROVE  t = x
    <3>1. CASE t.kind = "opening"
      <4>1. PICK v \in Sources : Promotable(v) /\ t \in Openings(v)
        BY <1>3, <3>1
      <4>2. PICK w \in Sources : Promotable(w) /\ x \in Openings(w)
        BY <1>3, <2>2, <3>1
      <4>3. PICK i, a : t.key = <<v, i, a>>
        BY <4>1, OpeningTyped
      <4>4. PICK j, b : x.key = <<w, j, b>>
        BY <4>2, OpeningTyped
      <4>5. v = w
        <5>1. t.key[1] = v /\ x.key[1] = w
          BY <4>3, <4>4
        <5>2. QED
          BY <2>2, <5>1
      <4>6. QED
        BY <2>2, <4>1, <4>2, <4>5, OpeningTyped
    <3>2. CASE t.kind = "season"
      <4>1. PICK v \in Sources : Promotable(v) /\ t \in SeasonSettlements(v)
        BY <1>4, <3>2
      <4>2. PICK w \in Sources : Promotable(w) /\ x \in SeasonSettlements(w)
        BY <1>4, <2>2, <3>2
      <4>3. PICK i, a : t.key = <<v, i, a>>
        BY <4>1, SeasonTyped
      <4>4. PICK j, b : x.key = <<w, j, b>>
        BY <4>2, SeasonTyped
      <4>5. v = w
        <5>1. t.key[1] = v /\ x.key[1] = w
          BY <4>3, <4>4
        <5>2. QED
          BY <2>2, <5>1
      <4>6. QED
        BY <2>2, <4>1, <4>2, <4>5, SeasonTyped
    <3>3. CASE t.kind \notin {"opening", "season"}
      <4>1. t \in ledger /\ x \in ledger
        BY <1>2, <2>2, <3>3
      <4>2. QED
        BY <2>2, <4>1 DEF LedgerInv, LedgerTyped
    <3>4. QED
      BY <3>1, <3>2, <3>3
  <2>3. QED
    BY <2>1, <2>2 DEF LedgerTyped
<1>6. ReversalsMatch'
  <2> SUFFICES ASSUME NEW y \in ledger', y.kind = "reversal"
               PROVE  \E t \in ledger' : t.kind = "settlement" /\ TakesBack(y, t)
    BY DEF ReversalsMatch, TakesBack
  <2>1. y \in ledger
    BY <1>2
  <2>2. QED
    BY <2>1 DEF LedgerInv, ReversalsMatch
<1>7. QED
  BY <1>1, <1>5, <1>6 DEF LedgerInv

(* Promote: the SERIALIZABLE transaction of the import.                    *)
LEMMA PromoteInv ==
  ASSUME AccountsInv, UNCHANGED settleVars, NEW c \in Commands, Promote(c)
  PROVE  AccountsInv'
<1>0. LedgerInv /\ PageInv /\ ImportInv
  BY Parts
<1>1. PICK s : s = command[c].report
  OBVIOUS
<1>2. s \in Sources /\ Promotable(s)
  BY <1>0, <1>1 DEF ImportInv, ReportsSound, Promote
<1>3. /\ \A u \in s.users : MayMap(s, u)
      /\ ledger' = ledger \cup Openings(s) \cup SeasonSettlements(s)
      /\ mapping' = [i \in LegacyIds |->
                       IF \E u \in s.users : u.id = i
                       THEN [batch |-> s, user |-> (CHOOSE u \in s.users : u.id = i).email]
                       ELSE mapping[i]]
      /\ history' = history \cup Records(s)
      /\ membership' = [m \in Users |-> IF \E u \in s.users : u.email = m
                                        THEN (CHOOSE u \in s.users : u.email = m).role
                                        ELSE membership[m]]
      /\ batch' = [batch EXCEPT ![s] = "promoted"]
      /\ command' = [command EXCEPT ![c] = [state |-> "idle", report |-> NoSource]]
      /\ source' = source /\ approved' = approved /\ edits' = edits /\ changes' = changes
  BY <1>1 DEF Promote
<1>4. LedgerInv'
  BY <1>0, <1>2, <1>3, PostingInv
<1>5. PageInv'
  BY <1>0, <1>3, PageSame
<1>6. /\ MappingTyped'
      /\ \A u \in s.users : mapping'[u.id] = [batch |-> s, user |-> u.email]
      /\ \A i \in LegacyIds : mapping[i] # NoSource => mapping'[i] = mapping[i]
  BY <1>0, <1>2, <1>3, MappingKept
<1>7. batch \in [Sources -> {"none", "validated", "promoted"}]
  BY <1>0 DEF ImportInv, ImportTyped
<1>8. \A v \in Sources : batch'[v] = "promoted" <=> v = s \/ batch[v] = "promoted"
  BY <1>2, <1>3, <1>7
<1>9. ImportTyped'
  <2>1. membership' \in [Users -> {"none", "member", "admin"}]
    BY <1>0, <1>2, <1>3, RolesGranted
  <2>2. QED
    BY <1>0, <1>2, <1>3, <2>1 DEF ImportInv, ImportTyped
<1>10. ReportsSound'
  <2>1. \A d \in Commands : command'[d].state # "idle" =>
          command'[d].report \in Sources /\ Promotable(command'[d].report)
    <3>1. \A d \in Commands : command'[d].state # "idle" => command'[d] = command[d]
      BY <1>0, <1>3 DEF ImportInv, ImportTyped
    <3>2. QED
      BY <1>0, <3>1 DEF ImportInv, ReportsSound
  <2>2. \A v \in Sources : batch'[v] = "promoted" => Promotable(v)
    BY <1>0, <1>2, <1>8 DEF ImportInv, ReportsSound
  <2>3. QED
    BY <2>1, <2>2 DEF ReportsSound, Promotable, UserSound, TxnSound, WagerSound, Known, SignFits
<1>11. EntriesImported'
  <2>1. \A t \in ledger' :
          /\ t.kind = "opening" => \E v \in Sources : batch'[v] = "promoted" /\ t \in Openings(v)
          /\ t.kind = "season" =>
               \E v \in Sources : batch'[v] = "promoted" /\ t \in SeasonSettlements(v)
    BY <1>0, <1>2, <1>3, <1>8, OpeningTyped, SeasonTyped DEF ImportInv, EntriesImported
  <2>2. \A v \in Sources : batch'[v] = "promoted" =>
          Openings(v) \cup SeasonSettlements(v) \subseteq ledger'
    BY <1>0, <1>3, <1>8 DEF ImportInv, EntriesImported
  <2>3. QED
    BY <2>1, <2>2 DEF EntriesImported
<1>12. NothingDropped'
  <2> SUFFICES ASSUME NEW v \in Sources, batch'[v] = "promoted"
               PROVE  /\ \A row \in v.txns \cup v.wagers : [batch |-> v, row |-> row] \in history'
                      /\ \A u \in v.users : mapping'[u.id] = [batch |-> v, user |-> u.email]
    BY DEF NothingDropped
  <2>1. CASE v = s
    <3>1. \A row \in s.txns \cup s.wagers : [batch |-> s, row |-> row] \in Records(s)
      BY <1>2, RecordsComplete
    <3>2. \A row \in s.txns \cup s.wagers : [batch |-> s, row |-> row] \in history'
      BY <1>3, <3>1
    <3>3. QED
      BY <1>6, <2>1, <3>2
  <2>2. CASE v # s
    <3>1. batch[v] = "promoted" /\ Promotable(v)
      BY <1>0, <1>8, <2>2 DEF ImportInv, ReportsSound
    <3>2. /\ \A row \in v.txns \cup v.wagers : [batch |-> v, row |-> row] \in history
          /\ \A u \in v.users : mapping[u.id] = [batch |-> v, user |-> u.email]
      BY <1>0, <3>1 DEF ImportInv, NothingDropped
    <3>3. \A u \in v.users : u.id \in LegacyIds /\ u.email \in Users
      BY <3>1, UserParsed
    <3>4. \A u \in v.users : mapping[u.id] # NoSource
      BY <3>2, <3>3, ImportAssumption
    <3>5. \A u \in v.users : mapping'[u.id] = [batch |-> v, user |-> u.email]
      BY <1>6, <3>2, <3>3, <3>4
    <3>6. QED
      BY <1>3, <3>2, <3>5
  <2>3. QED
    BY <2>1, <2>2
<1>13. QED
  BY <1>4, <1>5, <1>6, <1>9, <1>10, <1>11, <1>12, PartsNext DEF ImportInv

-----------------------------------------------------------------------------
(* The theorems *)

(* Every step keeps the invariant.                                         *)
LEMMA AccountsNextInv == AccountsInv /\ [Next]_vars => AccountsInv'
<1> SUFFICES ASSUME AccountsInv, [Next]_vars PROVE AccountsInv'
  OBVIOUS
<1>1. CASE UNCHANGED vars
  <2>1. ledger' = ledger /\ UNCHANGED settleVars /\ UNCHANGED importVars
    BY <1>1 DEF vars
  <2>2. QED
    BY <2>1, Parts, PartsNext, LedgerSame, PageSame, ImportSame
<1>2. CASE SettleNext /\ UNCHANGED importVars
  BY <1>2, ShowFormInv, SubmitInv, RecordInv, ReverseInv DEF SettleNext
<1>3. CASE ImportNext /\ UNCHANGED settleVars
  BY <1>3, OutsideInv, CommandInv, PromoteInv DEF ImportNext
<1>4. QED
  BY <1>1, <1>2, <1>3 DEF Next

(* The invariant holds in every state, for any members, forms, requests,   *)
(* versions of the archive and runs of the command.                        *)
THEOREM AccountsInvariance == Spec => []AccountsInv
BY AccountsInitInv, AccountsNextInv, PTL DEF Spec

(* The entries of E are of two kinds, and those outside R pair off by key: *)
(* each has one of the other kind that takes it back.                      *)
PairedOff(E, R) ==
  /\ \A t, x, y \in E : x.kind # t.kind /\ y.kind # t.kind => x.kind = y.kind
  /\ \A t \in E \ R : \E x \in E \ R :
       x.key = t.key /\ x.kind # t.kind /\ x.amount = -t.amount

(* Paired entries cancel, whatever order they were posted in.              *)
LEMMA PairsCancel ==
  ASSUME LedgerInv, NEW E \in SUBSET ledger, NEW R \in SUBSET E, PairedOff(E, R)
  PROVE  Total(E) = Total(R)
<1>1. \A t, x \in E : t.kind = x.kind /\ t.key = x.key => t = x
  BY DEF LedgerInv, LedgerTyped
<1>2. PICK p : p = [t \in E |-> CHOOSE x \in E : x.key = t.key /\ x.kind # t.kind]
  OBVIOUS
<1>3. ASSUME NEW t \in E, NEW x \in E, x.key = t.key, x.kind # t.kind
      PROVE  p[t] = x
  <2>1. PICK y : y = CHOOSE z \in E : z.key = t.key /\ z.kind # t.kind
    OBVIOUS
  <2>2. y \in E /\ y.key = t.key /\ y.kind # t.kind
    BY <1>3, <2>1
  <2>3. y.kind = x.kind
    BY <1>3, <2>2 DEF PairedOff
  <2>4. y = x
    BY <1>1, <1>3, <2>2, <2>3
  <2>5. QED
    BY <1>2, <2>1, <2>4
<1>4. ASSUME NEW t \in E \ R
      PROVE  p[t] \in E \ R /\ p[p[t]] = t /\ p[t].amount = -t.amount
  <2>1. PICK x \in E \ R : x.key = t.key /\ x.kind # t.kind /\ x.amount = -t.amount
    BY DEF PairedOff
  <2>2. p[t] = x
    BY <1>3, <2>1
  <2>3. p[x] = t
    BY <1>3, <2>1
  <2>4. QED
    BY <2>1, <2>2, <2>3
<1>5. IsFiniteSet(E) /\ \A t \in E : t.amount \in Int
  BY FS_Subset DEF LedgerInv, LedgerTyped
<1>6. Undoing(p, E \ R)
  BY <1>4 DEF Undoing
<1>7. QED
  BY <1>5, <1>6, TotalCancels

(* What is left of a member's settlements is the sum of those not          *)
(* reversed.                                                               *)
LEMMA InvReversedExactly == AccountsInv => ReversedExactly
<1> SUFFICES ASSUME AccountsInv, NEW u \in Users, NEW a \in AccountTypes
             PROVE  Total({t \in EntriesOf(u, a) : t.kind \in {"settlement", "reversal"}}) =
                    Total({t \in EntriesOf(u, a) : t.kind = "settlement" /\ ~KeyTaken("reversal", t.key)})
  BY DEF ReversedExactly
<1>0. LedgerInv
  BY Parts
<1>1. PICK E : E = {t \in EntriesOf(u, a) : t.kind \in {"settlement", "reversal"}}
  OBVIOUS
<1>2. PICK R : R = {t \in EntriesOf(u, a) : t.kind = "settlement" /\ ~KeyTaken("reversal", t.key)}
  OBVIOUS
<1>3. E \in SUBSET ledger /\ R \in SUBSET E /\ \A t \in E : t.kind = "settlement" \/ t.kind = "reversal"
  BY <1>1, <1>2 DEF EntriesOf
<1>4. ASSUME NEW t \in ledger, NEW y \in ledger, (t.user = u /\ t.account = a) \/ (y.user = u /\ y.account = a),
             t.kind = "settlement", y.kind = "reversal", t.key = y.key
      PROVE  t \in E \ R /\ y \in E \ R /\ y.amount = -t.amount /\ t.amount = -y.amount
  <2>1. PICK z \in ledger : z.kind = "settlement" /\ TakesBack(y, z)
    BY <1>0, <1>4 DEF LedgerInv, ReversalsMatch
  <2>2. z = t
    BY <1>0, <1>4, <2>1 DEF LedgerInv, LedgerTyped, TakesBack
  <2>3. y.user = t.user /\ y.account = t.account /\ y.amount = -t.amount
    BY <2>1, <2>2 DEF TakesBack
  <2>4. t.amount \in Int
    BY <1>0 DEF LedgerInv, LedgerTyped
  <2>5. KeyTaken("reversal", t.key)
    BY <1>4 DEF KeyTaken
  <2>6. QED
    BY <1>1, <1>2, <1>4, <2>3, <2>4, <2>5 DEF EntriesOf
<1>5. ASSUME NEW t \in E \ R
      PROVE  \E x \in E \ R : x.key = t.key /\ x.kind # t.kind /\ x.amount = -t.amount
  <2>0. t \in ledger /\ t.user = u /\ t.account = a
    BY <1>1 DEF EntriesOf
  <2>1. CASE t.kind = "settlement"
    <3>1. KeyTaken("reversal", t.key)
      BY <1>1, <1>2, <2>1
    <3>2. PICK y \in ledger : y.kind = "reversal" /\ y.key = t.key
      BY <3>1 DEF KeyTaken
    <3>3. y \in E \ R /\ y.amount = -t.amount
      BY <1>4, <2>0, <2>1, <3>2
    <3>4. QED
      BY <2>1, <3>2, <3>3
  <2>2. CASE t.kind = "reversal"
    <3>1. PICK z \in ledger : z.kind = "settlement" /\ TakesBack(t, z)
      BY <1>0, <2>0, <2>2 DEF LedgerInv, ReversalsMatch
    <3>2. z.key = t.key
      BY <3>1 DEF TakesBack
    <3>3. z \in E \ R /\ z.amount = -t.amount
      BY <1>4, <2>0, <2>2, <3>1, <3>2
    <3>4. QED
      BY <2>2, <3>1, <3>2, <3>3
  <2>3. QED
    BY <1>3, <2>1, <2>2
<1>6. PairedOff(E, R)
  BY <1>3, <1>5 DEF PairedOff
<1>7. Total(E) = Total(R)
  BY <1>0, <1>3, <1>6, PairsCancel
<1>8. QED
  BY <1>1, <1>2, <1>7

(* adjust.go: keys stay distinct, and reversals, however many are asked    *)
(* for and however they interleave with each other and with an import,     *)
(* take back exactly what was recorded.                                    *)
THEOREM SettlementsCorrect == Spec => []SettlementsSound
<1>1. AccountsInv => SettlementsSound
  BY InvReversedExactly DEF AccountsInv, SettlementsSound
<1>2. QED
  BY <1>1, AccountsInvariance, PTL

(* The import's entries on a member's account cancel.                      *)
LEMMA InvSeasonStartsAtZero == AccountsInv => SeasonStartsAtZero
<1> SUFFICES ASSUME AccountsInv, NEW u \in Users, NEW a \in AccountTypes
             PROVE  Total({t \in EntriesOf(u, a) : t.kind \in {"opening", "season"}}) = 0
  BY DEF SeasonStartsAtZero
<1>0. LedgerInv /\ ImportInv
  BY Parts
<1>1. PICK E : E = {t \in EntriesOf(u, a) : t.kind \in {"opening", "season"}}
  OBVIOUS
<1>2. PICK R : R = {}
  OBVIOUS
<1>3. E \in SUBSET ledger /\ R \in SUBSET E /\ \A t \in E : t.kind = "opening" \/ t.kind = "season"
  BY <1>1, <1>2 DEF EntriesOf
<1>4. ASSUME NEW t \in E \ R
      PROVE  \E x \in E \ R : x.key = t.key /\ x.kind # t.kind /\ x.amount = -t.amount
  <2>0. t \in ledger /\ t.user = u /\ t.account = a
    BY <1>1 DEF EntriesOf
  <2>1. CASE t.kind = "opening"
    <3>1. PICK s \in Sources : batch[s] = "promoted" /\ t \in Openings(s)
      BY <1>0, <2>0, <2>1 DEF ImportInv, EntriesImported
    <3>2. Promotable(s) /\ SeasonSettlements(s) \subseteq ledger
      BY <1>0, <3>1 DEF ImportInv, EntriesImported, ReportsSound
    <3>3. PICK x \in SeasonSettlements(s) : TakesBack(x, t)
      BY <3>1, <3>2, OpeningTyped
    <3>4. x.kind = "season" /\ x \in ledger
      BY <3>2, SeasonTyped
    <3>5. QED
      BY <1>1, <1>2, <2>0, <2>1, <3>3, <3>4 DEF TakesBack, EntriesOf
  <2>2. CASE t.kind = "season"
    <3>1. PICK s \in Sources : batch[s] = "promoted" /\ t \in SeasonSettlements(s)
      BY <1>0, <2>0, <2>2 DEF ImportInv, EntriesImported
    <3>2. Promotable(s) /\ Openings(s) \subseteq ledger
      BY <1>0, <3>1 DEF ImportInv, EntriesImported, ReportsSound
    <3>3. PICK x \in Openings(s) : TakesBack(t, x)
      BY <3>1, <3>2, SeasonTyped
    <3>4. x.kind = "opening" /\ x \in ledger /\ x.amount \in Int
      BY <3>2, OpeningTyped
    <3>5. x.amount = -t.amount
      BY <3>3, <3>4 DEF TakesBack
    <3>6. QED
      BY <1>1, <1>2, <2>0, <2>2, <3>3, <3>4, <3>5 DEF TakesBack, EntriesOf
  <2>3. QED
    BY <1>3, <2>1, <2>2
<1>5. PairedOff(E, R)
  BY <1>3, <1>4 DEF PairedOff
<1>6. Total(E) = Total(R)
  BY <1>0, <1>3, <1>5, PairsCancel
<1>7. QED
  BY <1>1, <1>2, <1>6, TotalEmpty

(* One batch maps a legacy user, so one batch opens the balance.           *)
LEMMA InvOpenedOnce == AccountsInv => OpenedOnce
<1> SUFFICES ASSUME AccountsInv, NEW i \in LegacyIds, NEW a \in AccountTypes, NEW opened,
                    opened = {t \in ledger : t.kind = "opening" /\ t.key[2] = i /\ t.key[3] = a}
             PROVE  /\ Cardinality(opened) <= 1
                    /\ \A t \in opened : mapping[i] # NoSource /\ mapping[i].batch = t.key[1]
  BY DEF OpenedOnce
<1>0. LedgerInv /\ ImportInv
  BY Parts
<1>1. ASSUME NEW t \in opened
      PROVE  /\ mapping[i] # NoSource
             /\ t.key[1] = mapping[i].batch
             /\ t.key = <<mapping[i].batch, i, a>>
  <2>1. PICK s \in Sources : batch[s] = "promoted" /\ t \in Openings(s)
    BY <1>0 DEF ImportInv, EntriesImported
  <2>2. Promotable(s)
    BY <1>0, <2>1 DEF ImportInv, ReportsSound
  <2>3. PICK u \in s.users, b \in AccountTypes : t.key = <<s, u.id, b>>
    BY <2>1, <2>2, OpeningTyped
  <2>4. u.id = i /\ b = a /\ t.key[1] = s
    BY <2>3
  <2>5. mapping[i] = [batch |-> s, user |-> u.email] /\ u.email \in Users
    BY <1>0, <2>1, <2>2, <2>4, UserParsed DEF ImportInv, NothingDropped
  <2>6. mapping[i].batch = s /\ mapping[i] # NoSource
    BY <2>5, ImportAssumption
  <2>7. QED
    BY <2>3, <2>4, <2>6
<1>2. ASSUME NEW t \in opened, NEW x \in opened PROVE t = x
  <2>1. t.key = x.key
    BY <1>1
  <2>2. QED
    BY <1>0, <2>1 DEF LedgerInv, LedgerTyped
<1>3. Cardinality(opened) <= 1
  <2>1. CASE opened = {}
    <3>1. Cardinality(opened) = 0
      BY <2>1, FS_EmptySet, Zenon
    <3>2. QED
      BY <3>1
  <2>2. CASE opened # {}
    <3>1. PICK t \in opened : TRUE
      BY <2>2
    <3>2. opened = {t}
      BY <1>2, <3>1
    <3>3. Cardinality(opened) = 1
      BY <3>2, FS_Singleton, Zenon
    <3>4. QED
      BY <3>3
  <2>3. QED
    BY <2>1, <2>2
<1>4. QED
  BY <1>1, <1>3

(* Promote, run again and again, on versions corrected in between and by   *)
(* commands that race: a balance is opened once, closed to zero, and no    *)
(* row of a promoted version is dropped.                                   *)
THEOREM ImportCorrect == Spec => []ImportSound
<1>1. AccountsInv => ImportSound
  BY InvSeasonStartsAtZero, InvOpenedOnce DEF AccountsInv, ImportSound
<1>2. QED
  BY <1>1, AccountsInvariance, PTL

(* Recording a form takes the shown balance from its member, and nothing   *)
(* from anybody else.                                                      *)
LEMMA RecordSettles ==
  ASSUME AccountsInv, [Next]_vars, NEW r \in Requests, NEW o, o = form[request[r].form],
         request[r].state = "record", ledger' # ledger, request'[r].state = "done",
         NEW u \in Users
  PROVE  Balance(u)' = Balance(u) - (IF u = o.user THEN o.shown ELSE 0)
<1>0. LedgerInv /\ PageInv
  BY Parts
<1>1. RecordSettlement(r)
  <2>1. request' # request
    <3>1. request'[r].state # request[r].state
      OBVIOUS
    <3>2. QED
      BY <3>1
  <2>2. \E q \in Requests : RecordSettlement(q) \/ ReverseSettlement(q)
    BY <2>1 DEF Next, SettleNext, ImportNext, settleVars, vars, ShowForm, SubmitSettlement,
                SubmitReversal, RequestFails
  <2>3. PICK q \in Requests : RecordSettlement(q) \/ ReverseSettlement(q)
    BY <2>2
  <2>4. request' = [request EXCEPT ![q].state = "done"]
    BY <2>3 DEF RecordSettlement, ReverseSettlement
  <2>5. q = r
    <3>1. q # r => request'[r] = request[r]
      BY <1>0, <2>4 DEF PageInv, PageTyped
    <3>2. QED
      BY <3>1
  <2>6. QED
    BY <2>3, <2>5 DEF ReverseSettlement
<1>2. o \in Offer /\ MemberAmount(o.direction, o.amount) = -o.shown
  <2>1. request[r].form \in Forms /\ o # NoForm
    BY <1>0 DEF PageInv, RequestsGrounded
  <2>2. QED
    BY <1>0, <2>1 DEF PageInv, PageTyped, OffersClear
<1>3. o.shown \in Int
  BY <1>2 DEF Offer
<1>4. PICK x : x = Entry("settlement", r, o.user, "cash", -o.shown)
  OBVIOUS
<1>5. /\ x.kind = "settlement" /\ x.key = r /\ x.user = o.user /\ x.account = "cash"
      /\ x.amount = -o.shown
  BY <1>4 DEF Entry
<1>6. ledger' = ledger \cup {x} /\ ~ KeyTaken("settlement", r)
  BY <1>1, <1>2, <1>4 DEF RecordSettlement
<1>7. x \notin ledger
  BY <1>5, <1>6 DEF KeyTaken
<1>8. PICK E : E = EntriesOf(u, "cash")
  OBVIOUS
<1>9. IsFiniteSet(E) /\ (\A t \in E : t.amount \in Int) /\ x \notin E
  <2>1. E \in SUBSET ledger
    BY <1>8 DEF EntriesOf
  <2>2. QED
    BY <1>0, <1>7, <2>1, FS_Subset DEF LedgerInv, LedgerTyped
<1>10. Balance(u) = Total(E) /\ Total(E) \in Int
  BY <1>8, <1>9, TotalType DEF Balance
<1>11. CASE u = o.user
  <2>1. EntriesOf(u, "cash")' = E \cup {x}
    BY <1>5, <1>6, <1>8, <1>11 DEF EntriesOf
  <2>2. Total(E \cup {x}) = Total(E) + x.amount
    BY <1>3, <1>5, <1>9, TotalAdd
  <2>3. Balance(u)' = Total(E \cup {x})
    BY <2>1 DEF Balance, Total
  <2>4. QED
    BY <1>3, <1>5, <1>10, <1>11, <2>2, <2>3
<1>12. CASE u # o.user
  <2>1. EntriesOf(u, "cash")' = E
    BY <1>5, <1>6, <1>8, <1>12 DEF EntriesOf
  <2>2. Balance(u)' = Total(E)
    BY <2>1 DEF Balance, Total
  <2>3. QED
    BY <1>10, <1>12, <2>2
<1>13. QED
  BY <1>11, <1>12

(* settleup.go offers the direction and amount that clear the balance      *)
(* shown: whatever else was recorded, reversed or imported since, a form   *)
(* takes exactly that balance from its member, and from nobody else.       *)
THEOREM ShownCorrect == Spec => ShownIsSettled
<1>1. ASSUME AccountsInv, [Next]_vars, NEW r \in Requests,
             request[r].state = "record", ledger' # ledger, request'[r].state = "done",
             NEW u \in Users
      PROVE  Balance(u)' = Balance(u) - (IF u = form[request[r].form].user
                                         THEN form[request[r].form].shown ELSE 0)
  BY <1>1, RecordSettles
<1>2. AccountsInv /\ [Next]_vars =>
        [\A r \in Requests :
           LET f == form[request[r].form]
           IN  (request[r].state = "record" /\ ledger' # ledger /\ request'[r].state = "done")
                   => \A u \in Users :
                          Balance(u)' = Balance(u) - (IF u = f.user THEN f.shown ELSE 0)
        ]_<<ledger, form, request>>
  BY <1>1
<1>3. QED
  BY <1>2, AccountsInvariance, PTL DEF Spec, ShownIsSettled
=============================================================================
