----------------------------- MODULE StakeLimits -----------------------------
(***************************************************************************)
(* Who may put how much on one market: a member's limit on the market, a   *)
(* member's limit on one side and the book's total cap on a side           *)
(* (loadStakeLimits, betting.PlaceWager, SetStakeLimit, SetTotalSideCap),  *)
(* restrictions on members (RestrictMember, LiftRestriction), the closing  *)
(* time (SetMarketCloseTime), and the approval that follows a placement    *)
(* (placeWager and adminPlaceWagerForMember in bettingweb).                *)
(*                                                                         *)
(* A placement is taken statement by statement, because each thing it      *)
(* checks is read by a statement of its own while other placements,        *)
(* rejections, voids, reductions and changes by administrators commit.  It *)
(* holds the row lock of its side from the first sum until it commits.     *)
(* The handler then approves the wager in a transaction of its own.        *)
(*                                                                         *)
(* A request is one POST of the form.  Requests of one form carry the same *)
(* idempotency key, which stands for the wager they ask for.               *)
(***************************************************************************)
EXTENDS Integers, FiniteSets, Functions

CONSTANTS
  Users,
  Sides,       \* the selections of the market
  Whole,       \* the side of a restriction on the whole market
  Wagers,
  Scenarios,   \* the requests made, limits at the start, what administrators change
  NewLimits,   \* values an administrator may change a limit to; 0 is none
  AutoLimits,  \* values of a member's auto-approve limit; 0 is never
  MaxChanges   \* bound on changes by administrators

Ask == [wager : Wagers, user : Users, side : Sides, stake : Nat \ {0}, byAdmin : BOOLEAN]
Kinds == {"limits", "members", "time"}

ASSUME StakeLimitsAssumption ==
  /\ IsFiniteSet(Wagers) /\ Whole \notin Sides
  /\ \A c \in Scenarios :
       /\ \A r \in DOMAIN c.asks : c.asks[r] \in Ask
       /\ c.limit \in Nat /\ c.auto \in AutoLimits /\ c.may \subseteq Kinds
       /\ \A q, r \in DOMAIN c.asks : c.asks[q].wager = c.asks[r].wager
                                   => c.asks[q].user = c.asks[r].user
  /\ NewLimits \subseteq Nat
  /\ AutoLimits \subseteq Nat
  /\ MaxChanges \in Nat

VARIABLES
  plan,       \* the scenario; it never changes
  board,      \* "open", "late" (open, its closing time over) or "closed"
  marketMax,  \* markets.max_stake_cents
  sideMax,    \* selections.max_stake_cents
  totalCap,   \* selections.total_stake_cap_cents
  capping,    \* sides a limit change is waiting for, the market row locked
  autoMax,    \* users.wager_auto_approve_max_cents, at first the book's default
  barred,     \* market_restrictions: pairs of a member and a side or Whole
  wager,      \* the wagers' rows
  step,       \* statement a request has reached
  read,       \* what it has read so far
  changes,    \* changes made by administrators
  granted,    \* history: the largest auto-approve limit a member ever had
  kept        \* history: requests whose member was barred from the start

limitVars == <<marketMax, sideMax, totalCap, capping>>
memberVars == <<autoMax, barred, granted>>
requestVars == <<step, read, kept>>
vars == <<plan, board, limitVars, memberVars, wager, requestVars, changes>>

asks == plan.asks
Requests == DOMAIN asks

Steps == {"idle", "opened", "locking", "market", "side", "total", "insert", "commit",
          "placed", "accept", "done"}
Holding == {"market", "side", "total", "insert", "commit"}
NothingRead == [marketMax |-> 0, sideMax |-> 0, totalCap |-> 0,
                market |-> 0, side |-> 0, total |-> 0]
NoRow == [state |-> "none", stake |-> 0]
Row == [state : {"pending", "accepted", "rejected", "voided"},
        stake : Nat \ {0}, user : Users, side : Sides]
Reading == [marketMax : Nat, sideMax : Nat, totalCap : Nat, market : Nat, side : Nat, total : Nat]

-----------------------------------------------------------------------------
(* Sums over wagers that are pending or accepted *)

Riding == {w \in Wagers : wager[w].state \in {"pending", "accepted"}}

Stakes(W) == SumFunction([w \in W |-> wager[w].stake])

OnMarket(u)  == Stakes({w \in Riding : wager[w].user = u})
OnSide(u, s) == Stakes({w \in Riding : wager[w].user = u /\ wager[w].side = s})
Total(s)     == Stakes({w \in Riding : wager[w].side = s})

WithinEach(limit, existing, amount) == limit > 0 => amount <= limit

(* betting.PlaceWager: a limit of zero does not bind.                      *)
Within(limit, existing, amount) == limit > 0 => existing + amount <= limit

RestrictedFromMarket(u, s) == <<u, Whole>> \in barred

(* Restriction.Restricts, over the rows of the market.                     *)
Restricted(u, s) == \E r \in barred : r[1] = u /\ r[2] \in {s, Whole}

-----------------------------------------------------------------------------
Init ==
  /\ \E c \in Scenarios :
       /\ plan = c
       /\ marketMax = c.limit
       /\ sideMax = [s \in Sides |-> c.limit]
       /\ totalCap = [s \in Sides |-> c.limit]
  /\ wager = [w \in Wagers |-> NoRow]
  /\ board = "open"
  /\ capping = {}
  /\ autoMax = [u \in Users |-> plan.auto]
  /\ granted = autoMax
  /\ barred = {}
  /\ step = [r \in Requests |-> "idle"]
  /\ read = [r \in Requests |-> NothingRead]
  /\ kept = {}
  /\ changes = 0

(* Rows locked by placements: the side, and the market's key once the      *)
(* wager row is inserted.                                                  *)
SideLocked(s) == \E r \in Requests : asks[r].side = s /\ step[r] \in Holding
MarketShared == \E r \in Requests : step[r] = "commit"

Goto(r, next) == step' = [step EXCEPT ![r] = next]

(* PlaceWager reads the market: open, and not past its closing time.       *)
PlaceStart(r) ==
  /\ board = "open" /\ step[r] = "idle"
  /\ Goto(r, "opened")
  /\ kept' = IF {<<asks[r].user, Whole>>, <<asks[r].user, asks[r].side>>} \cap barred = {}
             THEN kept ELSE kept \cup {r}
  /\ UNCHANGED <<plan, board, limitVars, memberVars, wager, read, changes>>

(* loadRestrictions; then the limit statement starts, sees the market row  *)
(* as it is now and waits for the side's row.                              *)
PlaceRestrictions(r) ==
  /\ step[r] = "opened"
  /\ ~ Restricted(asks[r].user, asks[r].side)
  /\ Goto(r, "locking")
  /\ read' = [read EXCEPT ![r].marketMax = marketMax]
  /\ UNCHANGED <<plan, board, limitVars, memberVars, wager, kept, changes>>

(* SELECT ... FOR UPDATE OF s is granted, and returns the side's row as it *)
(* is under the lock.                                                      *)
PlaceLock(r) ==
  /\ step[r] = "locking"
  /\ ~ SideLocked(asks[r].side)
  /\ Goto(r, "market")
  /\ read' = [read EXCEPT ![r].sideMax = sideMax[asks[r].side],
                          ![r].totalCap = totalCap[asks[r].side]]
  /\ UNCHANGED <<plan, board, limitVars, memberVars, wager, kept, changes>>

(* The three sums, each as committed when its statement runs.              *)
PlaceSumMarket(r) ==
  /\ step[r] = "market"
  /\ Goto(r, "side")
  /\ read' = [read EXCEPT ![r].market = OnMarket(asks[r].user)]
  /\ UNCHANGED <<plan, board, limitVars, memberVars, wager, kept, changes>>

PlaceSumSide(r) ==
  /\ step[r] = "side"
  /\ Goto(r, "total")
  /\ read' = [read EXCEPT ![r].side = OnSide(asks[r].user, asks[r].side)]
  /\ UNCHANGED <<plan, board, limitVars, memberVars, wager, kept, changes>>

PlaceSumTotal(r) ==
  /\ step[r] = "total"
  /\ Goto(r, "insert")
  /\ read' = [read EXCEPT ![r].total = Total(asks[r].side)]
  /\ UNCHANGED <<plan, board, limitVars, memberVars, wager, kept, changes>>

StoredAnyStake(r) ==
  LET row == wager[asks[r].wager] IN row # NoRow => row.side = asks[r].side

(* ON CONFLICT DO NOTHING: a row already stored under the key is taken as  *)
(* this request's only if it asks for the same.                            *)
StoredMatches(r) ==
  LET row == wager[asks[r].wager]
  IN  row # NoRow => row.side = asks[r].side /\ row.stake = asks[r].stake

(* betting.PlaceWager accepts the request; the INSERT waits for the key of *)
(* the market row when a limit change has locked it, and for another       *)
(* request that is inserting the same wager.                               *)
PlaceInsert(r) ==
  LET ask == asks[r] IN
  /\ step[r] = "insert"
  /\ Within(read[r].marketMax, read[r].market, ask.stake)
  /\ Within(read[r].sideMax, read[r].side, ask.stake)
  /\ Within(read[r].totalCap, read[r].total, ask.stake)
  /\ capping = {}
  /\ \A q \in Requests : step[q] = "commit" => asks[q].wager # ask.wager
  /\ StoredMatches(r)
  /\ Goto(r, "commit")
  /\ UNCHANGED <<plan, board, limitVars, memberVars, wager, read, kept, changes>>

PlaceCommit(r) ==
  LET ask == asks[r] IN
  /\ step[r] = "commit"
  /\ wager' = IF wager[ask.wager] # NoRow THEN wager
              ELSE [wager EXCEPT ![ask.wager] =
                      [state |-> "pending", stake |-> ask.stake, user |-> ask.user, side |-> ask.side]]
  /\ Goto(r, "placed")
  /\ read' = [read EXCEPT ![r] = NothingRead]
  /\ UNCHANGED <<plan, board, limitVars, memberVars, kept, changes>>

(* The request is refused or its transaction fails; it may be sent again.  *)
PlaceRollback(r) ==
  /\ step[r] \in {"opened", "locking"} \cup Holding
  /\ Goto(r, "idle")
  /\ read' = [read EXCEPT ![r] = NothingRead]
  /\ kept' = kept \ {r}
  /\ UNCHANGED <<plan, board, limitVars, memberVars, wager, changes>>

(* The handler goes on to approve what an administrator placed, and what   *)
(* is within the member's limit as it reads it now, or within the book's   *)
(* default when the limit cannot be read.                                  *)
ReadApproval(r) ==
  /\ step[r] = "placed"
  /\ \E limit \in {autoMax[asks[r].user], plan.auto} :
       Goto(r, IF asks[r].byAdmin \/ asks[r].stake <= limit THEN "accept" ELSE "done")
  /\ UNCHANGED <<plan, board, limitVars, memberVars, wager, read, kept, changes>>

(* AcceptWager for the stored wager; what was reviewed meanwhile stays.    *)
Approve(r) ==
  LET w == asks[r].wager IN
  /\ step[r] = "accept"
  /\ wager' = IF wager[w].state = "pending"
              THEN [wager EXCEPT ![w].state = "accepted"] ELSE wager
  /\ Goto(r, "done")
  /\ UNCHANGED <<plan, board, limitVars, memberVars, read, kept, changes>>

(* Funds do not cover it, or the request ends: the wager stays pending.    *)
NotApproved(r) ==
  /\ step[r] \in {"placed", "accept"}
  /\ Goto(r, "done")
  /\ UNCHANGED <<plan, board, limitVars, memberVars, wager, read, kept, changes>>

-----------------------------------------------------------------------------
(* The rest of a wager's life, as far as it changes what rides.            *)

Review(w, from, to) ==
  /\ wager[w].state = from
  /\ wager' = [wager EXCEPT ![w].state = to]
  /\ UNCHANGED <<plan, board, limitVars, memberVars, requestVars, changes>>

AcceptWager(w) == Review(w, "pending", "accepted")
RejectWager(w) == Review(w, "pending", "rejected")
VoidWager(w)   == Review(w, "accepted", "voided")

ReduceToNothing(w, n) ==
  /\ wager[w].state = "accepted"
  /\ n < wager[w].stake
  /\ wager' = [wager EXCEPT ![w].stake = n]
  /\ UNCHANGED <<plan, board, limitVars, memberVars, requestVars, changes>>

ReduceWager(w, n) ==
  /\ wager[w].state = "accepted"
  /\ n > 0 /\ n < wager[w].stake
  /\ wager' = [wager EXCEPT ![w].stake = n]
  /\ UNCHANGED <<plan, board, limitVars, memberVars, requestVars, changes>>

-----------------------------------------------------------------------------
(* Administration *)

Change(kind) == kind \in plan.may /\ changes < MaxChanges /\ changes' = changes + 1

(* The market's row is locked by no limit change and no inserted wager.    *)
MarketFree == capping = {} /\ ~ MarketShared

CloseMarket ==
  /\ board # "closed" /\ MarketFree
  /\ board' = "closed"
  /\ UNCHANGED <<plan, limitVars, memberVars, wager, requestVars, changes>>

(* Time reaches closes_at.                                                 *)
CloseTimePasses ==
  /\ "time" \in plan.may
  /\ board = "open"
  /\ board' = "late"
  /\ UNCHANGED <<plan, limitVars, memberVars, wager, requestVars, changes>>

(* To a time in the future, whatever the old one was: while the state is   *)
(* open a board whose time is over takes wagers again.                     *)
SetMarketCloseTime ==
  /\ board # "closed" /\ MarketFree
  /\ Change("time")
  /\ board' = "open"
  /\ UNCHANGED <<plan, limitVars, memberVars, wager, requestVars>>

(* SetStakeLimit without a selection updates the market row it has locked. *)
SetMarketLimit(n) ==
  /\ board # "closed" /\ MarketFree
  /\ Change("limits")
  /\ marketMax' = n
  /\ UNCHANGED <<plan, board, sideMax, totalCap, capping, memberVars, wager, requestVars>>

(* SetStakeLimit for a side and SetTotalSideCap lock the market row, then  *)
(* update the side's row, waiting for placements that hold it.             *)
LimitStart(s) ==
  /\ board # "closed" /\ MarketFree
  /\ Change("limits")
  /\ capping' = {s}
  /\ UNCHANGED <<plan, board, marketMax, sideMax, totalCap, memberVars, wager, requestVars>>

SetSideLimit(s, n) ==
  /\ s \in capping /\ ~ SideLocked(s)
  /\ sideMax' = [sideMax EXCEPT ![s] = n]
  /\ capping' = {}
  /\ UNCHANGED <<plan, board, marketMax, totalCap, memberVars, wager, requestVars, changes>>

CapWithoutWaiting(s, n) ==
  /\ s \in capping
  /\ totalCap' = [totalCap EXCEPT ![s] = n]
  /\ capping' = {}
  /\ UNCHANGED <<plan, board, marketMax, sideMax, memberVars, wager, requestVars, changes>>

SetTotalSideCap(s, n) ==
  /\ s \in capping /\ ~ SideLocked(s)
  /\ totalCap' = [totalCap EXCEPT ![s] = n]
  /\ capping' = {}
  /\ UNCHANGED <<plan, board, marketMax, sideMax, memberVars, wager, requestVars, changes>>

(* A limit change gives up: an error, or the victim of a deadlock with a   *)
(* placement that holds the side and waits for the market.                 *)
LimitRollback(s) ==
  /\ s \in capping
  /\ capping' = {}
  /\ UNCHANGED <<plan, board, marketMax, sideMax, totalCap, memberVars, wager, requestVars, changes>>

RestrictMember(u, s) ==
  /\ <<u, s>> \notin barred
  /\ Change("members")
  /\ barred' = barred \cup {<<u, s>>}
  /\ UNCHANGED <<plan, board, limitVars, autoMax, granted, wager, requestVars>>

(* One restriction; lifting the ban from the market leaves those on sides. *)
LiftRestriction(u, s) ==
  /\ <<u, s>> \in barred
  /\ Change("members")
  /\ barred' = barred \ {<<u, s>>}
  /\ kept' = {r \in kept : {<<asks[r].user, Whole>>, <<asks[r].user, asks[r].side>>}
                            \cap barred' # {}}
  /\ UNCHANGED <<plan, board, limitVars, autoMax, granted, wager, step, read>>

SetAutoApproveLimit(u, n) ==
  /\ autoMax[u] # n
  /\ Change("members")
  /\ autoMax' = [autoMax EXCEPT ![u] = n]
  /\ granted' = [granted EXCEPT ![u] = IF n > @ THEN n ELSE @]
  /\ UNCHANGED <<plan, board, limitVars, barred, wager, requestVars>>

-----------------------------------------------------------------------------
Place(r) ==
  \/ PlaceStart(r) \/ PlaceRestrictions(r) \/ PlaceLock(r)
  \/ PlaceSumMarket(r) \/ PlaceSumSide(r) \/ PlaceSumTotal(r)
  \/ PlaceInsert(r) \/ PlaceCommit(r) \/ PlaceRollback(r)
  \/ ReadApproval(r) \/ Approve(r) \/ NotApproved(r)

Manage(w) ==
  \/ AcceptWager(w) \/ RejectWager(w) \/ VoidWager(w)
  \/ \E n \in 0 .. wager[w].stake : ReduceWager(w, n)

Administer ==
  \/ CloseMarket \/ CloseTimePasses \/ SetMarketCloseTime
  \/ \E n \in NewLimits : SetMarketLimit(n)
  \/ \E s \in Sides : LimitStart(s) \/ LimitRollback(s)
  \/ \E s \in Sides, n \in NewLimits : SetSideLimit(s, n) \/ SetTotalSideCap(s, n)
  \/ \E u \in Users, s \in Sides \cup {Whole} : RestrictMember(u, s) \/ LiftRestriction(u, s)
  \/ \E u \in Users, n \in AutoLimits : SetAutoApproveLimit(u, n)

Next == Administer \/ (\E r \in Requests : Place(r)) \/ (\E w \in Wagers : Manage(w))

Spec == Init /\ [][Next]_vars

-----------------------------------------------------------------------------
(* Properties *)

(* Every variable has its type, and a stored wager has a stake.            *)
TypeOK ==
  /\ board \in {"open", "late", "closed"}
  /\ marketMax \in Nat /\ sideMax \in [Sides -> Nat] /\ totalCap \in [Sides -> Nat]
  /\ capping = {} \/ \E s \in Sides : capping = {s}
  /\ autoMax \in [Users -> AutoLimits]
  /\ barred \subseteq Users \X (Sides \cup {Whole})
  /\ wager \in [Wagers -> Row \cup {NoRow}]
  /\ step \in [Requests -> Steps]
  /\ read \in [Requests -> Reading]
  /\ changes \in 0 .. MaxChanges

(* A value that grows in a step stays within its limit, zero for none.     *)
GrowsWithin(before, after, limit) ==
  after > before /\ limit > 0 => after <= limit

(* "Taking the lock before the sum is what makes the cap real": the book's *)
(* total on a side never grows past the cap the side has when it grows,    *)
(* whoever else places, is voided or changes the cap meanwhile; a cap      *)
(* lowered below the total only stops it growing.                          *)
SideStopsAtCap ==
  [][\A s \in Sides : GrowsWithin(Total(s), Total(s)', totalCap'[s])]_vars

(* The same for one member's limit on one side: several wagers placed at   *)
(* once do not get around it.                                              *)
MemberStopsAtSideLimit ==
  [][\A u \in Users, s \in Sides :
       GrowsWithin(OnSide(u, s), OnSide(u, s)', sideMax'[s])]_vars

(* placeWager approves by the stake of the form, AcceptWager the stake of  *)
(* the stored wager: no resubmission of a form, edited or not, gets a      *)
(* wager approved that is larger than any limit its member was given.      *)
ApprovedWithinLimit ==
  [][\A r \in Requests :
       LET w == asks[r].wager
       IN  /\ step[r] = "accept" /\ step'[r] = "done" /\ ~ asks[r].byAdmin
           /\ wager[w].state = "pending" /\ wager'[w].state = "accepted"
           => wager[w].stake <= granted[asks[r].user]]_vars

(* "Hiding is a courtesy, not the control: PlaceWager re-checks": a        *)
(* request made by or for a member barred from the market or the side, and *)
(* not let back in meanwhile, is never placed, nor gets an older wager of  *)
(* the member approved.                                                    *)
BarredPlaceNothing ==
  \A r \in kept : step[r] \notin {"commit", "placed", "accept", "done"}

(* "A market's stake cap is a limit on the member, not on the bet:         *)
(* spreading the money over several wagers must not get around it."        *)
MemberStopsAtMarketLimit ==
  [][\A u \in Users : GrowsWithin(OnMarket(u), OnMarket(u)', marketMax')]_vars

(* PlaceWager: only wagers with a stake are stored, and none for a member  *)
(* who is barred.                                                          *)
AdmissionSound == TypeOK /\ BarredPlaceNothing

(* The caps of a side hold against concurrent placements, for the book and *)
(* for each member.                                                        *)
LimitsHold == SideStopsAtCap /\ MemberStopsAtSideLimit
=============================================================================
