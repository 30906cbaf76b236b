------------------------------ MODULE Identity ------------------------------
(***************************************************************************)
(* Accounts, memberships, invitations, sign-in and sessions: the browser   *)
(* flow of internal/authweb and internal/membersweb over the service of    *)
(* internal/identity and the PostgreSQL stores of internal/identitypg and  *)
(* internal/authweb/attempts.go, with the operator's bootstrap command of  *)
(* cmd/cabot/bootstrap.go.                                                 *)
(*                                                                         *)
(* A user is named by the lower-cased e-mail its row was created with,     *)
(* which is unique and never changes.  A Google account is a subject with  *)
(* the e-mail it presents today: Idents holds the pairs a sign-in can      *)
(* present, so a subject whose e-mail changed has two.  A login attempt's  *)
(* state, nonce and PKCE verifier are one name.                            *)
(*                                                                         *)
(* Sign-ins, role changes and revocations are SERIALIZABLE transactions,   *)
(* bootstrap is READ COMMITTED and not ordered with them.  A role change   *)
(* or revocation is therefore two steps, its snapshot and its commit, with *)
(* the target's membership row locked in between; one of them is in flight *)
(* at a time, since two that overlap abort each other.  A sign-in is one   *)
(* step: it reads and writes rows of one person, which a bootstrap of that *)
(* person locks.  A check made outside the transaction that uses it is a   *)
(* step of its own.                                                        *)
(***************************************************************************)
EXTENDS Naturals, FiniteSets

CONSTANTS Users,      \* e-mail addresses, hence accounts
          Subjects,   \* Google subjects
          Addressees, \* whom an invitation may be addressed to, None for anyone
          Idents,     \* pairs <<subject, e-mail>> a sign-in can present
          Browsers, Attempts, Invites, Sessions,
          MaxCommands,   \* bound on the operator's bootstrap commands
          None, Operator

ASSUME IdentityAssumption ==
    /\ Idents \subseteq Subjects \X Users
    /\ Addressees \subseteq Users \cup {None}
    /\ None \notin Users \cup Subjects \cup Browsers \cup Attempts \cup Invites \cup Sessions
    /\ Operator \notin Users /\ Operator # None
    /\ MaxCommands \in Nat

VARIABLES account,    \* users rows
          role,       \* role of the active membership, "none" without one
          grantedBy,  \* who granted the active membership
          link,       \* auth_identities: the user a subject is linked to
          invite,     \* invitations
          attempt,    \* oidc_login_attempts, with the callback that consumed it
          session,    \* sessions
          cookie,     \* the three cookies of every browser
          task,       \* an admin request between its role check and its write
          rank,       \* history: the highest role a user has ever held
          commands,   \* bootstrap commands the operator may still run
          boot,       \* whom a bootstrap that found no other owner makes one
          change      \* the role change or revocation in flight

vars == <<account, role, grantedBy, link, invite, attempt, session, cookie,
          task, rank, commands, boot, change>>

memberVars == <<account, role, grantedBy, rank>>
openVars == <<commands, boot, change>>

Roles == {"member", "admin", "owner"}
Staff == {"admin", "owner"}
Rank == [member |-> 1, admin |-> 2, owner |-> 3]

NoInvite == [state |-> "none", role |-> "member", email |-> None,
             issuer |-> None, by |-> None]
NoAttempt == [state |-> "none", browser |-> None, invite |-> None]
Spent == [NoAttempt EXCEPT !.state = "spent"]
NoSession == [state |-> "none", user |-> None, attempt |-> None, from |-> None]
NoTask == [kind |-> "none"]
\* overtaken: history, an owner's role was replaced by the operator meanwhile.
NoChange == [actor |-> None, target |-> None, to |-> "none", overtaken |-> FALSE]
NoCookies == [attempt |-> None, invite |-> None, session |-> None]

Init ==
    /\ account = {}
    /\ role = [u \in Users |-> "none"]
    /\ grantedBy = [u \in Users |-> None]
    /\ link = [s \in Subjects |-> None]
    /\ invite = [i \in Invites |-> NoInvite]
    /\ attempt = [a \in Attempts |-> NoAttempt]
    /\ session = [s \in Sessions |-> NoSession]
    /\ cookie = [b \in Browsers |-> NoCookies]
    /\ task = NoTask
    /\ rank = [u \in Users |-> 0]
    /\ commands = MaxCommands
    /\ boot = None
    /\ change = NoChange

Owners == {u \in Users : role[u] = "owner"}

\* The active membership of u becomes one of role r granted by g.
Grant(u, r, g) ==
    /\ account' = account \cup {u}
    /\ role' = [role EXCEPT ![u] = r]
    /\ grantedBy' = [grantedBy EXCEPT ![u] = g]
    /\ rank' = [rank EXCEPT ![u] = IF @ < Rank[r] THEN Rank[r] ELSE @]

(***************************************************************************)
(* The operator's command, one at a time by its advisory lock.  For the    *)
(* role of owner it first reads the membership of an owner, any one if     *)
(* there are several, and goes on when there is none or it is the account. *)
(***************************************************************************)
BootstrapCheck(u) ==
    /\ commands > 0 /\ boot = None
    /\ Owners = {} \/ u \in Owners
    /\ commands' = commands - 1
    /\ boot' = u
    /\ UNCHANGED <<memberVars, change, link, invite, attempt, session, cookie, task>>

\* It then locks the account, does nothing when it has the role already, and
\* changes another role only when told to replace it: the last owner's
\* included.  A membership row that a role change has locked is waited for.
Bootstrap(u, r, replace) ==
    /\ IF r = "owner" THEN boot = u /\ commands' = commands
       ELSE boot = None /\ commands > 0 /\ commands' = commands - 1
    /\ change.target # u
    /\ role[u] # r
    /\ role[u] # "none" => replace
    /\ Grant(u, r, Operator)
    /\ boot' = None
    /\ change' = [change EXCEPT !.overtaken = @ \/ (change.target # None /\ role[u] = "owner")]
    /\ UNCHANGED <<link, invite, attempt, session, cookie, task>>

\* Nothing to do, another role and not told to replace it, or an error.
BootstrapRefused ==
    /\ boot # None
    /\ boot' = None
    /\ UNCHANGED <<memberVars, commands, change, link, invite, attempt, session,
                   cookie, task>>

(***************************************************************************)
(* The browser flow.                                                       *)
(***************************************************************************)

\* An invite link only stores the token in a cookie.
AcceptInvite(b, i) ==
    /\ invite[i].state # "none"
    /\ cookie' = [cookie EXCEPT ![b].invite = i]
    /\ UNCHANGED <<memberVars, openVars, link, invite, attempt, session, task>>

StartGoogle(b, a) ==
    /\ attempt[a].state = "none"
    /\ attempt' = [attempt EXCEPT ![a] = [NoAttempt EXCEPT !.state = "open",
                                                          !.browser = b]]
    /\ cookie' = [cookie EXCEPT ![b].attempt = a]
    /\ UNCHANGED <<memberVars, openVars, link, invite, session, task>>

\* Mutant: any nonce cookie is good enough.
CallbackAnyNonce(b, a) ==
    /\ attempt[a].state # "none"
    /\ cookie' = [cookie EXCEPT ![b].attempt = None]
    /\ attempt' =
         IF cookie[b].attempt = None \/ attempt[a].state # "open" THEN attempt
         ELSE [attempt EXCEPT ![a] = [state |-> "exchange", browser |-> b,
                                      invite |-> cookie[b].invite]]
    /\ UNCHANGED <<memberVars, openVars, link, invite, session, task>>

\* The provider returns to browser b with the state of attempt a.  Without a
\* nonce cookie nothing is consumed; a nonce of another attempt consumes a all
\* the same.  The cookie is cleared in every case.
Callback(b, a) ==
    /\ attempt[a].state # "none"
    /\ cookie' = [cookie EXCEPT ![b].attempt = None]
    /\ attempt' =
         IF cookie[b].attempt = None \/ attempt[a].state # "open" THEN attempt
         ELSE IF cookie[b].attempt # a THEN [attempt EXCEPT ![a] = Spent]
         ELSE [attempt EXCEPT ![a] = [state |-> "exchange", browser |-> b,
                                      invite |-> cookie[b].invite]]
    /\ UNCHANGED <<memberVars, openVars, link, invite, session, task>>

\* "Sign-in was not completed": the provider reports an error.
CallbackError(b) ==
    /\ cookie[b].attempt # None
    /\ cookie' = [cookie EXCEPT ![b].attempt = None]
    /\ UNCHANGED <<memberVars, openVars, link, invite, attempt, session, task>>

\* insertSession, the session cookie of the answer, and the invite cookie
\* cleared when the request carried one.
OpenSession(a, s, u) ==
    /\ session[s].state = "none"
    /\ session' = [session EXCEPT ![s] = [state |-> "live", user |-> u,
                                          attempt |-> a, from |-> None]]
    /\ attempt' = [attempt EXCEPT ![a] = Spent]
    /\ cookie' = [cookie EXCEPT
                    ![attempt[a].browser].session = s,
                    ![attempt[a].browser].invite =
                        IF attempt[a].invite = None THEN @ ELSE None]

\* resolveApprovedIdentity: the member the subject is linked to, else the
\* member with that e-mail unless the subject is linked to someone else.
Linked(id) == IF link[id[1]] = None THEN FALSE ELSE role[link[id[1]]] # "none"
ByEmail(id) == role[id[2]] # "none" /\ link[id[1]] \in {None, id[2]}
Approved(id) == Linked(id) \/ ByEmail(id)

\* Mutant: the e-mail is looked up before the subject, and the subject linked
\* to its account.
SignInByEmail(a, id, s) ==
    /\ attempt[a].state = "exchange"
    /\ role[id[2]] # "none"
    /\ OpenSession(a, s, id[2])
    /\ link' = [link EXCEPT ![id[1]] = id[2]]
    /\ UNCHANGED <<memberVars, openVars, invite, task>>

CompleteSignIn(a, id, s) ==
    /\ attempt[a].state = "exchange"
    /\ Approved(id)
    /\ OpenSession(a, s, IF Linked(id) THEN link[id[1]] ELSE id[2])
    /\ link' = IF Linked(id) THEN link ELSE [link EXCEPT ![id[1]] = id[2]]
    /\ UNCHANGED <<memberVars, openVars, invite, task>>

\* Mutant: the invitation is tried first, whoever presents it.
ConsumeFirst(a, id, s) ==
    LET i == attempt[a].invite
        u == IF Linked(id) THEN link[id[1]] ELSE id[2]
    IN  /\ attempt[a].state = "exchange"
        /\ i # None
        /\ invite[i].state = "open"
        /\ Grant(u, invite[i].role, invite[i].issuer)
        /\ invite' = [invite EXCEPT ![i].state = "consumed", ![i].by = u]
        /\ link' = [link EXCEPT ![id[1]] = IF @ = None THEN u ELSE @]
        /\ OpenSession(a, s, u)
        /\ UNCHANGED <<openVars, task>>

\* consumeInvitation: only for an identity that is not approved.  The one
\* active membership per user and the one consumed invitation per user are
\* unique indexes.  A subject linked to another account stays linked to it.
CompleteSignInWithInvitation(a, id, s) ==
    LET i == attempt[a].invite
    IN  /\ attempt[a].state = "exchange"
        /\ i # None
        /\ ~Approved(id)
        /\ invite[i].state = "open"
        /\ invite[i].email \in {None, id[2]}
        /\ role[id[2]] = "none"
        /\ \A j \in Invites : invite[j].by # id[2]
        /\ Grant(id[2], invite[i].role, invite[i].issuer)
        /\ invite' = [invite EXCEPT ![i].state = "consumed", ![i].by = id[2]]
        /\ link' = [link EXCEPT ![id[1]] = IF @ = None THEN id[2] ELSE @]
        /\ OpenSession(a, s, id[2])
        /\ UNCHANGED <<openVars, task>>

\* The exchange fails, the identity is neither approved nor invited, or the
\* transaction is aborted: the attempt is spent all the same.  The invite
\* cookie is cleared before the sign-in is tried.
SignInRefused(a, tried) ==
    /\ attempt[a].state = "exchange"
    /\ attempt' = [attempt EXCEPT ![a] = Spent]
    /\ cookie' = IF tried /\ attempt[a].invite # None
                 THEN [cookie EXCEPT ![attempt[a].browser].invite = None]
                 ELSE cookie
    /\ UNCHANGED <<memberVars, openVars, link, invite, session, task>>

(***************************************************************************)
(* Sessions.                                                               *)
(***************************************************************************)

\* UseSession: the token names a live session of a current member.
Usable(s) == s # None /\ (session[s].state = "live" /\ role[session[s].user] # "none")

\* The member a request of browser b acts for.
Actor(b) == session[cookie[b].session].user

\* Mutant: the rotated session is not revoked.
RotateKeepsOld(s, s2) ==
    /\ session[s].state = "live" /\ role[session[s].user] # "none"
    /\ session[s2].state = "none"
    /\ session' = [session EXCEPT ![s2] = [session[s] EXCEPT !.from = s]]
    /\ cookie' = [b \in Browsers |-> IF cookie[b].session = s
                                     THEN [cookie[b] EXCEPT !.session = s2]
                                     ELSE cookie[b]]
    /\ UNCHANGED <<memberVars, openVars, link, invite, attempt, task>>

\* Service.Rotate: no handler calls it yet; it is modelled with the cookie the
\* rotated token would be sent in.
RotateSession(s, s2) ==
    /\ session[s].state = "live" /\ role[session[s].user] # "none"
    /\ session[s2].state = "none"
    /\ session' = [session EXCEPT ![s].state = "ended",
                                  ![s2] = [session[s] EXCEPT !.from = s]]
    /\ cookie' = [b \in Browsers |-> IF cookie[b].session = s
                                     THEN [cookie[b] EXCEPT !.session = s2]
                                     ELSE cookie[b]]
    /\ UNCHANGED <<memberVars, openVars, link, invite, attempt, task>>

\* The cookie is cleared whether or not its session was still usable.
Logout(b) ==
    /\ cookie[b].session # None
    /\ session' = IF Usable(cookie[b].session)
                  THEN [session EXCEPT ![cookie[b].session].state = "ended"]
                  ELSE session
    /\ cookie' = [cookie EXCEPT ![b].session = None]
    /\ UNCHANGED <<memberVars, openVars, link, invite, attempt, task>>

\* Time passes the expiry of a session, an attempt or an invitation.
Expire ==
    /\ \/ /\ \E s \in Sessions : /\ session[s].state = "live"
                                 /\ session' = [session EXCEPT ![s].state = "ended"]
          /\ UNCHANGED <<attempt, invite>>
       \/ /\ \E a \in Attempts : /\ attempt[a].state = "open"
                                 /\ attempt' = [attempt EXCEPT ![a] = Spent]
          /\ UNCHANGED <<session, invite>>
       \/ /\ \E i \in Invites : /\ invite[i].state = "open"
                                /\ invite' = [invite EXCEPT ![i].state = "closed"]
          /\ UNCHANGED <<session, attempt>>
    /\ UNCHANGED <<memberVars, openVars, link, cookie, task>>

(***************************************************************************)
(* The members page.  requireAdmin, activeRole and the write are separate  *)
(* statements for invitations: the first two are the check, the write      *)
(* comes later and does not look at the role again.                        *)
(***************************************************************************)
\* Mutant: an admin may invite another admin.
StaffMayIssue(actor, r) == role[actor] \in Staff

MayIssue(actor, r) == role[actor] = "owner" \/ (role[actor] = "admin" /\ r = "member")

IsStaff(b) == Usable(cookie[b].session) /\ role[Actor(b)] \in Staff

CheckInvite(b, r, e) ==
    /\ task = NoTask
    /\ IsStaff(b) /\ MayIssue(Actor(b), r)
    /\ task' = [kind |-> "issue", actor |-> Actor(b), role |-> r, email |-> e]
    /\ UNCHANGED <<memberVars, openVars, link, invite, attempt, session, cookie>>

CheckRevoke(b) ==
    /\ task = NoTask
    /\ IsStaff(b)
    /\ task' = [kind |-> "revoke", actor |-> Actor(b)]
    /\ UNCHANGED <<memberVars, openVars, link, invite, attempt, session, cookie>>

IssueInvitation(i) ==
    /\ task.kind = "issue"
    /\ invite[i].state = "none"
    /\ invite' = [invite EXCEPT ![i] = [state |-> "open", role |-> task.role,
                       email |-> task.email, issuer |-> task.actor, by |-> None]]
    /\ task' = NoTask
    /\ UNCHANGED <<memberVars, openVars, link, attempt, session, cookie>>

\* A consumed invitation is not revoked; an expired one is as unusable as a
\* revoked one.
RevokeInvitation(i) ==
    /\ task.kind = "revoke"
    /\ invite[i].state # "none"
    /\ invite' = IF invite[i].state = "consumed" THEN invite
                 ELSE [invite EXCEPT ![i].state = "closed"]
    /\ task' = NoTask
    /\ UNCHANGED <<memberVars, openVars, link, attempt, session, cookie>>

LastOwner(u) == Owners = {u}

\* Mutant: the owners are not counted.
MayChangeAny(actor, u, to) ==
    /\ role[actor] = "owner"
    /\ to = "none" => u # actor
    /\ role[u] \notin {"none", to}

\* What a role change (to one of Roles) and a revocation (to "none") find out
\* in their snapshot: the actor is an owner, the target has another role and
\* is not the last owner.  The target's membership row is locked from here on.
MayChange(actor, u, to) ==
    /\ role[actor] = "owner"
    /\ to = "none" => u # actor
    /\ role[u] \notin {"none", to}
    /\ ~LastOwner(u)

BeginChange(b, u, to) ==
    /\ change = NoChange
    /\ Usable(cookie[b].session)
    /\ MayChange(Actor(b), u, to)
    /\ change' = [actor |-> Actor(b), target |-> u, to |-> to, overtaken |-> FALSE]
    /\ UNCHANGED <<memberVars, commands, boot, link, invite, attempt, session, cookie, task>>

\* A serialization failure or another error.
AbortChange ==
    /\ change # NoChange
    /\ change' = NoChange
    /\ UNCHANGED <<memberVars, commands, boot, link, invite, attempt, session, cookie, task>>

ChangeMemberRole ==
    /\ change.target # None /\ change.to # "none"
    /\ Grant(change.target, change.to, change.actor)
    /\ change' = NoChange
    /\ UNCHANGED <<commands, boot, link, invite, attempt, session, cookie, task>>

\* Mutant: the revoked member keeps the role without a grant.
RevokeGrantOnly ==
    /\ change.target # None /\ change.to = "none"
    /\ grantedBy' = [grantedBy EXCEPT ![change.target] = None]
    /\ change' = NoChange
    /\ UNCHANGED <<account, role, rank, commands, boot, link, invite, attempt, session,
                   cookie, task>>

RevokeMember ==
    /\ change.target # None /\ change.to = "none"
    /\ role' = [role EXCEPT ![change.target] = "none"]
    /\ grantedBy' = [grantedBy EXCEPT ![change.target] = None]
    /\ change' = NoChange
    /\ UNCHANGED <<account, rank, commands, boot, link, invite, attempt, session,
                   cookie, task>>

Next ==
    \/ \E u \in Users : BootstrapCheck(u)
    \/ \E u \in Users, r \in Roles, replace \in BOOLEAN : Bootstrap(u, r, replace)
    \/ BootstrapRefused
    \/ \E b \in Browsers, i \in Invites : AcceptInvite(b, i)
    \/ \E b \in Browsers, a \in Attempts : StartGoogle(b, a) \/ Callback(b, a)
    \/ \E b \in Browsers : CallbackError(b) \/ Logout(b) \/ CheckRevoke(b)
    \/ \E a \in Attempts, id \in Idents, s \in Sessions :
           CompleteSignIn(a, id, s) \/ CompleteSignInWithInvitation(a, id, s)
    \/ \E a \in Attempts, tried \in BOOLEAN : SignInRefused(a, tried)
    \/ \E s, s2 \in Sessions : RotateSession(s, s2)
    \/ Expire
    \/ \E b \in Browsers, r \in {"member", "admin"}, e \in Addressees :
           CheckInvite(b, r, e)
    \/ \E i \in Invites : IssueInvitation(i) \/ RevokeInvitation(i)
    \/ \E b \in Browsers, u \in Users, to \in Roles \cup {"none"} : BeginChange(b, u, to)
    \/ AbortChange \/ ChangeMemberRole \/ RevokeMember

Spec == Init /\ [][Next]_vars
-----------------------------------------------------------------------------
(***************************************************************************)
(* Properties.                                                             *)
(***************************************************************************)

\* Every variable has its type, a membership belongs to an account, and an
\* attempt being exchanged knows its browser.
TypeOK ==
    /\ account \subseteq Users
    /\ role \in [Users -> Roles \cup {"none"}]
    /\ grantedBy \in [Users -> Users \cup {None, Operator}]
    /\ link \in [Subjects -> Users \cup {None}]
    /\ invite \in [Invites -> [state : {"none", "open", "consumed", "closed"},
                                role : {"member", "admin"}, email : Users \cup {None},
                                issuer : Users \cup {None}, by : Users \cup {None}]]
    /\ attempt \in [Attempts -> [state : {"none", "open", "exchange", "spent"},
                                  browser : Browsers \cup {None},
                                  invite : Invites \cup {None}]]
    /\ session \in [Sessions -> [state : {"none", "live", "ended"},
                                  user : Users \cup {None}, attempt : Attempts \cup {None},
                                  from : Sessions \cup {None}]]
    /\ cookie \in [Browsers -> [attempt : Attempts \cup {None},
                                 invite : Invites \cup {None},
                                 session : Sessions \cup {None}]]
    /\ task.kind \in {"none", "issue", "revoke"}
    /\ rank \in [Users -> 0 .. 3]
    /\ commands \in 0 .. MaxCommands
    /\ boot \in Users \cup {None}
    /\ change \in [actor : Users \cup {None}, target : Users \cup {None},
                   to : Roles \cup {"none"}, overtaken : BOOLEAN]
    /\ \A u \in Users : role[u] # "none" => u \in account /\ grantedBy[u] # None
    /\ \A a \in Attempts : attempt[a].state = "exchange" => attempt[a].browser # None

\* An admin or owner holds the role from the operator or from someone who was
\* an owner, and a member from someone who was staff, although an invitation
\* outlives the role of the one who issued it and is issued after the check.
PrivilegeFromPrivilege ==
    \A u \in Users : grantedBy[u] \in Users =>
        rank[grantedBy[u]] >= (IF role[u] \in Staff THEN 3 ELSE 2)

\* A login attempt yields at most one live session, through rotations and
\* replayed callbacks, and its cookie is in one browser only.
OneLiveSessionPerSignIn ==
    \A s, t \in Sessions :
        /\ s # t /\ session[s].state = "live" /\ session[t].state = "live"
              => session[s].attempt # session[t].attempt
        /\ \A b, c \in Browsers : b # c /\ cookie[b].session = s => cookie[c].session # s

\* Attempt a is exchanged only in a browser that started it: the callback of
\* another browser may spend it but never proceeds with it.
BrowserBound ==
    [][\A a \in Attempts :
           attempt[a].state = "open" /\ attempt'[a].state = "exchange"
               => attempt'[a].browser = attempt[a].browser]_vars

\* A subject linked to an account stays linked to that account, whatever
\* e-mail it presents later.
LinksAreForLife ==
    [][\A s \in Subjects : link[s] # None => link'[s] = link[s]]_vars

\* An invitation is consumed only to admit someone who is not a member, gives
\* exactly the role it was issued for, and admits one person: a member does
\* not burn an invitation by following its link.
InviteAdmitsNewMember ==
    [][\A i \in Invites :
           /\ invite[i].state # "consumed" /\ invite'[i].state = "consumed" =>
                 /\ invite[i].state = "open"
                 /\ role[invite'[i].by] = "none"
                 /\ role' = [role EXCEPT ![invite'[i].by] = invite[i].role]
           /\ invite[i].state = "consumed" => invite'[i] = invite[i]]_vars

\* The book loses its last owner only to the operator's command, or to a role
\* change during which that command replaced an owner's role: no order of role
\* changes and revocations by owners does it, although each counts the owners
\* in a snapshot.
OwnerKept ==
    [][Owners # {} /\ Owners' = {} => commands' # commands \/ change.overtaken]_vars

\* ChangeMemberRole, "the last owner cannot be demoted", and RevokeMember,
\* "the last owner cannot be revoked": no step but the operator's command
\* takes the last owner's role.
LastOwnerKept ==
    [][Owners # {} /\ Owners' = {} => commands' # commands]_vars

\* Every membership has a type, an account and a giver who was entitled to
\* give it.
RolesSound == TypeOK /\ PrivilegeFromPrivilege

\* What a sign-in may do: finish in the browser that began it, keep a subject
\* with its account, and use an invitation up only to admit somebody new.
SignInSound == BrowserBound /\ LinksAreForLife /\ InviteAdmitsNewMember
=============================================================================
